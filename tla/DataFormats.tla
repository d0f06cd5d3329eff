----------------------------- MODULE DataFormats -----------------------------
(* The text format of the file database (stdlib/database.c): what tofile      *)
(* writes and what fromfile makes of it.                                      *)
(*                                                                            *)
(* A text is a sequence of symbols: characters, and numbers and words outside *)
(* strings, each one symbol.  Sizes and depth are as in BinaryFormat.         *)
EXTENDS BinaryFormat

CONSTANT
  PlainChar       \* characters keys may have without quotes (all but '-')

Number(n, d) == <<"number", n, d>>
Word(w) == <<"word", w>>

Blank == {Char(" "), Char("newline"), Char("tab"), Char("return")}

\* Copies (core/value.c) are deep; a map's pairs are set again one by one.
RECURSIVE copy_value_secure(_)
copy_value_secure(v) ==
  CASE TypeOf(v) = "list" -> List([i \in DOMAIN v[2] |-> copy_value_secure(v[2][i])])
    [] TypeOf(v) = "map" ->
         FoldLeft(LAMBDA m, p : IF m = Err THEN Err
                                ELSE val_map_set_typed(m[2], p.key, copy_value_secure(p.value), p.vtype),
                  MapOf(<<>>), v[2])
    [] OTHER -> v

RECURSIVE Nesting(_)
Nesting(v) ==
  LET inner == CASE TypeOf(v) = "list" -> {Nesting(v[2][i]) : i \in DOMAIN v[2]}
                 [] TypeOf(v) = "map" -> {Nesting(v[2][i].value) : i \in DOMAIN v[2]}
                 [] OTHER -> {}
  IN IF inner = {} THEN 0 ELSE 1 + (CHOOSE n \in inner : \A m \in inner : m <= n)

----------------------------------------------------------------------------
(* Writing text.                                                              *)

\* The letter after the backslash of the characters that get one.
EscapeOf == [c \in {"\\", "\"", "newline", "return", "tab"} |->
               CASE c = "newline" -> "n" [] c = "return" -> "r" [] c = "tab" -> "t" [] OTHER -> c]

Escaped(c) == IF c \in DOMAIN EscapeOf THEN <<Char("\\"), Char(EscapeOf[c])>> ELSE <<Char(c)>>

Quoted(s) == <<Char("\"")>> \o FlattenSeq([i \in DOMAIN s |-> Escaped(s[i])]) \o <<Char("\"")>>

\* A key goes without quotes if the language reads it as one name: "--" would
\* be an operator.
Simple(k) ==
  /\ k # <<>> /\ k[1] \in PlainChar
  /\ \A i \in 2..Len(k) : /\ k[i] \in PlainChar \union {"-"}
                          /\ k[i] = "-" /\ i < Len(k) => k[i + 1] # "-"

KeyText(k) == IF Simple(k) THEN Chars(k) ELSE Quoted(k)

Separated(texts, between) ==
  FoldLeft(LAMBDA all, t : IF all = <<>> THEN t ELSE all \o between \o t, <<>>, texts)

Comma == <<Char(","), Char(" ")>>
Equals == <<Char(" "), Char("="), Char(" ")>>
Indent(level) == [i \in 1..level |-> Char(" ")]

\* A map is written a pair to a line, and on one line within a list.
RECURSIVE ValueText(_, _, _)
ValueText(v, level, inline) ==
  CASE TypeOf(v) = "int" -> <<Number(v[2], 1)>>
    [] TypeOf(v) = "float" -> <<Number(v[2], v[3])>>
    [] TypeOf(v) = "bool" -> <<Word(IF v[2] THEN "true" ELSE "false")>>
    [] TypeOf(v) = "null" -> <<Word("null")>>
    [] TypeOf(v) = "string" -> Quoted(v[2])
    [] TypeOf(v) = "list" ->
         <<Char("[")>>
         \o Separated([i \in DOMAIN v[2] |-> ValueText(v[2][i], level, TRUE)], Comma)
         \o <<Char("]")>>
    [] TypeOf(v) = "map" ->
         LET pair(i, lvl) == KeyText(v[2][i].key) \o Equals
                               \o ValueText(v[2][i].value, lvl, inline)
         IN IF v[2] = <<>> THEN <<Char("["), Char(" "), Char("]")>>
            ELSE IF inline
              THEN <<Char("[")>>
                   \o Separated([i \in DOMAIN v[2] |-> pair(i, level)], Comma)
                   \o <<Char("]")>>
              ELSE <<Char("["), Char("newline")>>
                   \o FlattenSeq([i \in DOMAIN v[2] |->
                        Indent(level + 1) \o pair(i, level + 1) \o <<Char("newline")>>])
                   \o Indent(level) \o <<Char("]")>>

\* value_to_text and the newline tofile adds.
value_to_text(v) ==
  IF Nesting(v) > MaxDepth THEN Err ELSE ValueText(v, 0, FALSE) \o <<Char("newline")>>

----------------------------------------------------------------------------
(* Reading text.                                                              *)

Sees(t, p, c) == p <= Len(t) /\ t[p] = Char(c)

RECURSIVE skip_ws(_, _)
skip_ws(t, p) == IF p <= Len(t) /\ t[p] \in Blank THEN skip_ws(t, p + 1) ELSE p

\* The characters up to the closing quote; p is behind the opening one.
RECURSIVE parse_string(_, _, _)
parse_string(t, p, read) ==
  CASE p > Len(t) -> NotRead
    [] Sees(t, p, "\"") -> Got(Str(read), p + 1)
    [] Sees(t, p, "\\") ->
         IF p < Len(t) /\ \E c \in DOMAIN EscapeOf : t[p + 1] = Char(EscapeOf[c])
           THEN parse_string(t, p + 2, Append(read,
                  CHOOSE c \in DOMAIN EscapeOf : t[p + 1] = Char(EscapeOf[c])))
           ELSE NotRead
    [] OTHER -> parse_string(t, p + 1, Append(read, t[p][2]))

\* looks_like_map: whether a '=' comes before the end of the first item,
\* outside strings and inner brackets.
RECURSIVE looks_like_map(_, _, _, _)
looks_like_map(t, p, depth, quoted) ==
  CASE p > Len(t) -> FALSE
    [] p <= Len(t) /\ quoted ->
         looks_like_map(t, p + (IF Sees(t, p, "\\") THEN 2 ELSE 1), depth, ~Sees(t, p, "\""))
    [] Sees(t, p, "\"") /\ ~quoted -> looks_like_map(t, p + 1, depth, TRUE)
    [] Sees(t, p, "[") /\ ~quoted -> looks_like_map(t, p + 1, depth + 1, FALSE)
    [] Sees(t, p, "]") /\ ~quoted -> depth > 0 /\ looks_like_map(t, p + 1, depth - 1, FALSE)
    [] depth = 0 /\ Sees(t, p, "=") /\ ~quoted -> TRUE
    [] depth = 0 /\ Sees(t, p, ",") /\ ~quoted -> FALSE
    [] OTHER -> looks_like_map(t, p + 1, depth, FALSE)

\* The end of a name: "--" ends it too.
RECURSIVE NameEnd(_, _)
NameEnd(t, p) ==
  IF p <= Len(t) /\ \/ t[p] \in {Char(c) : c \in PlainChar}
                    \/ Sees(t, p, "-") /\ ~Sees(t, p + 1, "-")
    THEN NameEnd(t, p + 1) ELSE p

parse_map_key(t, p) ==
  CASE Sees(t, p, "\"") -> parse_string(t, p + 1, <<>>)
    [] p <= Len(t) /\ t[p] \in {Char(c) : c \in PlainChar} ->
         LET end == NameEnd(t, p) IN
         Got(Str([i \in 1..end - p |-> t[p + i - 1][2]]), end)
    [] OTHER -> NotRead

\* A whole number is an int if it fits, whatever it was written from.
NumberRead(n, d) == IF d = 1 /\ Fits(n) THEN Int_(n) ELSE Float(n, d)

RECURSIVE parse_value(_, _, _), parse_list(_, _, _, _), parse_map(_, _, _, _)

parse_list(t, from, depth, items) ==
  LET p == skip_ws(t, from)
      item == parse_value(t, p, depth + 1)
      after == skip_ws(t, item.pos)
  IN CASE p > Len(t) -> NotRead
       [] Sees(t, p, "]") -> Got(List(items), p + 1)
       [] p <= Len(t) /\ ~Sees(t, p, "]") ->
            CASE ~item.ok -> NotRead
              [] item.ok /\ Sees(t, after, ",") ->
                   parse_list(t, after + 1, depth, Append(items, item.value))
              [] item.ok /\ Sees(t, after, "]") ->
                   Got(List(Append(items, item.value)), after + 1)
              [] OTHER -> NotRead

parse_map(t, from, depth, pairs) ==
  LET p == skip_ws(t, from)
      key == parse_map_key(t, p)
      sign == skip_ws(t, key.pos)
      item == parse_value(t, skip_ws(t, sign + 1), depth + 1)
      map == val_map_set(pairs, key.value[2], item.value)
      after == skip_ws(t, item.pos)
  IN CASE p > Len(t) -> NotRead
       [] Sees(t, p, "]") -> Got(MapOf(pairs), p + 1)
       [] p <= Len(t) /\ ~Sees(t, p, "]") ->
            IF ~key.ok THEN NotRead
            ELSE IF ~Sees(t, sign, "=") THEN NotRead
            ELSE IF ~item.ok THEN NotRead
            ELSE IF map = Err THEN NotRead
            ELSE parse_map(t, IF Sees(t, after, ",") THEN after + 1 ELSE after, depth, map[2])

\* "[]" is a list and "[ ]" a map; other brackets are one level more here and
\* another inside.
parse_value(t, from, depth) ==
  LET p == skip_ws(t, from) IN
  CASE depth > MaxDepth \/ p > Len(t) -> NotRead
    [] depth <= MaxDepth /\ Sees(t, p, "\"") -> parse_string(t, p + 1, <<>>)
    [] depth <= MaxDepth /\ Sees(t, p, "[") ->
         IF Sees(t, p + 1, "]") THEN Got(List(<<>>), p + 2)
         ELSE IF Sees(t, skip_ws(t, p + 1), "]")
                THEN Got(MapOf(<<>>), skip_ws(t, p + 1) + 1)
         ELSE IF looks_like_map(t, p + 1, 0, FALSE)
                THEN parse_map(t, p + 1, depth + 1, <<>>)
                ELSE parse_list(t, p + 1, depth + 1, <<>>)
    [] depth <= MaxDepth /\ p <= Len(t) /\ t[p][1] = "word" ->
         Got(IF t[p][2] = "null" THEN Null ELSE Bool(t[p][2] = "true"), p + 1)
    [] depth <= MaxDepth /\ p <= Len(t) /\ t[p][1] = "number" ->
         Got(NumberRead(t[p][2], t[p][3]), p + 1)
    [] OTHER -> NotRead

\* fromfile: one value and nothing behind it.
text_to_value(t) ==
  LET read == parse_value(t, 1, 0) IN
  IF read.ok /\ skip_ws(t, read.pos) > Len(t) THEN read.value ELSE Err

=============================================================================
