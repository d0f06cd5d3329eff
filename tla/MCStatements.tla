---------------------------- MODULE MCStatements ----------------------------
(* Texts for Statements: every short text of the words of one kind of        *)
(* expression or statement.                                                  *)
EXTENDS Statements

MCInts == [i \in {"1", "2", "3", "4"} |-> CASE i = "1" -> 1 [] i = "2" -> 2 [] i = "3" -> 3 [] i = "4" -> 4]
MCPointers == [p \in {"$a"} |-> "a"]

Texts(words, n) == UNION {[1..k -> words] : k \in 0..n}
Assigned(texts) == {<<"a", "=">> \o text : text \in texts}

Arithmetic == Texts({"$a", "1", "+", "-", "*", "**", "(", ")"}, 5)
Logic == Texts({"$a", "not", "and", "or", "=="}, 6)
Smallest == {<<"-">> \o text : text \in Texts({"-", "1", "3", "4", "**", "+", "["}, 4)}
Indices == {<<"a", "[">> \o text : text \in Texts({"1", "2", "*", "**", ":", "]"}, 5)}
Removals == {<<"$a", "-", "[">> \o text : text \in Texts({"1", "*", "]", "+", "[", ","}, 5)}
Lists == {<<"[">> \o text : text \in Texts({"1", ",", "[", "]", "newline", "*"}, 5)}
Maps == {<<"[">> \o text : text \in Texts({"a", "s", "int", "=", "]", ",", "newline"}, 6)}
Calls == {<<"b", "(">> \o text : text \in Texts({"1", ",", ")", "[", "]", "b"}, 5)}
Counting == Texts({"b", "(", ")", "++", "{", "}", "+"}, 5)

Entered == {<<"[", "s", "=", "1">> \o text : text \in Texts({"a", "=", "1", ",", "newline", "]", "int"}, 5)}
Right == UNION {Arithmetic, Logic, Smallest, Indices, Removals, Lists, Maps, Entered, Calls, Counting}

(* The same words after = in two lines.                                      *)
Heads == {<<"a">>, <<"local", "a">>, <<"int", "a">>, <<"global", "int", "a">>, <<"list", "a">>}
Twice ==
  {first \o <<"=">> \o text \o <<"newline">> \o second \o <<"=">> \o text :
     first \in Heads, second \in Heads, text \in Texts({"b", "$a", "++", "(", ")", "[", "]", "1"}, 3)}

Commands == Texts({"a", "=", "!", "or", "b", "s", "newline"}, 5)
Lines == Texts({"a", "=", "1", "++", "newline", "fi", "int", "return"}, 5)
Jumps == Texts({"break", "portal", "execute", "repeat", "line", "define", "return", "a", "1", "-", "newline"}, 4)
Indexed_ == {head \o <<"a", "[">> \o text : head \in {<<>>, <<"list">>, <<"int">>},
                                          text \in Texts({"]", "[", "1", "=", ",", "b", ":"}, 5)}
Declared_ == Texts({"local", "global", "int", "a", "b", "=", ",", "1"}, 5)
Compound == {<<"a">> \o text : text \in Texts({"+=", "-=", "=", "a", "1", "(", "+"}, 4)}
Single == {<<t>> : t \in {"fi", "else", "elseif", "then", "case", "default", "catch", ")", "]", "}",
                          ",", ";", "1", "(", "[", "=", "or", "true", "not", "+", "line", "continue"}}

(* A command that is not the first value of its line, or has a # in quotes.  *)
Second == {<<"int", "a", "=", "1", ",", "b", "=">> \o text : text \in Texts({"a", "b", "1", "("}, 2)}

(* A declaration that goes on in the next line, before a name with the same  *)
(* words after its = as one declared alone.                                  *)
Spread ==
  {before \o <<"list", "a", "=">> \o value \o <<",", "b", "=">> \o text
     \o <<"newline", "list", "b", "=">> \o text :
     before \in {<<>>, <<"local">>, <<"return", "1">>, <<"!", "b", "=", "a", "!">>},
     value \in {<<"[", "1", ",", "newline", "1", "]">>, <<"[", "newline", "]">>,
               <<"[", "s", "=", "1", "newline", "]">>},
     text \in Texts({"b", "$a", "1", "++", "(", ")", "[", "]", "# in quotes"}, 2)}
Cut == Assigned(Texts({"b", "s", "# in quotes"}, 3))

MCScripts == UNION {Assigned(Right), Twice, Second, Spread, Cut, Commands, Lines, Jumps, Indexed_, Declared_, Compound, Single}
MCBodies == UNION {Lines, Jumps}
=============================================================================
