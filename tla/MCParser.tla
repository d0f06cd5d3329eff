------------------------------ MODULE MCParser ------------------------------
(* Texts for the instances of Parser: every short text of each vocabulary.    *)
EXTENDS Parser

Texts(vocabulary, n) == UNION {[1..k -> vocabulary] : k \in 0..n}

BlockTokens == {"if", "elseif", "else", "try", "catch", "fi", "break", "switch", "case", "default"}
SwitchTokens == {"if", "fi", "break", "switch", "case", "default"}
FunctionTokens == {"function", "global function", "import", "switch", "fi", "malformed"}

MCExecuted == Texts(FunctionTokens, 3)
MCScripts == Texts(BlockTokens, 5) \cup Texts(SwitchTokens, 6) \cup MCExecuted
MCModules == Texts(FunctionTokens, 2)

\* For the alarm of a missing fi.
NestedSwitches == Texts({"switch", "case", "fi"}, 6)
=============================================================================
