------------------------------ MODULE Grammar ------------------------------
(***************************************************************************)
(* Which token sequences are scripts, as far as their blocks go: the        *)
(* grammar the messages of parser.c describe, read from left to right with  *)
(* one entry per open block and no look-ahead. It says nothing of how the   *)
(* parser finds out; Parser.tla is compared with it.                        *)
(***************************************************************************)
EXTENDS Naturals, SequencesExt

Opening == {"block", "if", "try", "function", "global function", "switch"}

New(kind) == [kind |-> kind, last |-> "none", default |-> FALSE]

(* The open blocks after one more token; <<>> for a sequence that no script *)
(* begins with. A default may come before a case only if it is empty, and   *)
(* before the fi only if it is empty or ends with break.                    *)
Read(stack, token) ==
  LET top == Last(stack)
      After(last) == Append(Front(stack), [top EXCEPT !.last = last])
      Now(kind) == Append(Front(stack),
                     [top EXCEPT !.kind = kind, !.last = "none",
                                 !.default = @ \/ kind = "default"])
      Finished == ~(top.kind = "default" /\ top.last = "stmt")
  IN IF stack = <<>> THEN <<>>
     ELSE CASE token \in {"stmt", "import", "break"} /\ top.kind # "switch" ->
                 After(IF token = "break" THEN "break" ELSE "stmt")
            [] token \in Opening /\ top.kind # "switch" ->
                 Append(After("stmt"), New(token))
            [] token = "fi" /\ top.kind \notin {"script", "try"} /\ Finished ->
                 Front(stack)
            [] token = "elseif" /\ top.kind = "if" -> Now("if")
            [] token = "else" /\ top.kind = "if" -> Now("else")
            [] token = "catch" /\ top.kind = "try" -> Now("catch")
            [] token = "case"
                 /\ \/ top.kind \in {"switch", "case"}
                    \/ top.kind = "default" /\ top.last = "none" -> Now("case")
            [] token = "default" /\ top.kind \in {"switch", "case"}
                 /\ ~top.default -> Now("default")
            [] OTHER -> <<>>

(* The open blocks after the first n tokens.                                *)
StacksOf(text) ==
  LET stacks[n \in 0..Len(text)] ==
        IF n = 0 THEN <<New("script")>> ELSE Read(stacks[n - 1], text[n])
  IN stacks

Grammatical(text) == Len(StacksOf(text)[Len(text)]) = 1
=============================================================================
