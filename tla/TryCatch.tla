------------------------------ MODULE TryCatch ------------------------------
(***************************************************************************)
(* What try/catch promises a script, with no setjmp in sight: constructs    *)
(* nest; an error abandons every construct inside the innermost try block   *)
(* that encloses it, and only those, and that try goes on with its catch    *)
(* block; with no enclosing try block the program fails.                    *)
(***************************************************************************)
EXTENDS Naturals, Sequences

VARIABLES
  stack,   \* "try" for a try block being run, "plain" for anything else
  mode     \* "run", "unwind", "done", "failed"

vars == <<stack, mode>>

Encloses(i) == /\ i \in 1..Len(stack)
               /\ stack[i] = "try"
               /\ \A j \in (i + 1)..Len(stack) : stack[j] # "try"

Init == stack = <<"plain">> /\ mode = "run"

Enter(construct) ==
  /\ mode = "run"
  /\ stack' = Append(stack, construct)
  /\ UNCHANGED mode

Leave ==
  /\ mode = "run"
  /\ Len(stack) > 1
  /\ stack' = SubSeq(stack, 1, Len(stack) - 1)
  /\ UNCHANGED mode

Throw ==
  /\ mode = "run"
  /\ mode' = "unwind"
  /\ \/ \E i \in 1..Len(stack) : Encloses(i) /\ stack' = SubSeq(stack, 1, i)
     \/ (\A i \in 1..Len(stack) : stack[i] # "try") /\ stack' = <<>>

(* The construct that was the try block is now its catch block.             *)
Land ==
  /\ mode = "unwind"
  /\ stack # <<>>
  /\ stack' = [stack EXCEPT ![Len(stack)] = "plain"]
  /\ mode' = "run"

Fail ==
  /\ mode = "unwind"
  /\ stack = <<>>
  /\ mode' = "failed"
  /\ UNCHANGED stack

Finish ==
  /\ mode = "run"
  /\ Len(stack) = 1
  /\ stack' = <<>>
  /\ mode' = "done"

Next == \/ \E construct \in {"try", "plain"} : Enter(construct)
        \/ Leave \/ Throw \/ Land \/ Fail \/ Finish

Spec == Init /\ [][Next]_vars
=============================================================================
