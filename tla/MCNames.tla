------------------------------ MODULE MCNames ------------------------------
(* Instances of Names for TLC.                                              *)
EXTENDS Names, TLC

MCInitial == [n \in Internal |-> CHOOSE v \in Value : TRUE]

FreeAddresses == Permutations(LocalScope)

(* History: neither an import nor a global for has been entered, and no     *)
(* native module has created a constant.                                    *)
VARIABLE plain

MCInit == Init /\ plain = TRUE

Entering(kinds) == Len(saved') > Len(saved) /\ Last(saved').kind \in kinds

MCNext ==
  /\ Next
  /\ plain' = /\ plain
              /\ ~Entering({"import", "forglobal"})
              /\ \A n \in LavaNames :
                   constants'[n].present => constants'[n].has_value

MCSpec == MCInit /\ [][MCNext]_<<state, plain>>

(* Until then no name is a variable and a constant at once: scope_define     *)
(* and constants_define each refuse to make one beside the other.           *)
PlainNoClash == plain => NoClash
=============================================================================
