---------------------------- MODULE MCEvaluator ----------------------------
(* Instances of Evaluator for TLC.                                          *)
EXTENDS Evaluator, TLC

(* The free addresses are interchangeable; the two global scopes are not.   *)
FreeAddresses ==
  Permutations(Scope \ {super_global_scope, global_scope})
=============================================================================
