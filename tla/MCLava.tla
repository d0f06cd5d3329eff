------------------------------- MODULE MCLava -------------------------------
(* Instances of Lava for TLC.                                               *)
EXTENDS Lava

(* No definition tells two functions, two prefixes or two files apart.      *)
Interchangeable ==
  Permutations(Function) \cup Permutations(Prefix) \cup Permutations(TempName)
=============================================================================
