---------------------------- MODULE MCAtomicFile ----------------------------
(* Symmetry for AtomicFile: processes, data and inodes are interchangeable. *)
EXTENDS AtomicFile, TLC

Interchangeable ==
  Permutations(Proc) \cup Permutations(Data) \cup Permutations(Inode)
=============================================================================
