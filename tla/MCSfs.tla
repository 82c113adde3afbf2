------------------------------- MODULE MCSfs -------------------------------
(***************************************************************************)
(* SfsFile with two files on one small disk.  Files and descriptors are    *)
(* interchangeable: the specification compares them only for equality.     *)
(***************************************************************************)
EXTENDS SfsFile, TLC

Symmetry == Permutations(Inodes) \union Permutations(Fds)
=============================================================================
