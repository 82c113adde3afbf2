---------------------------- MODULE MCFileTable ----------------------------
(* FileTable for TLC: processes, tables and files are interchangeable. *)
EXTENDS FileTable, TLC

Symmetry == Permutations(Procs) \cup Permutations(Tables) \cup Permutations(Files)
=============================================================================
