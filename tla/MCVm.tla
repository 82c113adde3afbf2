-------------------------------- MODULE MCVm --------------------------------
(***************************************************************************)
(* Vm for TLC.  Programs as the linker script makes them: text and data    *)
(* next to each other from UTEXT, and the stack in another level-0         *)
(* directory, three pages of vma of which the top two are mapped.  The      *)
(* second program has a segment that reaches into the next page table.     *)
(* Segments that share a level-0 directory share its page tables: where    *)
(* they do not, exit_range loses a table (README, Findings).               *)
(***************************************************************************)
EXTENDS Vm, TLC

Seg(lo, hi, write) ==
  [lo |-> lo, hi |-> hi, stack |-> FALSE, write |-> write, pages |-> lo..(hi - 1)]
Stack == [lo |-> 9, hi |-> 12, stack |-> TRUE, write |-> TRUE, pages |-> 10..11]

MCPrograms == {{Seg(1, 2, FALSE), Seg(2, 3, TRUE), Stack}, {Seg(2, 4, TRUE), Stack}}

ASSUME MCProgramsFit == ProgramsFit

Symmetry == Permutations(Procs)
=============================================================================
