------------------------------- MODULE MCPmm -------------------------------
(***************************************************************************)
(* Pmm for TLC.  The links and the property of a frame that is not in the  *)
(* list are left over from an earlier use and are written before they are  *)
(* read again, and no step reads what an earlier alloc_pages returned, so  *)
(* states that differ only there are identified.                           *)
(***************************************************************************)
EXTENDS Pmm

MCDefaults == <<2, 3>>

LiveView ==
  <<pmm_manager, [e \in Listed(list) \cup {HEAD} |-> <<list.next[e], list.prev[e]>>],
    [p \in Listed(list) |-> property[p]], flag, nr_free, used,
    slubVars, free_area, free_nr_pages, buddy_used, lost>>
=============================================================================
