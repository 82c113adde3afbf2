-------------------------------- MODULE Pmm --------------------------------
(***************************************************************************)
(* alloc_pages and free_pages of kern/mm/pmm.c, which go to the manager    *)
(* that pmm_manager points to, and the callers of the managers: holders of *)
(* frames and, with SLUB, holders of objects.                              *)
(***************************************************************************)
EXTENDS Slub

CONSTANTS BUDDY_MAX_ORDER, buddy_npages

ASSUME BuddyAssumption == BUDDY_MAX_ORDER \in Nat \ {0} /\ buddy_npages \in Nat

VARIABLES free_area, free_nr_pages, buddy_used, buddy_ret, lost
buddyVars == <<free_area, free_nr_pages, buddy_used, buddy_ret, lost>>

Buddies == INSTANCE Buddy WITH used <- buddy_used, ret <- buddy_ret

allVars == <<vars, slubVars, buddyVars>>

PmmInit == Init /\ SlubInit /\ Buddies!Init

\* A manager with one list.
ListStep ==
  /\ pmm_manager # "buddy"
  /\ \E n \in 1..npage :
       \/ alloc_pages(n) \/ alloc_pages_NULL(n)
       \/ \E base \in Pages : Run(base, n) \cap SlabPages = {} /\ free_pages(base, n)
  /\ UNCHANGED <<slubVars, buddyVars>>

SlubStep ==
  /\ pmm_manager = "slub" /\ SlubNext
  /\ UNCHANGED buddyVars

BuddyStep ==
  /\ pmm_manager = "buddy" /\ Buddies!Next
  /\ UNCHANGED <<vars, slubVars>>

PmmNext == ListStep \/ SlubStep \/ BuddyStep

ManagerSpec == PmmInit /\ [][PmmNext]_allVars

\* Whichever manager is installed, its lists are what its code takes them for.
ManagerOK == IF pmm_manager = "buddy" THEN Buddies!BuddyOK ELSE FreeListOK

ListSpec == INSTANCE PmmSpec WITH
  MAX_ORDER <- 0,
  policy <- IF pmm_manager = "default" THEN "first" ELSE "best",
  free <- Pages \ used
BuddySpec == INSTANCE PmmSpec WITH
  npage <- buddy_npages, MAX_ORDER <- BUDDY_MAX_ORDER, policy <- "buddy",
  free <- Buddies!Pages \ (buddy_used \cup lost), ret <- buddy_ret

\* The managers keep their promise: first fit, best fit, or an aligned block
\* of the next power of two.  A request fails only when the memory has no such
\* run: nothing is lost in the lists, and whatever can be merged is.
PmmRefinement == ListSpec!Spec /\ BuddySpec!Spec
=============================================================================
