-------------------------------- MODULE Slub --------------------------------
(***************************************************************************)
(* The object caches of lab2's kern/mm/slub_pmm.c on top of its page       *)
(* layer.  A slab is one frame cut into objects of one cache; an object is *)
(* <<frame, index>>.  The list of free objects runs through the objects    *)
(* themselves and is kept here as the sequence of their indices.  Sizes    *)
(* count units of SLUB_MIN_ALIGN bytes, so that ROUNDUP changes nothing.   *)
(***************************************************************************)
EXTENDS DefaultPmm

CONSTANTS
  Defaults,     \* slub_default_sizes
  Customs,      \* the slots of slub_custom_caches
  CustomSizes,  \* what slub_cache_create is asked for
  Usable,       \* what the header of a slab leaves of a page
  MaxSlabs      \* bound on the slabs at a time

ASSUME SlubAssumption ==
  /\ Defaults \in Seq(Nat \ {0}) /\ CustomSizes \subseteq Nat \ {0}
  /\ Customs \in Nat /\ Usable \in Nat /\ MaxSlabs \in Nat

VARIABLES
  cache,        \* struct slub_cache of the default classes, then of the slots
  slab,         \* struct slub_slab at the start of a frame
  objs          \* the objects callers hold
slubVars == <<cache, slab, objs>>

DefaultIds == DOMAIN Defaults
CustomIds == (Len(Defaults) + 1)..(Len(Defaults) + Customs)
NoSlab == [magic |-> FALSE]
SlabPages == {p \in Pages : slab[p].magic}

slub_cache_setup(size) ==
  [active |-> TRUE, obj_size |-> size, objs_per_slab |-> Usable \div size,
   slabs_total |-> 0, slabs_partial |-> 0, inuse_objs |-> 0,
   partial |-> <<>>, full |-> <<>>]
Unused == [slub_cache_setup(1) EXCEPT !.active = FALSE]

\* slub_init
SlubInit ==
  /\ cache = [c \in DefaultIds \cup CustomIds |->
                IF c \in DefaultIds THEN slub_cache_setup(Defaults[c]) ELSE Unused]
  /\ slab = [p \in Pages |-> NoSlab]
  /\ objs = {}

\* slub_select_cache: the classes are searched in order.
Class(size) == {c \in DefaultIds : cache[c].active /\ size <= cache[c].obj_size}

\* Whom a caller may ask: slub_alloc chooses among the classes by size,
\* slub_cache_alloc names an active cache.
Asked(c) == \/ c \in CustomIds /\ cache[c].active
            \/ \E size \in 1..Usable : Class(size) # {} /\ c = Min(Class(size))

\* slub_new_slab: frame p becomes a slab of cache c.
NewSlab(c, p) ==
  [magic |-> TRUE, cache |-> c, capacity |-> cache[c].objs_per_slab,
   free_count |-> cache[c].objs_per_slab,
   free |-> SetToSortSeq(0..(cache[c].objs_per_slab - 1), <)]

WithSlab(x, p) == [x EXCEPT !.slabs_total = @ + 1, !.slabs_partial = @ + 1,
                            !.partial = <<p>> \o @]

\* slub_cache_do_alloc once there is a partial slab: its first object.
Took(x, s) ==
  LET y == [x EXCEPT !.inuse_objs = @ + 1] IN
  IF s.free_count > 1 THEN y
  ELSE [y EXCEPT !.partial = Tail(@), !.full = <<Head(x.partial)>> \o @,
                 !.slabs_partial = @ - 1]

TakeObject(c, x, p, s) ==
  /\ objs' = objs \cup {<<p, Head(s.free)>>}
  /\ slab' = [slab EXCEPT ![p] = [s EXCEPT !.free = Tail(@), !.free_count = @ - 1]]
  /\ cache' = [cache EXCEPT ![c] = Took(x, s)]

AllocPartial(c) ==
  /\ Asked(c) /\ cache[c].partial # <<>>
  /\ LET p == Head(cache[c].partial) IN TakeObject(c, cache[c], p, slab[p])
  /\ UNCHANGED vars

AllocNewSlab(c) ==
  /\ Asked(c) /\ cache[c].partial = <<>> /\ cache[c].objs_per_slab > 0
  /\ Cardinality(SlabPages) < MaxSlabs
  /\ alloc_pages(1)
  /\ TakeObject(c, WithSlab(cache[c], ret'), ret', NewSlab(c, ret'))

\* No frame, or objects of this size do not fit into a slab.
AllocFails(c) ==
  /\ Asked(c) /\ cache[c].partial = <<>>
  /\ IF cache[c].objs_per_slab = 0 THEN UNCHANGED vars ELSE alloc_pages_NULL(1)
  /\ UNCHANGED slubVars

\* Faulty variant: a slab that was full stays in the full list.
Unfilled_Kept(x, p) == x

\* slub_cache_do_free, first half: a slab that was full is partial again.
Unfilled(x, p) ==
  [x EXCEPT !.full = SelectSeq(@, LAMBDA q : q # p), !.partial = <<p>> \o @,
            !.slabs_partial = @ + 1]

\* Second half and slub_release_slab: an empty slab leaves its list.
Emptied(x, p) ==
  [x EXCEPT !.partial = SelectSeq(@, LAMBDA q : q # p),
            !.slabs_partial = @ - 1, !.slabs_total = @ - 1]

\* slub_free and slub_cache_free.
FreeObject(o) ==
  LET p == o[1]
      c == slab[p].cache
      s == [slab[p] EXCEPT !.free = <<o[2]>> \o @, !.free_count = @ + 1]
      x == [cache[c] EXCEPT !.inuse_objs = @ - 1]
      y == IF s.free_count = 1 THEN Unfilled(x, p) ELSE x IN
  /\ objs' = objs \ {o}
  /\ IF s.free_count = s.capacity
     THEN /\ cache' = [cache EXCEPT ![c] = Emptied(y, p)]
          /\ slab' = [slab EXCEPT ![p] = NoSlab]
          /\ free_pages(p, 1)
     ELSE /\ cache' = [cache EXCEPT ![c] = y]
          /\ slab' = [slab EXCEPT ![p] = s]
          /\ UNCHANGED vars

\* The lowest unused slot of slub_custom_caches; NULL when there is none.
CacheCreate(size) ==
  LET unused == {c \in CustomIds : ~cache[c].active} IN
  /\ cache' = IF unused = {} THEN cache
              ELSE [cache EXCEPT ![Min(unused)] = slub_cache_setup(size)]
  /\ UNCHANGED <<vars, slab, objs>>

\* Callers destroy a cache once all its objects are back ("inuse_objs == 0").
\* Its slabs have all gone then (SlubOK), so the loop of slub_cache_cleanup
\* finds none.
CacheDestroy(c) ==
  /\ c \in CustomIds /\ cache[c].active /\ cache[c].inuse_objs = 0
  /\ cache' = [cache EXCEPT ![c] = Unused]
  /\ UNCHANGED <<vars, slab, objs>>

SlubNext ==
  \/ \E c \in DOMAIN cache :
       AllocPartial(c) \/ AllocNewSlab(c) \/ AllocFails(c) \/ CacheDestroy(c)
  \/ \E o \in objs : FreeObject(o)
  \/ \E size \in CustomSizes : CacheCreate(size)

(***************************************************************************)
(* Properties.                                                             *)
(***************************************************************************)
SlabsOf(c) == {p \in SlabPages : slab[p].cache = c}
Entries(q) == {q[k] : k \in DOMAIN q}
Held(p) == {o[2] : o \in {x \in objs : x[1] = p}}

\* The lists of a cache hold each of its slabs once, in `full' exactly when it
\* has no free object; the counters (slub_dump_stats) count slabs and objects;
\* a slab's free objects and those callers hold are all its objects.  A slab
\* with no object in use is gone, so that "before == after" in
\* slub_alloc_general_check, and its frame belongs to nobody else.
SlubOK ==
  /\ \A c \in DOMAIN cache :
       LET x == cache[c] IN
       /\ Entries(x.partial) = {p \in SlabsOf(c) : slab[p].free_count > 0}
       /\ Entries(x.full) = {p \in SlabsOf(c) : slab[p].free_count = 0}
       /\ x.slabs_total = Cardinality(SlabsOf(c))
       /\ x.slabs_total = Len(x.partial) + Len(x.full)
       /\ x.slabs_partial = Len(x.partial)
       /\ x.inuse_objs = Cardinality({o \in objs : slab[o[1]].cache = c})
       /\ x.active \/ SlabsOf(c) = {}
  /\ \A p \in SlabPages :
       LET s == slab[p] IN
       /\ s.free_count = Len(s.free) /\ s.free_count < s.capacity
       /\ Entries(s.free) \cup Held(p) = 0..(s.capacity - 1)
       /\ Cardinality(Held(p)) + Len(s.free) = s.capacity
       /\ p \in used
  /\ \A o \in objs : o[1] \in SlabPages
=============================================================================
