-------------------------------- MODULE Slab --------------------------------
(***************************************************************************)
(* include/rivet/slab.h.  The free list is threaded through the objects    *)
(* themselves: a holder that writes to its object overwrites the link.     *)
(***************************************************************************)
EXTENDS Heap

CONSTANT OBJ_COUNT

ASSUME SlabAssumption == OBJ_COUNT \in Nat

VARIABLES link,          \* the first word of each object
          free_list, free_count,
          slab_held      \* objects that callers hold

slab_vars == <<link, free_list, free_count, slab_held>>

Objects == 1 .. OBJ_COUNT
NULL == 0

\* The arena is threaded from its last object to its first.
SlabInit ==
    /\ link = [o \in Objects |-> o - 1]
    /\ free_list = OBJ_COUNT /\ free_count = OBJ_COUNT
    /\ slab_held = {}

riv_slab_alloc ==
    /\ free_list # NULL
    /\ slab_held' = slab_held \cup {free_list}
    /\ free_list' = link[free_list]
    /\ free_count' = free_count - 1
    /\ UNCHANGED link

riv_slab_free(o) ==
    /\ o \in slab_held
    /\ link' = [link EXCEPT ![o] = free_list]
    /\ free_list' = o
    /\ free_count' = free_count + 1
    /\ slab_held' = slab_held \ {o}

\* A holder writes to its object.
SlabUse(o) ==
    /\ o \in slab_held
    /\ \E w \in Objects \cup {NULL} : link' = [link EXCEPT ![o] = w]
    /\ UNCHANGED <<free_list, free_count, slab_held>>

SlabNext == riv_slab_alloc \/ \E o \in Objects : riv_slab_free(o) \/ SlabUse(o)

-----------------------------------------------------------------------------
\* Whatever holders write, the free list visits every object that nobody holds
\* exactly once, ends, and is free_count long: no object is lost, and none is
\* given to a second caller.
FreeListWhole ==
    LET walk[n \in 0 .. OBJ_COUNT] ==
            IF n = 0 THEN free_list ELSE IF walk[n - 1] = NULL THEN NULL ELSE link[walk[n - 1]]
    IN  /\ walk[free_count] = NULL
        /\ {walk[n] : n \in 0 .. OBJ_COUNT} \ {NULL} = Objects \ slab_held
        /\ free_count = OBJ_COUNT - Cardinality(slab_held)

-----------------------------------------------------------------------------
(* The slab beside the allocators of heap.h: they share no state and      *)
(* interleave.                                                             *)

AllocNext(sizes, bumps) ==
    \/ (HeapNext(sizes) \/ BumpNext(bumps)) /\ UNCHANGED slab_vars
    \/ SlabNext /\ UNCHANGED heap_vars

AllocSpec(sizes, bumps) == HeapInit /\ SlabInit /\ [][AllocNext(sizes, bumps)]_<<heap_vars, slab_vars>>

\* Blocks of the heap and objects of a slab: free and used ones tile the
\* memory they are cut from, and no free one is lost (heap.h, slab.h).
AllocatorsIntact == HeapIntact /\ FreeListWhole
=============================================================================
