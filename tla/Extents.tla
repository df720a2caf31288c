------------------------------- MODULE Extents -------------------------------
(***************************************************************************)
(* What every allocator promises its callers: extents of a region, none of *)
(* which overlaps another while both are granted.  The two allocators of   *)
(* heap.h are shown to implement it.                                       *)
(***************************************************************************)
EXTENDS Integers

CONSTANTS First, Limit    \* the region is First .. Limit - 1

VARIABLE granted          \* set of [at, len]

Apart(e, f) == e.at + e.len <= f.at \/ f.at + f.len <= e.at

Init == granted = {}

Grant ==
    \E e \in granted' \ granted :
        /\ granted' = granted \cup {e}
        /\ First <= e.at /\ e.len >= 0 /\ e.at + e.len <= Limit
        /\ \A f \in granted : Apart(e, f)

Release == \E e \in granted : granted' = granted \ {e}

Reset == granted' = {}

Spec == Init /\ [][Grant \/ Release \/ Reset]_granted
=============================================================================
