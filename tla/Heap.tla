-------------------------------- MODULE Heap --------------------------------
(***************************************************************************)
(* include/rivet/heap.h: the bump allocator and the first-fit free list.   *)
(* Sizes are in units of RIV_HEAP_ALIGN / 4 = 2 bytes, which keeps every   *)
(* rounding the code does.  Calls that return NULL change nothing.         *)
(***************************************************************************)
EXTENDS Integers, Sequences, FiniteSetsExt

CONSTANTS HEAP_SIZE,    \* the memory given to riv_heap_init
          BUMP_SIZE,    \* the memory given to riv_bump_init
          SIZE_MOD      \* riv_size is computed modulo this

VARIABLES blocks,       \* the list from head: [at, sz, free] of each header
          held,         \* payload address -> size its holder asked for
          cur,          \* riv_bump.cur
          bumped        \* extents handed out since the last reset

heap_vars == <<blocks, held, cur, bumped>>

RIV_HEAP_ALIGN == 4
RIV_HEAP_HDR == 12
BumpBase == 3

\* The memory holds a header, and the end of the memory for riv_bump is not at
\* the end of the address space.
ASSUME HeapAssumption ==
    /\ HEAP_SIZE \in Nat /\ BUMP_SIZE \in Nat /\ SIZE_MOD \in Nat
    /\ RIV_HEAP_HDR <= HEAP_SIZE /\ BumpBase + BUMP_SIZE + RIV_HEAP_ALIGN <= SIZE_MOD

HeapInit ==
    /\ blocks = <<[at |-> 0, sz |-> HEAP_SIZE - RIV_HEAP_HDR, free |-> TRUE]>>
    /\ held = <<>>
    /\ cur = BumpBase /\ bumped = {}

RoundUp(n, align) == (((n + align - 1) % SIZE_MOD) \div align) * align

-----------------------------------------------------------------------------
(* riv_heap                                                                *)

\* Mutant of Splits: the rest need not have room for a header.
SplitsAlways(b, sz) == b.sz >= sz + RIV_HEAP_ALIGN

Splits(b, sz) == b.sz >= sz + RIV_HEAP_HDR + RIV_HEAP_ALIGN

riv_heap_alloc(asked) ==
    LET sz == RoundUp(asked, RIV_HEAP_ALIGN)
        fits == {i \in DOMAIN blocks : blocks[i].free /\ blocks[i].sz >= sz}
        i == Min(fits)
        b == blocks[i]
        taken == IF Splits(b, sz)
                   THEN <<[at |-> b.at, sz |-> sz, free |-> FALSE],
                          [at |-> b.at + RIV_HEAP_HDR + sz, sz |-> b.sz - sz - RIV_HEAP_HDR, free |-> TRUE]>>
                   ELSE <<[b EXCEPT !.free = FALSE]>>
    IN  /\ fits # {}
        /\ blocks' = SubSeq(blocks, 1, i - 1) \o taken \o SubSeq(blocks, i + 1, Len(blocks))
        /\ held' = [p \in DOMAIN held \cup {b.at + RIV_HEAP_HDR} |-> IF p = b.at + RIV_HEAP_HDR THEN asked ELSE held[p]]
        /\ UNCHANGED <<cur, bumped>>

\* Mutant of Merges: the successor may be in use.
MergesAny(b, next) == b.free

Merges(b, next) == b.free /\ next.free

\* One turn of the walk over the list: a free block absorbs a free successor,
\* once, and the walk goes on behind it.
CoalesceStep(s, b) ==
    LET n == Len(s.out)
        last == s.out[n]
    IN  IF n > 0 /\ ~s.fed /\ Merges(last, b)
          THEN [out |-> [s.out EXCEPT ![n] = [last EXCEPT !.sz = @ + RIV_HEAP_HDR + b.sz]], fed |-> TRUE]
          ELSE [out |-> Append(s.out, b), fed |-> FALSE]

Coalesced(bs) ==
    LET walked[n \in 0 .. Len(bs)] ==
            IF n = 0 THEN [out |-> <<>>, fed |-> FALSE] ELSE CoalesceStep(walked[n - 1], bs[n])
    IN  walked[Len(bs)].out

riv_heap_free(p) ==
    /\ p \in DOMAIN held
    /\ blocks' = Coalesced([i \in DOMAIN blocks |->
                              [blocks[i] EXCEPT !.free = @ \/ blocks[i].at + RIV_HEAP_HDR = p]])
    /\ held' = [q \in DOMAIN held \ {p} |-> held[q]]
    /\ UNCHANGED <<cur, bumped>>

-----------------------------------------------------------------------------
(* riv_bump                                                                *)

riv_bump_alloc(size, align) ==
    LET a == RoundUp(cur, align)
        after == (a + size) % SIZE_MOD
    IN  /\ after <= BumpBase + BUMP_SIZE
        /\ cur' = after
        /\ bumped' = bumped \cup {[at |-> a, len |-> size]}
        /\ UNCHANGED <<blocks, held>>

riv_bump_reset == cur' = BumpBase /\ bumped' = {} /\ UNCHANGED <<blocks, held>>

HeapNext(sizes) ==
    \/ \E n \in sizes : riv_heap_alloc(n)
    \/ \E p \in DOMAIN held : riv_heap_free(p)
BumpNext(sizes) ==
    \/ \E n \in sizes, align \in {1, 2, 4} : riv_bump_alloc(n, align)
    \/ riv_bump_reset

-----------------------------------------------------------------------------
\* However blocks were split and merged, the list covers the memory given to
\* riv_heap_init without gap or overlap, in the order of addresses, and its used
\* blocks are exactly those that callers hold.
HeapTiles ==
    /\ blocks[1].at = 0
    /\ \A i \in DOMAIN blocks :
         /\ blocks[i].sz >= 0
         /\ blocks[i].at + RIV_HEAP_HDR + blocks[i].sz = IF i = Len(blocks) THEN HEAP_SIZE ELSE blocks[i + 1].at
    /\ {blocks[i].at + RIV_HEAP_HDR : i \in {j \in DOMAIN blocks : ~blocks[j].free}} = DOMAIN held

\* A caller of riv_heap_alloc gets at least the bytes it asked for, until it
\* frees them; the exception is a request so near the top of riv_size that
\* rounding it up wraps to zero.
GrantedEnough ==
    \A i \in DOMAIN blocks : LET p == blocks[i].at + RIV_HEAP_HDR IN
        ~blocks[i].free /\ held[p] <= SIZE_MOD - RIV_HEAP_ALIGN => blocks[i].sz >= held[p]

Payloads ==
    INSTANCE Extents WITH First <- 0, Limit <- HEAP_SIZE,
        granted <- {[at |-> blocks[i].at + RIV_HEAP_HDR, len |-> blocks[i].sz] : i \in {j \in DOMAIN blocks : ~blocks[j].free}}
Bumps == INSTANCE Extents WITH First <- BumpBase, Limit <- BumpBase + BUMP_SIZE, granted <- bumped

\* riv_heap implements the allocator of Extents, so payloads never overlap; and
\* so does riv_bump, which gives everything back at once, for requests that do
\* not carry riv_bump.cur past the end of the address space: there the sum wraps
\* and passes the test against the end.
AllocatorsGrant == Payloads!Spec /\ Bumps!Spec

\* The single walk of riv_heap_free leaves a pair of free neighbours unmerged
\* when it frees the block between two free ones, but never more than one such
\* pair in the whole list: the next free takes it up, wherever it is.
OnePairUnmerged ==
    \A i, j \in 1 .. Len(blocks) - 1 :
        blocks[i].free /\ blocks[i + 1].free /\ blocks[j].free /\ blocks[j + 1].free => i = j

\* riv_heap_alloc and riv_heap_free keep the block list whole, give each caller
\* its bytes, and leave no more than one pair of free neighbours unmerged.
HeapIntact == HeapTiles /\ GrantedEnough /\ OnePairUnmerged
=============================================================================
