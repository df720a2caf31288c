--------------------------------- MODULE Buf ---------------------------------
(***************************************************************************)
(* include/rivet/buf.h over the disk interface of disk.h.  riv_buf_get and *)
(* riv_buf_release run under the lock and are single steps; riv_buf_sync   *)
(* holds the lock too, but the holders of blocks change data and set dirty *)
(* without it, so each of its steps is one here.  A cache hit leaves       *)
(* through a break and keeps the lock: whoever needs it next spins.        *)
(***************************************************************************)
EXTENDS Integers, Sequences, FiniteSets, FiniteSetsExt

CONSTANTS RIV_BUF_BLOCKS, Lbas, Cpus,
          DATA_MAX      \* values written to a block

ASSUME BufAssumption ==
    /\ RIV_BUF_BLOCKS \in Nat /\ DATA_MAX \in Nat
    /\ IsFiniteSet(Cpus) /\ {"free", "leaked"} \cap Cpus = {}

VARIABLES cache,        \* block -> [lba, data, refs, valid, dirty]
          disk,         \* lba -> data
          lock,         \* "free", "leaked", or the CPU inside riv_buf_sync
          pos,          \* the loop of riv_buf_sync: [i, wrote]
          hold,         \* CPU -> [b, lba, changed]: the block it got; b = 0 none
          last_write,   \* lba -> the data last marked dirty
          torn,         \* blocks that a failed read has scribbled on
          late          \* disk blocks last marked dirty between the write and the
                        \* dirty = 0 of a riv_buf_sync

buf_vars == <<cache, disk, lock, pos, hold, last_write, torn, late>>

Slots == 1 .. RIV_BUF_BLOCKS
Garbage == DATA_MAX + 1
Nothing == [b |-> 0, lba |-> 0, changed |-> FALSE]

BufInit ==
    /\ cache = [i \in Slots |-> [lba |-> 0, data |-> 0, refs |-> 0, valid |-> FALSE, dirty |-> FALSE]]
    /\ disk = [l \in Lbas |-> 0] /\ last_write = disk
    /\ lock = "free" /\ pos = [i |-> 1, wrote |-> FALSE]
    /\ hold = [c \in Cpus |-> Nothing]
    /\ torn = {} /\ late = {}

Got(c, i, lba) == hold' = [hold EXCEPT ![c] = [b |-> i, lba |-> lba, changed |-> FALSE]]

\* The break skips the release of the lock.
GetHit(c, lba) ==
    LET hits == {i \in Slots : cache[i].valid /\ cache[i].lba = lba}
    IN  /\ lock = "free" /\ hold[c] = Nothing
        /\ hits # {}
        /\ cache' = [cache EXCEPT ![Min(hits)].refs = @ + 1]
        /\ Got(c, Min(hits), lba)
        /\ lock' = "leaked"
        /\ UNCHANGED <<disk, pos, last_write, torn, late>>

\* Mutant of Evictable: dirty blocks too.
EvictableDirty(i) == cache[i].refs = 0

Evictable(i) == cache[i].refs = 0 /\ ~cache[i].dirty

\* The first clean block nobody holds; a read that fails may have written to it.
GetMiss(c, lba) ==
    LET victims == {i \in Slots : Evictable(i)}
        i == Min(victims)
    IN  /\ lock = "free" /\ hold[c] = Nothing
        /\ ~\E j \in Slots : cache[j].valid /\ cache[j].lba = lba
        /\ victims # {}
        /\ \/ /\ cache' = [cache EXCEPT ![i] = [lba |-> lba, data |-> disk[lba], refs |-> 1, valid |-> TRUE, dirty |-> FALSE]]
              /\ Got(c, i, lba)
              /\ torn' = torn \ {i}
           \/ /\ cache' = [cache EXCEPT ![i].data = Garbage]
              /\ torn' = torn \cup {i}
              /\ UNCHANGED hold
        /\ UNCHANGED <<disk, lock, pos, last_write, late>>

riv_buf_get(c, lba) == GetHit(c, lba) \/ GetMiss(c, lba)

riv_buf_release(c) ==
    /\ lock = "free" /\ hold[c].b # 0 /\ ~hold[c].changed
    /\ cache' = [cache EXCEPT ![hold[c].b].refs = IF @ > 0 THEN @ - 1 ELSE @]
    /\ hold' = [hold EXCEPT ![c] = Nothing]
    /\ UNCHANGED <<disk, lock, pos, last_write, torn, late>>

\* The steps of a holder: it writes to the data, then marks the block.
Change(c, d) ==
    LET b == hold[c].b
    IN  /\ b # 0
        /\ cache' = [cache EXCEPT ![b].data = d]
        /\ hold' = [hold EXCEPT ![c].changed = TRUE]
        /\ UNCHANGED <<disk, lock, pos, last_write, torn, late>>

riv_buf_dirty(c) ==
    LET b == hold[c].b
    IN  /\ b # 0 /\ hold[c].changed
        /\ cache' = [cache EXCEPT ![b].dirty = TRUE]
        /\ hold' = [hold EXCEPT ![c].changed = FALSE]
        /\ last_write' = [last_write EXCEPT ![hold[c].lba] = cache[b].data]
        /\ late' = IF lock \in Cpus /\ pos.i = b /\ pos.wrote THEN late \cup {hold[c].lba} ELSE late \ {hold[c].lba}
        /\ UNCHANGED <<disk, lock, pos, torn>>

-----------------------------------------------------------------------------
(* riv_buf_sync                                                            *)

SyncBegin(c) ==
    /\ lock = "free" /\ hold[c] = Nothing
    /\ lock' = c /\ pos' = [i |-> 1, wrote |-> FALSE]
    /\ UNCHANGED <<cache, disk, hold, last_write, torn, late>>

SyncSkip ==
    /\ lock \in Cpus /\ ~pos.wrote /\ pos.i <= RIV_BUF_BLOCKS
    /\ ~(cache[pos.i].valid /\ cache[pos.i].dirty)
    /\ pos' = [pos EXCEPT !.i = @ + 1]
    /\ UNCHANGED <<cache, disk, lock, hold, last_write, torn, late>>

\* A failed write ends the loop and the locked block; nothing has changed.
SyncWrite ==
    /\ lock \in Cpus /\ ~pos.wrote /\ pos.i <= RIV_BUF_BLOCKS
    /\ cache[pos.i].valid /\ cache[pos.i].dirty
    /\ \/ /\ disk' = [disk EXCEPT ![cache[pos.i].lba] = cache[pos.i].data]
          /\ pos' = [pos EXCEPT !.wrote = TRUE]
          /\ UNCHANGED lock
       \/ lock' = "free" /\ UNCHANGED <<disk, pos>>
    /\ UNCHANGED <<cache, hold, last_write, torn, late>>

SyncClear ==
    /\ lock \in Cpus /\ pos.wrote
    /\ cache' = [cache EXCEPT ![pos.i].dirty = FALSE]
    /\ pos' = [i |-> pos.i + 1, wrote |-> FALSE]
    /\ UNCHANGED <<disk, lock, hold, last_write, torn, late>>

SyncEnd ==
    /\ lock \in Cpus /\ pos.i > RIV_BUF_BLOCKS
    /\ lock' = "free"
    /\ UNCHANGED <<cache, disk, pos, hold, last_write, torn, late>>

BufNext ==
    \/ \E c \in Cpus : \/ \E lba \in Lbas : riv_buf_get(c, lba)
                       \/ riv_buf_release(c)
                       \/ \E d \in 1 .. DATA_MAX : Change(c, d)
                       \/ riv_buf_dirty(c)
                       \/ SyncBegin(c)
    \/ SyncSkip \/ SyncWrite \/ SyncClear \/ SyncEnd

BufSpec == BufInit /\ [][BufNext]_buf_vars

-----------------------------------------------------------------------------
Cached(lba) == {i \in Slots : cache[i].valid /\ cache[i].lba = lba}

\* What a disk block holds for its users - the cached copy if there is one, else
\* the disk - is what was last marked dirty, through evictions, failed writes
\* and syncs.  Three things break it, and each for its own block only: the holder
\* is in the middle of a change; a failed read has scribbled on the copy, which
\* stays valid; or the mark came between the write and the dirty = 0 of
\* riv_buf_sync, and the block has not been marked since.
WritesSurvive ==
    \A lba \in Lbas \ late :
        IF Cached(lba) = {} THEN disk[lba] = last_write[lba]
        ELSE \A i \in Cached(lba) :
               \/ cache[i].data = last_write[lba] \/ i \in torn
               \/ \E c \in Cpus : hold[c].b = i /\ hold[c].changed

\* A block is cached once, stays cached under its number while anyone holds it,
\* and refs is the number of its holders.
HoldersKeepBlock ==
    /\ \A lba \in Lbas : Cardinality(Cached(lba)) <= 1
    /\ \A c \in Cpus : hold[c].b # 0 => hold[c].b \in Cached(hold[c].lba)
    /\ \A i \in Slots : cache[i].refs = Cardinality({c \in Cpus : hold[c].b = i})

\* The cache loses no change and takes no block from its holder, when it evicts
\* for riv_buf_get, when it syncs, and when the disk fails; but for a copy that a
\* failed read has scribbled on, and for a change that a running sync takes for
\* written.
BlocksKept == WritesSurvive /\ HoldersKeepBlock
=============================================================================
