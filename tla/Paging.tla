------------------------------- MODULE Paging -------------------------------
(***************************************************************************)
(* include/rivet/paging.h: the bitmap frame allocator and the page tables  *)
(* that are built from its frames, x86_64 with four levels and RISC-V Sv32 *)
(* with two.  A physical address is a frame number and an offset; a        *)
(* virtual one is a sequence of table indices and an offset.               *)
(***************************************************************************)
EXTENDS Integers, Sequences, FiniteSets, SequencesExt

CONSTANTS NFRAMES,     \* frames managed
          WORD,        \* frames per word of the bitmap (32 in the code)
          PAGE,        \* RIV_PAGE_SIZE
          MAX_HELD,    \* frames that callers hold at once
          VirtualX86, VirtualSv32,   \* the virtual pages in use
          Flags        \* sets of page flags in use

VARIABLES levels,      \* 4 on x86_64, 2 on Sv32
          pmm,         \* [base, bitmap, free_count]: base in frames, the bits set
          mem,         \* contents of the frames that hold tables
          root,        \* the top table, 0 before riv_pgmap_init succeeds
          frame_held,  \* frames that callers hold
          mapped,      \* virtual page -> frame and flags, as its user thinks of it
          opened       \* ghost: the tables below the root, by the indices that lead to
                       \* them -> they were made for a user page

page_vars == <<levels, pmm, mem, root, frame_held, mapped, opened>>

X86 == levels = 4
Pages == IF X86 THEN VirtualX86 ELSE VirtualSv32

-----------------------------------------------------------------------------
(* riv_pmm                                                                 *)

\* Whole words of ones, also beyond the last frame.
riv_pmm_init(base) ==
    [base |-> base, free_count |-> NFRAMES, bitmap |-> 0 .. ((NFRAMES + WORD - 1) \div WORD) * WORD - 1]

\* The lowest bit of the first word that is not zero.
riv_pmm_alloc(m) ==
    LET idx == Min(m.bitmap)
    IN  IF m.bitmap = {} \/ idx >= NFRAMES THEN [pmm |-> m, frame |-> 0]
        ELSE [pmm |-> [m EXCEPT !.bitmap = @ \ {idx}, !.free_count = @ - 1], frame |-> m.base + idx]

riv_pmm_free(m, frame) ==
    IF frame < m.base \/ frame - m.base >= NFRAMES THEN m
    ELSE [m EXCEPT !.bitmap = @ \cup {frame - m.base}, !.free_count = @ + 1]

-----------------------------------------------------------------------------
(* Page tables                                                             *)

NoEntry == [frame |-> 0, bits |-> {}]
Zeroed == [i \in 0 .. 1 |-> NoEntry]
Present(e) == e.bits \cap {"P", "V"} # {}

_riv_pg_flags_to_x86(f) ==
    {"P"} \cup {b \in {"RW", "US", "G", "NX"} : [RW |-> "write", US |-> "user", G |-> "global", NX |-> "nx"][b] \in f}
_riv_pg_flags_to_rv(f) ==
    {"V", "R"} \cup {b \in {"W", "U", "G"} : [W |-> "write", U |-> "user", G |-> "global"][b] \in f}
LeafBits(f) == IF X86 THEN _riv_pg_flags_to_x86(f) ELSE _riv_pg_flags_to_rv(f)

TableBits(f) == IF X86 THEN {"P", "RW"} \cup (IF "user" \in f THEN {"US"} ELSE {}) ELSE {"V"}

\* Down one level, making the table when there is none; the frame comes zeroed.
MakeTable(flags, s, i) ==
    LET e == s.mem[s.table][i]
        a == riv_pmm_alloc(s.pmm)
    IN  CASE ~s.ok -> s
          [] Present(e) -> [s EXCEPT !.table = e.frame]
          [] a.frame = 0 -> [s EXCEPT !.pmm = a.pmm, !.ok = FALSE]
          [] OTHER -> [pmm |-> a.pmm, table |-> a.frame, ok |-> TRUE,
                       mem |-> [f \in DOMAIN s.mem \cup {a.frame} |->
                                  IF f = a.frame THEN Zeroed
                                  ELSE IF f = s.table THEN [s.mem[f] EXCEPT ![i] = [frame |-> a.frame, bits |-> TableBits(flags)]]
                                  ELSE s.mem[f]]]

\* The tables on the way to v: the last of them, or 0.
TableOf(v) ==
    FoldLeft(LAMBDA t, i : IF t # 0 /\ Present(mem[t][i]) THEN mem[t][i].frame ELSE 0, root, Front(v))

riv_pgmap_walk(v, off) ==
    LET t == TableOf(v)
    IN  IF t = 0 \/ ~Present(mem[t][Last(v)]) THEN 0 ELSE mem[t][Last(v)].frame * PAGE + off

-----------------------------------------------------------------------------
PageInit(depths, bases) ==
    /\ levels \in depths
    /\ \E b \in bases : pmm = riv_pmm_init(b)
    /\ mem = <<>> /\ root = 0 /\ frame_held = {} /\ mapped = <<>> /\ opened = <<>>

riv_pgmap_init ==
    LET a == riv_pmm_alloc(pmm)
    IN  /\ root = 0
        /\ pmm' = a.pmm /\ root' = a.frame
        /\ mem' = IF a.frame = 0 THEN mem ELSE [f \in {a.frame} |-> Zeroed]
        /\ UNCHANGED <<levels, frame_held, mapped, opened>>

TakeFrame ==
    LET a == riv_pmm_alloc(pmm)
    IN  /\ Cardinality(frame_held) < MAX_HELD
        /\ pmm' = a.pmm
        /\ frame_held' = frame_held \cup ({a.frame} \ {0})
        /\ UNCHANGED <<levels, mem, root, mapped, opened>>

\* Also of an address outside the region, which is ignored.
GiveFrame ==
    \E f \in frame_held \cup {pmm.base + NFRAMES} :
        /\ pmm' = riv_pmm_free(pmm, f)
        /\ frame_held' = frame_held \ {f}
        /\ UNCHANGED <<levels, mem, root, mapped, opened>>

\* Ghost: the ways to the tables of v, which only on x86_64 carry rights.
Ways(v) == IF X86 THEN {SubSeq(v, 1, k) : k \in 1 .. Len(v) - 1} ELSE {}
WithTables(v, made, flags) ==
    LET depth == Cardinality(Ways(v) \cap DOMAIN opened) + made
    IN  opened @@ [w \in {u \in Ways(v) : Len(u) <= depth} |-> "user" \in flags]

\* A table that could not be made leaves the ones above it in place.
riv_pgmap_map(v, frame, flags) ==
    LET s == FoldLeft(LAMBDA acc, i : MakeTable(flags, acc, i),
                      [pmm |-> pmm, mem |-> mem, table |-> root, ok |-> TRUE], Front(v))
        leaf == [frame |-> frame, bits |-> LeafBits(flags)]
    IN  /\ root # 0
        /\ pmm' = s.pmm
        /\ mem' = IF s.ok THEN [s.mem EXCEPT ![s.table][Last(v)] = leaf] ELSE s.mem
        /\ mapped' = IF s.ok THEN [u \in DOMAIN mapped \cup {v} |-> IF u = v THEN [frame |-> frame, flags |-> flags] ELSE mapped[u]]
                     ELSE mapped
        /\ opened' = WithTables(v, Cardinality(DOMAIN s.mem \ DOMAIN mem), flags)
        /\ UNCHANGED <<levels, root, frame_held>>

\* Mutant of riv_pgmap_unmap: the whole table goes.
riv_pgmap_unmap_table(v) ==
    /\ root # 0 /\ TableOf(v) # 0
    /\ mem' = [mem EXCEPT ![TableOf(v)] = Zeroed]
    /\ mapped' = [u \in DOMAIN mapped \ {v} |-> mapped[u]]
    /\ UNCHANGED <<levels, pmm, root, frame_held, opened>>

riv_pgmap_unmap(v) ==
    /\ root # 0 /\ TableOf(v) # 0
    /\ mem' = [mem EXCEPT ![TableOf(v)][Last(v)] = NoEntry]
    /\ mapped' = [u \in DOMAIN mapped \ {v} |-> mapped[u]]
    /\ UNCHANGED <<levels, pmm, root, frame_held, opened>>

PageNext(frames) ==
    \/ riv_pgmap_init \/ TakeFrame \/ GiveFrame
    \/ \E v \in Pages : riv_pgmap_unmap(v) \/ \E f \in frames, fl \in Flags : riv_pgmap_map(v, f, fl)

-----------------------------------------------------------------------------
\* riv_pgmap_walk answers for every page what the maps and unmaps of that page
\* last said, and no other page's: also after a map that ran out of frames half
\* way down.  Physical address 0 cannot be told from no mapping.
Translates ==
    root # 0 => \A v \in Pages, off \in 0 .. PAGE - 1 :
        riv_pgmap_walk(v, off) = IF v \in DOMAIN mapped THEN mapped[v].frame * PAGE + off ELSE 0

\* Every frame is free, or held by a caller, or a table: exactly one of them,
\* and free_count counts the free ones.  Only physical frame 0 is lost, once
\* riv_pmm_alloc has returned its address for a failure.
FramesAccounted ==
    LET free == {pmm.base + i : i \in pmm.bitmap \cap 0 .. NFRAMES - 1}
        all == {pmm.base + i : i \in 0 .. NFRAMES - 1}
    IN  /\ free \cup frame_held \cup DOMAIN mem \cup ({0} \cap all) = all
        /\ free \cap frame_held = {} /\ free \cap DOMAIN mem = {} /\ frame_held \cap DOMAIN mem = {}
        /\ pmm.free_count = Cardinality(free)

\* The rights the hardware derives from the entries on the way to a page.
Path(v) == [k \in 1 .. Len(v) |->
              mem[FoldLeft(LAMBDA t, i : mem[t][i].frame, root, SubSeq(v, 1, k - 1))][v[k]].bits]
Rights(v) ==
    IF X86 THEN {r \in {"write", "user"} : \A k \in DOMAIN v : (IF r = "write" THEN "RW" ELSE "US") \in Path(v)[k]}
    ELSE {r \in {"write", "user"} : (IF r = "write" THEN "W" ELSE "U") \in Path(v)[Len(v)]}

\* No page is open to user code, or to writes, that was not mapped so; a page
\* mapped for writing can be written, whatever was mapped beside it first.  User
\* code reaches a page mapped for it only when every table on the way was made
\* for such a page: one made for a supervisor page stays closed, and the later
\* riv_pgmap_map of a user page below it returns 0 all the same.
RightsKept ==
    \A v \in DOMAIN mapped :
        /\ Rights(v) \subseteq mapped[v].flags
        /\ "write" \in mapped[v].flags => "write" \in Rights(v)
        /\ "user" \in mapped[v].flags => ("user" \in Rights(v) <=> \A w \in Ways(v) : opened[w])

\* Mapping and unmapping keep every translation, every frame's owner and every
\* page's rights, also when the frames run out in the middle of riv_pgmap_map;
\* but for user pages below a table that was made for another kind.
PagesIntact == Translates /\ FramesAccounted /\ RightsKept
=============================================================================
