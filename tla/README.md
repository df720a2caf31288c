# TLA+ models of rivet

rivet is a C99 framework for bare-metal programs: a header-only runtime
(`include/rivet/*.h`) and a small tool chain (`src/*.c`: assembler, linker,
image tools, disassembler). This directory holds TLA+ models of its concurrent
core, of its passive components and of its tool chain, the TLC configurations
that check them, and machine-checked proofs.

Run everything from this directory:

    tlc -config Sched.cfg Sched       # any run of PROJECT.json
    tlapm ProcessProofs.tla           # any of the *Proofs modules

`PROJECT.json` lists the components, the runs with their properties, which
source lines each definition translates (`map`), the findings, and the hazards
the work is driven by.

## The system

| part | state | operations | what is hard about it |
|---|---|---|---|
| byte ring, `ring.h` | free-running `head`, `tail`, `buf` | push, pop, write, read, count | two sides without a lock; 32-bit wrap |
| scheduler, `proc.h` | process table, run queue, `current`, lock | alloc, ready, free, yield, exit, timer tick | preemption anywhere; the gap between election and context switch |
| spinlock and interrupts, `spin.h`, `irq.h` | lock word, interrupt flag | lock, unlock, `spin_locked` | `spin_locked` is a `for` loop: `break` skips its release |
| wait queue, `waitq.h` | a list per queue | sleep, wake_one, wake_all | lost wake-ups |
| mutex, semaphore, pipe | guard, owner / count / ring, wait queues | lock, trylock, unlock; wait, trywait, post; write, read, close | test, sleep and wake-up interleave |
| heap, slab, pages, bitmap | block lists, bitmaps | alloc, free, map, unmap | coalescing, double use, exhaustion |
| block cache, VFS, ramfs | cached blocks, mounts, descriptors, inodes | get, release, dirty, sync; open, close, read, write, seek, unlink | dirty data, stale inodes, full tables |
| hash map, ARP cache | open-addressed slots, entries with expiry | set, get, del; lookup, insert | deletion in a probe chain; stale entries |
| list | pointers of an intrusive ring | insert, del, pop, safe walk | removal during a walk |
| tasks, signals, tty, keyboard, time | deadlines, pending bits, line buffer, modifiers, ticks | run, raise, dispatch, push, read, poll, delay | wrap-around; read-modify-write against interrupts |
| digests, encodings, text output, framebuffer, device tree | a partial block, an output buffer, a surface, a blob | update, final; encode, decode; format, log, panic; draw; walk | the last byte that fits and the first that does not |
| drivers, boot, CPU tables, formats | hardware registers, firmware tables | register sequences, parsing | outside a model of the software |
| assembler, disassembler, linker, image tools | symbols, location counter, regions, records | two passes, placement, encoding | values that differ between passes; 32-bit sums |

The parts interact along one spine. The blocking primitives sleep and wake
through the wait queue, which moves processes between its list and the
scheduler's run queue, under spinlocks that mask interrupts, while the timer
interrupt calls the scheduler. The pipe also holds a ring. The passive parts
(allocators, caches, file system, tables, input) stand alone: each is called by
processes, other CPUs or interrupts and calls nothing of the others, except that
page tables take frames from the page allocator, the block cache calls a disk,
the file system calls ramfs and the terminal holds a ring. The tools share
nothing but files: what one writes the next one reads.

## Modules

    Fifo                 abstract bounded queue
     ^ refinement
    Ring                 ring.h, one step per shared access

    Kernel               one CPU: process table, run queue, timer, switch, queues
     ^         ^
    Sched     Waitq      life of processes / a guard and riv_waitq_sleep
               ^    ^   ^
             Mutex Sem Pipe

    Heap (refines Extents) <- Slab   Bitmap  Paging    memory
    List  Hash  Arp                                    tables
    Buf  Vfs                                           storage
    Signal  Task <- Clock  Tty <- Kbd                  events and input
    Sha256  Codec  Text  Screen  Tree                  data and output
     ^ all of them extended by
    Runtime              one of the parts at a time, under every sequence of calls

    Arch                 tokens, values, little-endian output
     ^       ^
    Riscv   X86          encoder and decoder of each target
     ^       ^
    Assembler <- Disas <- Sources      two passes; the listing; source files
    Linker   Image                     placement; checksums, records, strings
     ^ all of them extended by
    Build                the pipeline of doc-en/tools-reference.md

    KernelProofs         the invariant of the substrate
     ^       ^     ^
    Process  Sem   Pipe (Proofs)     Sched and Mutex; Sem; Pipe
    AllocProofs          Heap, Slab (with the bump allocator and Extents)
    InterruptProofs      Ring (with Fifo), Task, Clock, Tty, Kbd
    ServiceProofs        Tree, Buf, Arp, Signal
    FileProofs           Vfs

**Ring.** `head`, `tail` and `buf` are the `riv_ring`; `pp`, `ph`, `pb`, `pleft`
are the producer's program counter and locals inside `riv_ring_write` and
`riv_ring_push`, `cp`, `ct`, `cb`, `cleft` the consumer's. Every load and store
of shared memory is an action of its own. The code's atomics are sequentially
consistent, so no weaker memory model is needed. Indices wrap at the constant
`W` (2^32 in the code). `riv_ring_count` may be called by either side at any
time between its own operations.

**Fifo** says what the ring promises: pushes and pops take effect at one
instant, in order, and are refused only when the queue is full or empty.
`Ring` maps its content to the queue and has `F!Spec` as a property.

**Kernel.** There is one CPU, because `riv_sched.current` is one global. An
*execution* is a stack with its registers, named by the process it was made
for. `cpu` is the execution on the processor and `current` what `riv_sched`
believes; they differ between the two halves of `riv_proc_yield`. A
`spin_locked` block runs with interrupts off and is one step. If its lock is
held, the CPU spins with interrupts off and nobody can release it: the step
`Hang`, after which nothing happens. When the run queue is empty
`riv_proc_yield` leaves its block with `break`, so the lock stays held and
interrupts stay off, and the model does the same. `riv_ctx_switch` is supplied
by the port and is modelled as saving and restoring the stack and the
interrupt flag (external). The constant `Preempt` says when the timer fires:
never, at every instruction, or at every instruction but the gap between
election and switch.

**Sched** adds creation, reaping and exit of processes, from boot on.

**Waitq** adds a guard that, in the blocking calls, is taken with interrupts
*on*, so its holder can be preempted, and `riv_waitq_sleep` in its four steps.

**Mutex**, **Sem**, **Pipe** add the primitive's own variables and one action
for each stretch between two points where another execution can run. In `Sem`
the load and the store of `count--` are separate steps, in `Mutex` the test of
`owner` and the assignment to it. In `Pipe` a read asks for any number of bytes,
0 included: such a read returns 0 from a closed pipe that may hold bytes, and
sleeps on an open one. `eof` records a 0 returned to a read that asked for bytes.
The ring is touched only under the guard, so it is a sequence of bytes tagged with their
writer; that the ring behaves like one is what `Ring` shows.

**Runtime** puts the passive components side by side. They share no state, so a
behaviour picks one, the `subject`, and only that one moves: the state spaces
add up. What each module models:

- **Heap**: `blocks` is the list of headers, `held` what callers asked for.
  Allocation splits the first block that fits; release marks the block free and
  makes the code's single walk, in which a free block absorbs at most one
  successor. Both allocators have **Extents** (disjoint extents of a region, as
  an abstract specification) as a property.
- **Slab**: the free list runs through the objects, and clients write over it.
  The module also puts the three allocators side by side (`AllocSpec`), as
  `Clock` does with `Task` (`TimingSpec`) and `Kbd` with `Tty` (`InputSpec`).
- **List**: the `next` and `prev` pointers, with `riv_list_for_each_safe` as a
  walk in steps whose body removes the current node or others are added.
- **Bitmap**, **Paging**: the frame bitmap; page tables as frames of entries,
  four levels on x86 and two on Sv32, with the rights at every level. Mapping
  may run out of frames half-way. `opened` remembers which tables were made for
  a user page, so that `RightsKept` can say exactly which pages user code reaches.
- **Buf**: two CPUs use one cache over a disk whose reads and writes fail.
  `riv_buf_sync` takes the cache lock, but who holds a block changes and marks it
  without, so each access of the sync is a step. `torn` and `late` are the blocks
  that a failed read or a mark during a sync has spoilt.
- **Vfs**: mounts, the three steps of `riv_vfs_open` (look up, create, find a
  descriptor), which hold no lock together, and ramfs with its inode table. A
  write holds no lock either: its copy, its test of `size` and its store to it are
  three steps. File offsets wrap as `riv_u32` does; the behaviour ends with the
  first write that falls outside its file (`wild`).
- **Hash**: slots with linear probing and the deletion loop as written; the FNV
  hash is any function from keys to slots, chosen at the start. One key is too
  long for a slot and is stored cut.
- **Arp**: the cache with its replacement.
- **Signal**: dispatch in steps, so that an interrupt or a handler can raise a
  signal between the load and the store that clear one. A dispatch has no guard
  and may begin inside another or inside such an update: `below` is the stack of
  what was interrupted, at most `MAX_DEPTH` deep. `due` is what was raised and not
  taken since, `crossed` and `inside` tell whether a raise or a dispatch has come
  in the middle of an update or of a dispatch.
- **Task**: ticks of a small word; a tick can come between two tasks of a run.
- **Clock**: reads of a 64-bit counter on 64-bit, RV32 and ARM targets, half by
  half where the code does so, and the two waits built on them.
- **Tty**, **Kbd**: line editing with what the terminal shows, cut where the ring
  is full; and scancode decoding with both tables of the header. `Legend` is what
  is printed on a few keys, and every poll is compared with what its key was
  pressed for (`want`). Caps lock shifts every key, not only letters, and Ctrl
  makes a control character of a small letter only: `Meant` says so too.
- **Sha256**: the compression on 32-bit words, as bit sets, compared with the
  published digest of "abc" (`PublishedDigest`); and `init`, `update` and `final`
  as a state machine over a block of 8 bytes with a length field of 2.
- **Codec**: base64 with the real alphabet, both ways and for every size of the
  output; the checksum of `net.h` on packets whose bytes may be changed.
- **Text**: `riv_strlcpy`, the number formatters and `riv_vsnprintf` on a buffer
  with one cell behind it, and `riv_logv` and `riv_panic_handler`, which call
  them. A format is its directives with their arguments.
- **Screen**: the words of the surface, some of each row not shown; `shown` is
  what a viewer sees after each call. Coordinates wrap, so a block may start off
  the screen. `Labelled` is the font by the characters its comments name; the
  table is indexed as the code does, so a text shows the glyph of the character
  32 lower (`Seen`).
- **Tree**: a firmware lays out nodes, properties and padding word by word
  (external); the walk of `riv_fdt_walk` then makes one step for each tag.
  Names and data may hold the values of tags.

**Arch, Riscv, X86** are the encoders and decoders. A token stands for what the
tokenizer's string means (a number, a symbol, a register, a memory operand); a
parser returns the set of the one value it reads, or the empty set where the
code dies. Machine words are bit sets, bytes are numbers. **Assembler** makes one
action of each call of `process_line`, by directive; both passes run over the
same file. **Disas** decodes the output and states what a listing means: two
operands are equal if they name the same registers, values and addresses, wide
numbers compared in all their 64 bits. `loose` is the first line whose size rests
on a symbol that pass 0 did not know.
**Linker** reads its script line by line, then fills regions and places files,
with sums in 32 bits. **Image** holds the CRCs bit by bit, `rivet-img`, both
record formats of `rivet-objcopy` and the way back, `rivet-strings` and
`rivet-size`. **Sources** is the set of source files that the run assembles.

Operators called "mutant of" something are deliberately wrong variants of the
definition that follows them, used to confirm that the properties notice.

## Runs

Runs that hold:

| run | bounds | shows |
|---|---|---|
| `ring` | 2 slots, 4 index values, calls of up to 3 bytes, 2 byte values | `NoRace`: the two sides never touch one slot at once; `CountSafe`: counts are safe to act on; `Linearizable`: the ring implements `Fifo` |
| `sched` | 4 slots, 1 process that never exits | `Consistent`, `NoneLost`: table, run queue and contexts agree and no process is lost; `ZombieStaysDead`; `RoundRobin` until the lock leaks |
| `mutex` | 4 processes, 3 of them users | `MutualExclusion`; `NoLostWakeup`: a free mutex with waiters has a wake-up on its way; `StoppedByHolder`: what can stop the CPU |
| `sem` | 4 processes, 3 waiters, 1 unit and 2 posts, also from an interrupt | `Conservation`: no post or wait is undone; `EnoughWakeups` |
| `pipe` | 2 writers, 1 reader, capacity 2, writes of up to 3 bytes, 3 per writer | `InOrder`: bytes arrive once and in order; `EofIsFinal` |
| `pipe_coop` | 1 writer, 1 reader, 1 closer, no timer | `ReaderServed`, `WriterServed`, `CloseReleases` |
| `toolchain` | every instruction form with a few registers, boundary immediates and addressing forms; files of up to 3 statements; scripts of up to 8 lines | see below |
| `runtime` | `Runtime.cfg`; see below | see below |

The kernel runs, except `pipe_coop`, check `Consistent` (`MutexConsistent` in
`Mutex`, which shares a proof module with `Sched`): the module's type
invariant, `LinkedOnce` (a process is in one queue at most, and there once) and
`ContextOwned` (a saved context is a stack of its own process). Many properties
of the other runs are conjunctions as well, one per component; the tables name
the conjuncts, each of which has its own comment in its module.

`toolchain` (79 152 states):

| property | conjuncts |
|---|---|
| `PassesAgree` | `LabelsStable`: a label has the same value in both passes, up to the first line whose size was guessed from a forward reference (in a file that changes `.arch`, up to the first line); `Resolved`: no data or operand rests on an undefined symbol; `EquatesInOrder`: `.equ` gives the value of what it names if that came before, and 0 otherwise |
| `ListingFaithful` | the disassembler prints what the source says, for both targets; what the two do not agree on is listed under "What the models show of the code" |
| `ImagePlaced` | `ImageExact`: an image holds each file's bytes where the script puts them, later ones over earlier ones, and fill elsewhere; `WildOnlyByWrap`: bytes land outside their region only when a 32-bit sum wraps |
| `SignedVerifies` | `SignedKeepsImage`: the output starts with the image, has the size asked for whenever image and trailer fit, and is refused or larger exactly as the code says otherwise; `TrailerVerifies`: `riv_crc32_update` accepts it, and no image with a changed byte |
| `CarriedExactly` | `HexRoundTrip`, `RecordsSum`: records add up and come back as the same bytes, in descending order of addresses too; `EveryByteReported`: `rivet-strings` reports each long enough run once |

The CRCs are also compared with their published check values (`PublishedValues`,
evaluated when the run starts).

`runtime` (about 1 263 000 states), per component. `AllocatorsIntact`,
`ContainersIntact`, `TimeKept`, `InputAsTyped`, `CodecsAgree` and `OutputFits` are
conjunctions over components of one kind; here the conjuncts are named:

| component | bounds | properties |
|---|---|---|
| heap | 64 units of 2 bytes, so 5 blocks; requests of 0, 1, 6 units and one that wraps | `AllocatorsIntact`: `HeapIntact` (`HeapTiles`, `GrantedEnough`, `OnePairUnmerged`); `AllocatorsGrant`: heap and bump allocator implement `Extents` |
| slab, list | 3 objects, 3 nodes | `AllocatorsIntact`: `FreeListWhole`; `ContainersIntact`: `ListIntact` (`PointersSpell`, `WalkExact`) |
| pages, bitmap | 5 frames, words of 3 bits, pages of 2 entries, both formats | `PagesIntact` (`Translates`, `FramesAccounted`, `RightsKept`); `ContainersIntact`: `BitmapIsSet` |
| block cache | 2 blocks, 3 addresses, 2 CPUs | `BlocksKept` (`WritesSurvive`, `HoldersKeepBlock`) |
| files | 2 inodes, 1 byte each, 1 descriptor per process, 2 processes, 2 creations | `FilesApart` (`OwnBytes`, `NamesUnique`, `WritesInside`) |
| hash | 4 slots, 4 keys, every hash function | `ContainersIntact`: `HashIsMap` (`HashIsDict`, `HashCounts`) |
| ARP | 3 entries, 4 addresses | `ArpRemembers` (`ArpCurrent`, `ArpDropsOldest`) |
| signals | 3 signals, 2 dispatches inside one another; not beyond the point where both a raise has come inside an update and a dispatch inside another (`SignalsFollowed`) | `SignalsDelivered` (`SignalsKept`, `SignalsOnce`, `HandlersInOrder`) |
| tasks | tick modulo 8, periods 1 and 3 | `TimeKept`: `TasksOnTime` |
| time | halves of 4 values, 9 ticks | `TimeKept`: `ReadsAndWaits` (`ReadsInWindow`, `WaitsLongEnough`) |
| terminal, keyboard | line of 3, ring of 4; 2 scancodes under way | `InputAsTyped`: `ReadAsShown` (`ScreenShowsLine`, `ReaderGetsLines`), `ModifiersTrack`, `CharactersTyped` |
| digest | blocks of 8 bytes, messages of up to 34, cut anywhere | `DigestOfWhole`: the blocks compressed are those of the padded message |
| encodings | messages of up to 4 bytes of 4 values, every output size | `CodecsAgree`: `Base64RoundTrip`, `ChecksumTells` |
| text | 6 formats, 6 strings, a buffer of 10, an int of 64 values | `OutputFits`: `StringsFit`, `IntsReadBack`, `LinesWhole` |
| framebuffer | 3 by 2 pixels, rows of 4 words, cells of 2 by 2, coordinates modulo 16 | `ScreenAsDrawn`: each pixel is as last drawn, and nothing lands between the rows |
| device tree | blobs of up to 9 words | `TreeWalked`: the callback sees the nodes in order with their depth, and nothing else |

A message of 34 bytes has a length in bits that needs both bytes of its field, and
every position of its end in a block occurs. The formats hold each conversion,
with and without padding, and the strings end one short of the buffer, at its end
and behind it. A word of 3 bits, a half of 4 values and a tick of 8 keep every rounding, wrap
and boundary of the code's 32 and 64 bits while TLC can reach them. The two
processes that open files are interchangeable, hence the symmetry; all properties
of the run are safety properties, for which it is sound. Some behaviours end
because the code stops there (a leaked lock of the block cache or of the mount
table, a process that exits on a signal), so deadlock is not checked.
Each property's comment says up to which event it holds; those events are the
list under "What the models show of the code".

The bounds are small and chosen so that the interesting case happens: both
indices wrap and the ring fills; a slot is reaped and used again; there is a
waiter behind a waiter; a write is longer than the pipe. `MaxPost`, `MaxBytes`
and `MaxN` bound counters that are unbounded in the code. Deadlock checking is
off where the code can really stop the CPU (`Hang`) or leave every process
asleep; it is on in `ring`, `pipe_coop`.

Runs in which TLC refutes what the code's comments or docs say:

| run | what happens |
|---|---|
| `sched_window` | `ContextOwned`: a timer interrupt after the lock's release and before `riv_ctx_switch` saves the running stack into the next process's context (`proc.h:122`) |
| `sem_serve` | `PostIsTaken`: `riv_waitq_sleep` returns with the guard held and the loop takes it again (`sem.h:30`; `mutex.h:33` has the same loop) |
| `pipe_lost` | `ReaderServed`: the guard is released before the sleep, and the wake-up falls in between (`pipe.h:62`) |
| `hash_lost` | `LookupHits`: deleting a key stops at the first entry that cannot move, and an entry behind it is no longer found (`hash.h:99`) |

Because of `sched_window` the passing kernel runs use a timer that does not
fire in that gap: what they show holds for a port that keeps interrupts off
there, or that has no timer. `mutex` and `sem` show safety only. With the
double acquisition of `sem_serve` a contended waiter does not return, so no
liveness can hold for it. That behaviour is part of the model, so the safety
properties are checked on the states the code really reaches.

### What the models show of the code

These are behaviours of the code that the models contain and that the
properties above have to except, each at its line:

- `proc.h:112`, `buf.h:58`, `vfs.h:78`: `break` leaves a `spin_locked` block with
  its lock held: on an empty run queue, on a cache hit, on a full mount table.
- `mutex.h:46`: `riv_mutex_trylock` and `riv_mutex_unlock` spin with interrupts
  off on a guard whose holder was preempted; nothing else stops the CPU
  (`StoppedByHolder`).
- `pipe.h:43`: one write wakes one reader; with two readers, bytes the first
  leaves behind are not offered to the second, also without preemption.
  `pipe_coop` has one reader for that reason. `pipe.h:54`: a read of 0 bytes
  returns 0 from a closed pipe that still holds bytes, which its caller cannot
  tell from the end, and waits for a writer on an open one.
- `pipe.h:68`: with preemption a reader or writer between its test and its sleep
  misses the wake-up of `riv_pipe_close` as it does the one of a write.
- `heap.h:77`: one coalescing walk leaves a pair of free neighbours apart, but
  never more than one pair (`OnePairUnmerged`). `heap.h:53`: a request within
  one alignment of the top of `riv_size` is rounded to 0. `heap.h:24`: a request
  that carries `riv_bump.cur` past the end of the address space passes the test;
  the bump allocator is modelled for requests that do not.
- `buf.h:63`: a failed read leaves a block half overwritten under its old
  address. `buf.h:93`: a block dirtied while `riv_buf_sync` writes it is taken
  for clean. Both spoil that one block (`BlocksKept`).
- `vfs.h:117`: two opens of one missing file create it twice. `vfs.h:121`: an
  open that fails for lack of a descriptor leaves its file. `vfs.h:90`: `/ma`
  matches a mount at `/m`. `ramfs.h:85`: an inode is reused under an open
  descriptor. `ramfs.h:69`: offset plus length wraps. `ramfs.h:74`: of two writes
  beyond the end of one file at once, the one that stores `size` last decides it,
  and may cut off what the other wrote.
- `paging.h:115`: the user bit of a table is set only if the page for which it
  was made is a user page, so that user code does not reach a user page that is
  mapped later below that table (`RightsKept`). `paging.h:56`: a frame at address 0 is taken for
  "none". An Sv32 leaf is never executable.
- `hash.h:52`: a key that does not fit its slot is stored cut and never found.
- `arp.h:43`: lookups ignore expiry, and address 0 matches an empty entry.
- `signal.h:67`: a signal raised by an interrupt between load and store is lost,
  and one that a dispatch takes there comes back. `signal.h:62`: a dispatch inside
  another leaves the outer one with its snapshot, so that signals the inner one
  has delivered are delivered again.
- `task.h:41`: a task that is not run for half the range of the tick counts as
  not due for the other half.
- `time.h:17`: on a 32-bit target the halves of `riv_ticks` can be torn.
  `time.h:57`: ARM's 32-bit counter ends a busy wait when it wraps.
  `time.h:82`: a delay may be up to a millisecond short.
- `tty.h:65`: what does not fit the ring is dropped, the newline first.
- `kbd.h:61`: releasing one of two pressed shift keys releases both. `kbd.h:70`:
  caps lock shifts digits and signs too. `kbd.h:73`: with Ctrl and an upper case
  letter the letter comes, not the control character.
- `str.h:83`: zeros are put before a minus sign. `str.h:35`: the digits of a
  number have 24 places, which base 2 can exceed. `panic.h:52`: a message that is
  cut loses its newline, a line of the log does not (`LinesWhole`).
- `fb.h:95`: `riv_fb_glyph` indexes the font with `c - 0x20`, and the table in the
  header is laid out by `c`: 'A' is drawn with the entry commented `!`
  (`ScreenAsDrawn`). `dt.h:54` names `riv_fdt_find_prop`, which
  does not exist.
- `rivet-as.c:86`, `279`: a forward reference is 0 in pass 0, so whatever sizes
  depend on it moves labels; `.arch` is not reset between the passes.
  `rivet-as.c:257`: an `.equ` of a symbol defined later, or nowhere, makes its
  symbol 0 without a message (`EquatesInOrder`).
- `x86_64_as.c:193`: a memory operand without base is encoded as another one; `rsp`
  as an index is dropped. `x86_64_disas.c:192`: `r12` as an index is not listed.
- `rivet-ld.c:216`: a 32-bit sum wraps past the test of the region's length.
  `rivet-ld.c:226`: `at` moves back without a diagnostic.
- `rivet-img.c:62`: with `--crc32-trailer` an image for which the size asked for
  is too small is not refused but written larger, where
  `doc-en/tools-reference.md:108` says "pad the final image to SIZE bytes"
  (`SignedKeepsImage`).

## Fairness

`Sched`: the processor finishes a yield it has begun, boot hands over the CPU,
and the timer keeps firing. No process is required to make any call, so
`RoundRobin` holds even if every running process computes for ever.

`Sem`, `Pipe`: a process that gets the CPU again and again executes its own
next step (strong fairness, because preemption keeps disabling it), and in
`Pipe` it also yields again and again between its calls, which a cooperative
kernel needs from every process. Timer and interrupt steps do not count as
steps of the process they interrupt.

## Proofs

### The ring

`InterruptProofs` proves of the ring, for every set of bytes, every capacity `Cap`, every index
range `W` that is a multiple of `Cap` and at least twice as large, and every
call length:

- `TypeCorrect`: the type invariant; `RaceFree`, `CountIsSafe`: the two
  invariants of run `ring`;
- `RingImplementsFifo`: the refinement of `Fifo` (`Linearizable`).

The only assumption is `RingAssumption` in `Ring`; that `riv_ring_init` accepts
powers of two up to 2^31 implies it.

`NoRace` is not inductive: it says nothing about how a side came to be where it
is. `IInv` adds what each side may rely on between two of its steps. `h` is
still `head`, because only the producer stores it; once there was room there
still is, because the consumer only makes more; the byte just stored is still
in its slot. `ConsumerInv` is the mirror image. From these, the slots of `h`
and `t` differ when the distance of the indices is neither 0 nor `Cap`: two
numbers less than `Cap` apart have different remainders (`ModDistinct`,
`SlotDistinct`). That lemma, and the one that a step changes the distance by
one across the wrap (`SubStep`), carry the arithmetic. The refinement uses
`IInv` in both states of a step: `PushPublish` maps to `Push`, `PopPublish` to
`Pop`, a refused call to `PushFull` or `PopEmpty`, and all other steps leave
the queue as it is.

### The kernel

`KernelProofs`, `ProcessProofs` (scheduler and mutex), `SemProofs` and
`PipeProofs` prove the kernel modules correct for every number of processes,
every set of wait queues and users, every initial count and number of posts,
every capacity of the pipe and every length of its calls, 0 included:

- `SchedIsConsistent`, `NoProcessIsLost`, `ExitIsFinal`: what run `sched` checks
  except `RoundRobin`;
- `MutexIsConsistent`, `MutexExcludes`, `MutexWakes`, `MutexStops`: all of run
  `mutex`;
- `SemIsConsistent`, `UnitsAreConserved`, `UnitsHaveWakeups`: all of run `sem`;
- `PipeIsConsistent`, `BytesInOrder`, `EndOfFileIsFinal`: all of run `pipe`.

The assumptions are those of the modules (`NProc` is positive, the users are
processes, the primitive has its wait queue) and `Preempt # "anywhere"`: with a
timer that fires between election and switch the theorems are false, as
`sched_window` shows.

`KernelProofs` has the invariant that the four share, `KInv`. `LinkedOnce` and
`ContextOwned` do not say what keeps them true across a switch: `KInv` adds that
at most one process is RUNNING and it is `current`, that only the execution on
the CPU can be inside a switch or stopped, and that a switch under way is from
`cpu` to `current`, which is already RUNNING. For each operation of the kernel
there is one lemma saying that it preserves `KInv` and what it does to the rest
(`ElectTable`, `EnqueueTable`, `WakeTable` for the queues; `YieldInv`,
`SwitchInv`, `TickInv`, `WakeOneInv`, `HangInv` for the processor). They rest on
what removing and appending do to a sequence without repetition
(`WithoutDistinct`, `AppendDistinct`).

`SInv` adds where a process under construction is: READY, in no queue, known to
one living creator. Without that `riv_proc_ready` could link a process twice.

`MInv` adds who holds the guard (`GuardInv`), what the holder knows about the
owner between test and claim (`OwnerInv`), and where a queued process is
(`QueueInv`): inside `riv_waitq_sleep` and not past its yield. The last is what
makes a woken process one that comes back to the test, hence `NoLostWakeup`.
It is true only until `riv_sched.lock` leaks; after that a wake-up stops the CPU.

`CInv` adds that an execution between the load and the store of `count--` holds
the guard and that its loaded value is still the count: posters need the guard,
or stop the CPU waiting for it. For the wake-ups, `WInv` counts: the `Credit` is
the set of posters about to wake somebody and of woken waiters that have not
tested the count again, and with processes asleep the count is at most its size.
A post adds one to both; a wake-up hands its place in the set to the process it
wakes; a woken process leaves the set when it takes a unit, or when it finds
none, and then the count is 0. The set is kept in step by `QueueInv`, as for the
mutex, and by `ZeroInv`: whoever is on the way to the queue with the guard held
has seen 0 and it is still 0.

`PInv` has two halves. `PlaceInv` says that the guard is held around every
access to the ring, that a writer with bytes left is still inside
`riv_pipe_write` (or the pipe is closed), and that a reader that asked for bytes
and is about to return 0 saw a closed and empty pipe that is still so. `StoreInv` gives every byte in the
ring a rank, the number of bytes of the same writer up to it: its number is the
count of bytes read plus its rank. Storing gives the new bytes the next ranks
(`AppendRanks`), reading moves the origin of the others (`DropRanks`); both rest
on counting the bytes of a writer on two sides of a cut (`AmongSplit`).

### The passive components

| theorem | for every | argument |
|---|---|---|
| `AllocatorsAreIntact`, `AllocatorsDoGrant` | memory, sequence of sizes (for `riv_bump`: that do not carry its pointer round the address space), number of slab objects | see below |
| `TimeIsKept` | set of tasks and periods, width of the tick and of the counter's halves, length of waits | `TaskInv`, `ClockInv` |
| `InputIsAsTyped` | line and ring size, set of characters, number of scancodes under way | `TtyInv`, `KbdInv` |
| `BlocksAreKept` | number of blocks, addresses, values and CPUs | `BufInv` |
| `FilesStayApart` | number and size of files, mounts, paths, processes, lengths | `VfsInv` |
| `ArpIsRemembered` | size of the cache, addresses, expiries | `ArpInv` |
| `SignalsAreDelivered` | set of signals and of masks, depth of dispatches | `SigInv` |
| `TreeIsWalked` | tree, lengths of names and data, padding | `TreeInv` |

Each is about the specification of its own component (`AllocSpec`, `TimingSpec`,
`InputSpec`, `BufSpec`, `VfsSpec`, `ArpSpec`, `SignalSpec`, `TreeSpec`). The run
`runtime` takes the same next-state actions with small values of their
parameters. The assumptions are the named `ASSUME`s of the modules: sizes are
natural numbers, no period is longer than half the range of the tick, the
memory ends short of the address space, address 0 is no host.

*Heap.* `HeapInv` says that the blocks tile the memory, that the blocks not free
are those that callers hold with at least what they asked for, and that at most
one pair of neighbours is free. Allocation replaces one block by one or two
(`IsTaken`, `IsSplit`). Release is a walk over a list of any length, so it needs
an invariant of its own: after `k` blocks the list built so far `Covers` the
first `k`, each of its blocks standing for one block or for two free neighbours
(`StandsFor`), and a block is left alone only if it and its successor are not
both free. At the end of the walk the only pair that can be left is the one
behind a merged block: the block given back with its free neighbours on both
sides, or a pair left by an earlier walk. The proof shows that this is one pair
at most. That the walk
reaches the end is an induction over the length, done with the smallest
counterexample (`LeastOfNat`). The refinement of `Extents` compares the blocks in
use before and after a step. *Slab.* `Threads(L)` says that the sequence `L` is
the free list: the objects nobody holds, each once, each linked to the next; the
invariant is that there is such an `L`.

*Tasks and clock.* `TaskInv` relates the wrapping tick to the unbounded time by
congruence modulo `TICK_MOD`: `next_tick[i]` is a period after the tick from
which the age of task `i` counts. `ClockInv` keeps, for each half already read,
the window from which it can come; a read by halves that is not torn then falls
between the call and the return.

*Terminal and keyboard.* `ReadAsShown` is inductive once the
variables have their types (`TtyInv`). `KbdInv` states what the driver's state
will be when it has polled all scancodes under way: the state goes through a run
over these bytes (`Runs`), in which each byte gives the character its key was
pressed for, and at whose end the modifiers are those of the keys held. Sending
extends the run with one step, which is right because the tables show the legends
(`MapsShowLegends`); polling takes its first step.

*Block cache.* `BufInv`: while nobody is changing a block, the disk has the last
write to it if the block is clean or about to be marked clean, and the block has
it unless a failed read tore it; an address that is not cached has its last write
on disk. An address is left out while `riv_buf_sync` may take its last mark for
written (`late`). *Files.* `VfsInv`: a descriptor carries the id of the file in its
slot unless that file was created under it, what a write has copied and not yet
counted into `size` is its own file's, and whoever is between look-up and
creation has the name to itself, unless two opened at once. *ARP.* Used entries
stand at the front and no address has two; without the first, an insertion could
prefer an unused entry to a later one of the same address. *Signals.* Of every dispatch
on the stack the snapshot shrinks from below; and unless a raise came between, the
value loaded by an update holds what is due, whatever dispatches ran inside it.
*Tree.* The tags of the blob form a sequence of
marks (place, depth, number of nodes before), each following from the one before;
the walk stands at a mark and has shown the nodes before it. The invariant
asserts that such marks exist; laying out a word extends them.

### How the proofs are written

Many leaves name the prover that finds them (`Zenon`, `ZenonT`, `SMTT`): Zenon
for substitution and first-order steps, SMT for arithmetic. The proofs of several
components share a module where they are small.

### What is only model-checked

- Liveness (`RoundRobin`, `ReaderServed`, `WriterServed`, `CloseReleases`, and
  the refuted `PostIsTaken`): fairness and `ENABLED` are out of the prover's reach.
- `DigestOfWhole`, `CodecsAgree`, `OutputFits` and the properties of the run
  `toolchain`: they compare recursive definitions with reference definitions, and
  what a recursive definition computes for every input is out of its reach too.
- `ContainersIntact`, `PagesIntact`, `ScreenAsDrawn`: nothing stands in the way of
  a proof but the work; the hash map is also refuted in part (`hash_lost`).
- That the runs' bounds are instances of the theorems' assumptions is evaluated
  by TLC when a run starts.

## Not modelled

Several CPUs in the kernel: the scheduler's data structure is for one.
`riv_spin_trylock`, which nothing calls. Misuse: unlocking a mutex one does not
own, freeing a process that has not exited or a block twice, two producers on
one ring. Loading page-table roots and flushing the TLB. The tokenizers of
assembler and linker, string escapes, option parsing and the layout of
printed text: a statement is its tokens. The ARP request packet, directories and
file modes, which no operation reads back.

Drivers, boot code, descriptor tables and readers of firmware and disk formats
(`uart.h`, `pci.h`, `gdt.h`, `acpi.h`, `elf.h`, `fat.h` and their like) are
sequences of register accesses or single passes over a table. Their meaning is in
hardware or in a format that the repository does not define, and they keep no
state that a property could relate. The walk of `dt.h` is modelled because the
layout it depends on is in its own arithmetic. In `str.h` comparison and copying
without a bound, in `net.h` byte order and header layouts, in `Text` the parsing of
a format's flags and width, in `Sha256` a use of a digest after `final`.

## Plan

Proofs: `ListIntact`, `HashIsMap` and `BitmapIsSet` need statements that do not
go through `Runtime`; `PagesIntact` needs an invariant for tables that are being
filled while frames run out.
