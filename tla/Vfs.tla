--------------------------------- MODULE Vfs ---------------------------------
(***************************************************************************)
(* include/rivet/vfs.h with ramfs.h mounted under it.  The lookup, create  *)
(* and unlink of ramfs are atomic under its lock; riv_vfs_open calls two   *)
(* of them and other processes run in between.  Its read and write take no *)
(* lock: a write copies its bytes, then tests size, then stores it.        *)
(* riv_u32 offsets wrap at FILE_MOD.                                       *)
(***************************************************************************)
EXTENDS Integers, Sequences, FiniteSets, FiniteSetsExt

CONSTANTS RAMFS_MAX_FILES, RAMFS_MAX_DATA, RIV_FILES_MAX, RIV_MOUNTS_MAX, RIV_PATH_MAX,
          FILE_MOD,       \* riv_u32 is computed modulo this
          Procs, Systems, \* processes with a file table each; file systems
          MountCalls,     \* point and file system of each riv_mount_fs call, in order
          Paths,          \* what is opened
          MAX_CREATES     \* files created in all

ASSUME VfsAssumption ==
    /\ RAMFS_MAX_FILES \in Nat /\ RAMFS_MAX_DATA \in Nat /\ RIV_FILES_MAX \in Nat
    /\ RIV_PATH_MAX \in Nat \ {0} /\ FILE_MOD \in Nat /\ FILE_MOD > RAMFS_MAX_DATA
    /\ MountCalls \in Seq(Seq(STRING) \X Systems) /\ Paths \subseteq Seq(STRING)

VARIABLES mounts, vfs_hung,   \* riv_mounts; riv_vfs_lock was left locked
          ram,        \* file system -> slot -> [used, name, size, data, id]
          fds,        \* process -> descriptor -> [used, fs, slot, at, id]
          opening,    \* process -> the riv_vfs_open it is in
          writing,    \* process -> the riv_vfs_write it is in, its bytes copied
          files_made, \* ids given so far: every created file has its own
          raced, cut, \* names created by two opens at once, or too long to store
          odd,        \* ids of files with a hole, or made under an old descriptor
          wild,       \* a write fell outside the data of its file
          astray      \* and its offset and length do not wrap

vfs_vars == <<mounts, vfs_hung, ram, fds, opening, writing, files_made, raced, cut, odd, wild, astray>>

Inodes == 1 .. RAMFS_MAX_FILES
NoFd == [used |-> FALSE, fs |-> 0, slot |-> 0, at |-> 0, id |-> 0]
NotOpening == [step |-> "none"]
NotWriting == [step |-> "none", d |-> 0, end |-> 0]

\* A process is in one call at a time.
Free(p) == opening[p] = NotOpening /\ writing[p] = NotWriting

VfsInit ==
    /\ mounts = <<>> /\ vfs_hung = FALSE
    /\ ram = [s \in Systems |-> [i \in Inodes |->
                [used |-> FALSE, name |-> <<>>, size |-> 0, data |-> [b \in 0 .. RAMFS_MAX_DATA - 1 |-> 0], id |-> 0]]]
    /\ fds = [p \in Procs |-> [d \in 1 .. RIV_FILES_MAX |-> NoFd]]
    /\ opening = [p \in Procs |-> NotOpening]
    /\ writing = [p \in Procs |-> NotWriting]
    /\ files_made = 0 /\ raced = FALSE /\ cut = FALSE /\ odd = {} /\ wild = FALSE /\ astray = FALSE

\* A copy that leaves room for the terminator.
riv_strlcpy(text, n) == SubSeq(text, 1, Min({Len(text), n - 1}))

-----------------------------------------------------------------------------
(* Mounts                                                                  *)

\* A full table is left by a break that keeps the lock.
riv_mount_fs(point, fs) ==
    /\ ~vfs_hung
    /\ IF Len(mounts) >= RIV_MOUNTS_MAX THEN vfs_hung' = TRUE /\ UNCHANGED mounts
       ELSE mounts' = Append(mounts, [point |-> riv_strlcpy(point, RIV_PATH_MAX), fs |-> fs]) /\ UNCHANGED vfs_hung
    /\ UNCHANGED <<ram, fds, opening, writing, files_made, raced, cut, odd, wild, astray>>

\* The longest mount point that starts the path, the last one of those; the rest
\* of the path without a slash.
_riv_match_mount(path) ==
    LET fit == {i \in DOMAIN mounts : LET n == Len(mounts[i].point) IN n <= Len(path) /\ mounts[i].point = SubSeq(path, 1, n)}
        best == CHOOSE i \in fit : \A j \in fit : Len(mounts[j].point) < Len(mounts[i].point) \/ (Len(mounts[j].point) = Len(mounts[i].point) /\ j <= i)
        rest == SubSeq(path, Len(mounts[best].point) + 1, Len(path))
    IN  IF fit = {} THEN {}
        ELSE {[fs |-> mounts[best].fs, rel |-> IF rest # <<>> /\ rest[1] = "/" THEN Tail(rest) ELSE rest]}

-----------------------------------------------------------------------------
(* ramfs                                                                   *)

_ramfs_lookup(fs, path) == {i \in Inodes : ram[fs][i].used /\ ram[fs][i].name = path}

Stale(fs, i) ==
    \/ \E p \in Procs, d \in 1 .. RIV_FILES_MAX : fds[p][d].used /\ fds[p][d].fs = fs /\ fds[p][d].slot = i
    \/ \E p \in Procs : opening[p].step = "fd" /\ opening[p].fs = fs /\ opening[p].slot = i

\* Mutant of _ramfs_create: the size is left from the file before.
_ramfs_create_sized(fs, i, path) ==
    ram' = [ram EXCEPT ![fs][i] = [@ EXCEPT !.used = TRUE, !.name = riv_strlcpy(path, RIV_PATH_MAX), !.id = files_made + 1]]

\* The data is not cleared.
_ramfs_create(fs, i, path) ==
    ram' = [ram EXCEPT ![fs][i] = [@ EXCEPT !.used = TRUE, !.name = riv_strlcpy(path, RIV_PATH_MAX), !.size = 0, !.id = files_made + 1]]

\* How much of n bytes _ramfs_write copies; -1 is its error.
WriteLength(off, n) ==
    IF (off + n) % FILE_MOD <= RAMFS_MAX_DATA THEN n
    ELSE IF off >= RAMFS_MAX_DATA THEN -1 ELSE RAMFS_MAX_DATA - off

_ramfs_unlink(fs, path) ==
    LET found == _ramfs_lookup(fs, path)
    IN  /\ found # {}
        /\ ram' = [ram EXCEPT ![fs][Min(found)].used = FALSE]
        /\ UNCHANGED <<mounts, vfs_hung, fds, opening, writing, files_made, raced, cut, odd, wild, astray>>

-----------------------------------------------------------------------------
(* Descriptors                                                             *)

OpenLookup(p, path, create) ==
    /\ Free(p)
    /\ \E m \in _riv_match_mount(path) :
         LET found == _ramfs_lookup(m.fs, m.rel)
         IN  \/ /\ found # {}
                /\ opening' = [opening EXCEPT ![p] = [step |-> "fd", fs |-> m.fs, slot |-> Min(found)]]
             \/ /\ found = {} /\ create
                /\ opening' = [opening EXCEPT ![p] = [step |-> "create", fs |-> m.fs, rel |-> m.rel]]
    /\ UNCHANGED <<mounts, vfs_hung, ram, fds, writing, files_made, raced, cut, odd, wild, astray>>

OpenCreate(p) ==
    LET o == opening[p]
        unused == {i \in Inodes : ~ram[o.fs][i].used}
        i == Min(unused)
    IN  /\ o.step = "create" /\ files_made < MAX_CREATES
        /\ IF unused = {} THEN opening' = [opening EXCEPT ![p] = NotOpening] /\ UNCHANGED <<ram, files_made, raced, cut, odd>>
           ELSE /\ _ramfs_create(o.fs, i, o.rel)
                /\ files_made' = files_made + 1
                /\ raced' = (raced \/ \E q \in Procs \ {p} : opening[q] = o)
                /\ cut' = (cut \/ Len(o.rel) >= RIV_PATH_MAX)
                /\ odd' = IF Stale(o.fs, i) THEN odd \cup {files_made + 1} ELSE odd
                /\ opening' = [opening EXCEPT ![p] = [step |-> "fd", fs |-> o.fs, slot |-> i]]
        /\ UNCHANGED <<mounts, vfs_hung, fds, writing, wild, astray>>

riv_file_alloc_fd(p) == {d \in 1 .. RIV_FILES_MAX : ~fds[p][d].used}

\* Without a free descriptor the file that was made for it stays.
OpenFd(p, append) ==
    LET o == opening[p]
        free == riv_file_alloc_fd(p)
        ino == ram[o.fs][o.slot]
    IN  /\ o.step = "fd"
        /\ opening' = [opening EXCEPT ![p] = NotOpening]
        /\ fds' = IF free = {} THEN fds
                  ELSE [fds EXCEPT ![p][Min(free)] = [used |-> TRUE, fs |-> o.fs, slot |-> o.slot, id |-> ino.id,
                                                      at |-> IF append THEN ino.size ELSE 0]]
        /\ UNCHANGED <<mounts, vfs_hung, ram, writing, files_made, raced, cut, odd, wild, astray>>

riv_vfs_close(p, d) ==
    /\ Free(p) /\ fds[p][d].used
    /\ fds' = [fds EXCEPT ![p][d] = NoFd]
    /\ UNCHANGED <<mounts, vfs_hung, ram, opening, writing, files_made, raced, cut, odd, wild, astray>>

\* size is loaded once; after that only the caller's buffer and descriptor change.
riv_vfs_read(p, d, n) ==
    LET f == fds[p][d]
        size == ram[f.fs][f.slot].size
    IN  /\ Free(p) /\ f.used /\ f.at < size
        /\ fds' = [fds EXCEPT ![p][d].at = @ + Min({n, size - f.at})]
        /\ UNCHANGED <<mounts, vfs_hung, ram, opening, writing, files_made, raced, cut, odd, wild, astray>>

\* riv_vfs_write: the bytes are copied.  Where they fall outside the data of the
\* file, what they overwrite is not known.
WriteCopy(p, d, n) ==
    LET f == fds[p][d]
        r == WriteLength(f.at, n)
        ino == ram[f.fs][f.slot]
        outside == f.at + r > RAMFS_MAX_DATA
    IN  /\ Free(p) /\ f.used /\ r >= 0
        /\ wild' = outside /\ astray' = (outside /\ f.at + n < FILE_MOD)
        /\ IF outside THEN UNCHANGED <<ram, writing, odd>>
           ELSE /\ ram' = [ram EXCEPT ![f.fs][f.slot].data =
                               [b \in DOMAIN @ |-> IF b \in f.at .. f.at + r - 1 THEN f.id ELSE @[b]]]
                /\ writing' = [writing EXCEPT ![p] = [step |-> "test", d |-> d, end |-> f.at + r]]
                /\ odd' = IF f.at > ino.size THEN odd \cup {ino.id} ELSE odd
        /\ UNCHANGED <<mounts, vfs_hung, fds, opening, files_made, raced, cut>>

\* size is loaded and compared with the end of the write.
WriteTest(p) ==
    LET w == writing[p]
        f == fds[p][w.d]
    IN  /\ w.step = "test"
        /\ IF w.end > ram[f.fs][f.slot].size
           THEN writing' = [writing EXCEPT ![p].step = "store"] /\ UNCHANGED fds
           ELSE writing' = [writing EXCEPT ![p] = NotWriting] /\ fds' = [fds EXCEPT ![p][w.d].at = w.end]
        /\ UNCHANGED <<mounts, vfs_hung, ram, opening, files_made, raced, cut, odd, wild, astray>>

\* The end is stored, whatever size is by now.
WriteStore(p) ==
    LET w == writing[p]
        f == fds[p][w.d]
    IN  /\ w.step = "store"
        /\ ram' = [ram EXCEPT ![f.fs][f.slot].size = w.end]
        /\ writing' = [writing EXCEPT ![p] = NotWriting] /\ fds' = [fds EXCEPT ![p][w.d].at = w.end]
        /\ UNCHANGED <<mounts, vfs_hung, opening, files_made, raced, cut, odd, wild, astray>>

SeekBase(f, whence) ==
    CASE whence = "set" -> 0 [] whence = "cur" -> f.at [] whence = "end" -> ram[f.fs][f.slot].size

riv_vfs_lseek(p, d, off, whence) ==
    /\ Free(p) /\ fds[p][d].used
    /\ fds' = [fds EXCEPT ![p][d].at = (SeekBase(fds[p][d], whence) + off) % FILE_MOD]
    /\ UNCHANGED <<mounts, vfs_hung, ram, opening, writing, files_made, raced, cut, odd, wild, astray>>

\* The file systems are mounted at boot, before the first open.  The lock that a
\* mount too many leaves locked is taken by riv_mount_fs only: a behaviour is
\* followed no further than that, nor than a write outside its file.
VfsNext(reads, writes, seeks) ==
    /\ ~vfs_hung /\ ~wild
    /\ \/ /\ opening = [p \in Procs |-> NotOpening] /\ files_made = 0
          /\ \E k \in DOMAIN MountCalls : k = Len(mounts) + 1 /\ riv_mount_fs(MountCalls[k][1], MountCalls[k][2])
       \/ \E p \in Procs, path \in Paths, create \in BOOLEAN : Len(mounts) = RIV_MOUNTS_MAX /\ OpenLookup(p, path, create)
       \/ \E p \in Procs : OpenCreate(p) \/ WriteTest(p) \/ WriteStore(p) \/ \E append \in BOOLEAN : OpenFd(p, append)
       \/ \E p \in Procs, d \in 1 .. RIV_FILES_MAX :
              \/ riv_vfs_close(p, d)
              \/ \E n \in reads : riv_vfs_read(p, d, n)
              \/ \E n \in writes : WriteCopy(p, d, n)
              \/ \E s \in seeks : riv_vfs_lseek(p, d, s[1], s[2])
       \/ \E fs \in Systems, i \in Inodes : ram[fs][i].used /\ _ramfs_unlink(fs, ram[fs][i].name)

VfsSpec(reads, writes, seeks) == VfsInit /\ [][VfsNext(reads, writes, seeks)]_vfs_vars

-----------------------------------------------------------------------------
\* Every byte that can be read from a file was written to that file, not to an
\* earlier one in the same slot or through a descriptor of another; also while
\* writes of several processes interleave.  Two things break it: a write beyond
\* the end leaves a hole with old data, and a descriptor survives the unlink of
\* its file into the next one of the slot.
OwnBytes ==
    \A fs \in Systems, i \in Inodes : LET f == ram[fs][i] IN
        f.used /\ f.id \notin odd => \A b \in 0 .. f.size - 1 : f.data[b] = f.id

\* A name is in the table of a file system once, unless two opens looked it up
\* before either created it, or it was too long to be stored whole.
NamesUnique ==
    raced \/ cut \/ \A fs \in Systems, i, j \in Inodes :
        i # j /\ ram[fs][i].used /\ ram[fs][j].used => ram[fs][i].name # ram[fs][j].name

\* _ramfs_write falls outside the data of its file only where offset and length
\* wrap around riv_u32; size stays inside.
WritesInside ==
    /\ ~astray
    /\ \A fs \in Systems, i \in Inodes : ram[fs][i].size <= RAMFS_MAX_DATA

\* Up to the first write whose offset and length wrap, which lands outside its
\* file and of whose effect nothing is said: open, write, seek and unlink by
\* several processes keep files apart, in their bytes (but for holes and for
\* descriptors that outlive their file), in their names (but for two creations
\* at once and for names cut short) and in their extent.
FilesApart == WritesInside /\ (wild \/ (OwnBytes /\ NamesUnique))
=============================================================================
