----------------------------- MODULE FileProofs -----------------------------
(***************************************************************************)
(* Proofs about the files of ramfs.h behind vfs.h.                         *)
(***************************************************************************)
EXTENDS Vfs, WellFoundedInduction, TLAPS

\* A set of natural numbers that is not empty has a least element.
LEMMA LeastOfNat ==
    ASSUME NEW T, T \subseteq Nat, T # {}
    PROVE  \E x \in T : \A y \in T : x <= y
<1> DEFINE R == {p \in Nat \X Nat : p[1] < p[2]}
<1>1. IsWellFoundedOn(R, Nat) BY NatLessThanWellFounded, Zenon DEF OpToRel
<1> HIDE DEF R
<1>2. PICK x \in T : \A y \in T : ~(<<y, x>> \in R) BY <1>1, WFMin, Zenon
<1>3. ASSUME NEW y \in T PROVE x <= y
  <2>1. ~(<<y, x>> \in R) BY <1>2, Zenon
  <2>2. y < x => <<y, x>> \in R BY Zenon DEF R
  <2> QED BY <2>1, <2>2
<1> QED BY <1>3, Zenon

\* Min is that element.
LEMMA MinOfNat ==
    ASSUME NEW T, T \subseteq Nat, T # {}
    PROVE  Min(T) \in T /\ \A y \in T : Min(T) <= y
BY LeastOfNat, Zenon DEF Min

-----------------------------------------------------------------------------
(* Files.                                                                  *)

Descriptors == 1 .. RIV_FILES_MAX
Offsets == 0 .. FILE_MOD - 1

Inode == [used : BOOLEAN, name : Seq(STRING), size : 0 .. RAMFS_MAX_DATA,
          data : [0 .. RAMFS_MAX_DATA - 1 -> Nat], id : Nat]

Descriptor == [used : BOOLEAN, fs : Systems \cup {0}, slot : Inodes \cup {0}, at : Offsets, id : Nat]

Opening == {NotOpening} \cup [step : {"fd"}, fs : Systems, slot : Inodes]
                       \cup [step : {"create"}, fs : Systems, rel : Seq(STRING)]

Writing == [step : {"none", "test", "store"}, d : Nat, end : 0 .. RAMFS_MAX_DATA]

VfsTypeOK ==
    /\ mounts \in Seq([point : Seq(STRING), fs : Systems])
    /\ ram \in [Systems -> [Inodes -> Inode]]
    /\ fds \in [Procs -> [Descriptors -> Descriptor]]
    /\ \A p \in Procs, d \in Descriptors : fds[p][d].used => fds[p][d].fs \in Systems /\ fds[p][d].slot \in Inodes
    /\ opening \in [Procs -> Opening]
    /\ writing \in [Procs -> Writing]
    /\ files_made \in Nat

\* A descriptor writes with the id of the file in its slot, or that file is known
\* to have been made under it.
DescriptorInv ==
    \A p \in Procs, d \in Descriptors :
        fds[p][d].used => LET f == ram[fds[p][d].fs][fds[p][d].slot] IN fds[p][d].id = f.id \/ f.id \in odd

\* Whoever is about to create a name has it to itself.
CreateInv ==
    raced \/ cut \/ \A p \in Procs : opening[p].step = "create" =>
        \A i \in Inodes : ram[opening[p].fs][i].used => ram[opening[p].fs][i].name # opening[p].rel

\* The first n bytes of a file are its own.
Owns(f, n) == f.used /\ f.id \notin odd => \A b \in 0 .. n - 1 : f.data[b] = f.id

\* While a write has yet to store size, the bytes up to its end are the file's own.
WriteOf(p) ==
    writing[p].step # "none" =>
        /\ writing[p].d \in Descriptors /\ fds[p][writing[p].d].used
        /\ Owns(ram[fds[p][writing[p].d].fs][fds[p][writing[p].d].slot], writing[p].end)

WriteInv == \A p \in Procs : WriteOf(p)

\* What FilesApart says, with nothing excused: a write outside its file is the
\* last step of a behaviour, and the model leaves the files alone in it.
Apart == OwnBytes /\ NamesUnique /\ WritesInside

VfsInv == VfsTypeOK /\ DescriptorInv /\ CreateInv /\ WriteInv /\ Apart

\* The shapes of an open in progress.
LEMMA OpeningShapes == ASSUME NEW o \in Opening
                       PROVE  /\ o.step = "fd" => o.fs \in Systems /\ o.slot \in Inodes
                              /\ o.step = "create" => /\ o.fs \in Systems /\ o.rel \in Seq(STRING)
                                                      /\ o = [step |-> "create", fs |-> o.fs, rel |-> o.rel]
<1>1. CASE o = NotOpening BY <1>1, Zenon DEF NotOpening
<1>2. CASE o \in [step : {"fd"}, fs : Systems, slot : Inodes] BY <1>2, Zenon
<1>3. CASE o \in [step : {"create"}, fs : Systems, rel : Seq(STRING)] BY <1>3, Zenon
<1> QED BY <1>1, <1>2, <1>3, Zenon DEF Opening

\* Inodes are numbered from 1.
LEMMA InodesNat == Inodes \subseteq Nat /\ 0 \notin Inodes
BY VfsAssumption DEF Inodes

\* An element of a sequence and its place.
LEMMA ElementOfSeq ==
    ASSUME NEW S, NEW s \in Seq(S), NEW i \in DOMAIN s
    PROVE  i \in Nat /\ Len(s) - i \in Nat /\ s[i] \in S
<1>1. DOMAIN s = 1 .. Len(s) /\ Len(s) \in Nat OBVIOUS
<1> QED BY <1>1

\* One element more.
LEMMA AppendIsSeq ==
    ASSUME NEW S, NEW s \in Seq(S), NEW x \in S
    PROVE  Append(s, x) \in Seq(S)
OBVIOUS

\* A part of a text is a text.
LEMMA PartOfText == ASSUME NEW s \in Seq(STRING), NEW m \in Nat \ {0}, NEW n \in Nat, n <= Len(s)
                    PROVE  SubSeq(s, m, n) \in Seq(STRING)
OBVIOUS

\* The whole of a text.
LEMMA WholeText == ASSUME NEW s \in Seq(STRING) PROVE SubSeq(s, 1, Len(s)) = s
OBVIOUS

\* A text without its first character.
LEMMA RestOfText ==
    ASSUME NEW s \in Seq(STRING), s # <<>>
    PROVE  Tail(s) \in Seq(STRING)
OBVIOUS

\* The lesser of two numbers.
LEMMA MinOfTwo ==
    ASSUME NEW a \in Int, NEW b \in Int
    PROVE  Min({a, b}) = IF a <= b THEN a ELSE b
<1> DEFINE m == IF a <= b THEN a ELSE b
<1>1. m \in {a, b} /\ \A y \in {a, b} : m <= y OBVIOUS
<1>2. \A x \in {a, b} : (\A y \in {a, b} : x <= y) => x = m OBVIOUS
<1> QED BY <1>1, <1>2, Zenon DEF Min

\* The copy of a name is a text, and the name itself when it has room.
LEMMA StrlcpyCopies == ASSUME NEW s \in Seq(STRING)
                       PROVE  /\ riv_strlcpy(s, RIV_PATH_MAX) \in Seq(STRING)
                              /\ Len(s) < RIV_PATH_MAX => riv_strlcpy(s, RIV_PATH_MAX) = s
<1>1. Len(s) \in Nat /\ RIV_PATH_MAX - 1 \in Nat BY VfsAssumption
<1>2. Min({Len(s), RIV_PATH_MAX - 1}) = IF Len(s) <= RIV_PATH_MAX - 1 THEN Len(s) ELSE RIV_PATH_MAX - 1 BY <1>1, MinOfTwo
<1>3. CASE Len(s) <= RIV_PATH_MAX - 1
  <2>1. riv_strlcpy(s, RIV_PATH_MAX) = SubSeq(s, 1, Len(s)) BY <1>2, <1>3, Zenon DEF riv_strlcpy
  <2> QED BY <2>1, WholeText, Zenon
<1>4. CASE ~(Len(s) <= RIV_PATH_MAX - 1)
  <2>1. riv_strlcpy(s, RIV_PATH_MAX) = SubSeq(s, 1, RIV_PATH_MAX - 1) BY <1>2, <1>4, Zenon DEF riv_strlcpy
  <2>2. SubSeq(s, 1, RIV_PATH_MAX - 1) \in Seq(STRING) BY <1>1, <1>4, PartOfText
  <2>3. ~(Len(s) < RIV_PATH_MAX) BY <1>1, <1>4, VfsAssumption
  <2> QED BY <2>1, <2>2, <2>3, Zenon
<1> QED BY <1>3, <1>4, Zenon

\* _riv_match_mount leads to a file system and a text.
LEMMA MatchType == ASSUME VfsTypeOK, NEW path \in Seq(STRING), NEW m \in _riv_match_mount(path)
                   PROVE  m.fs \in Systems /\ m.rel \in Seq(STRING)
<1> DEFINE length(i) == Len(mounts[i].point)
           fit == {i \in DOMAIN mounts : LET n == Len(mounts[i].point) IN n <= Len(path) /\ mounts[i].point = SubSeq(path, 1, n)}
           Best(i) == \A j \in fit : Len(mounts[j].point) < Len(mounts[i].point) \/ (Len(mounts[j].point) = Len(mounts[i].point) /\ j <= i)
           best == CHOOSE i \in fit : Best(i)
           rest == SubSeq(path, Len(mounts[best].point) + 1, Len(path))
<1>1. /\ fit # {}
      /\ m = [fs |-> mounts[best].fs, rel |-> IF rest # <<>> /\ rest[1] = "/" THEN Tail(rest) ELSE rest]
  BY Zenon DEF _riv_match_mount
<1>2. \A i \in fit : /\ i \in Nat /\ Len(mounts) - i \in Nat /\ mounts[i].fs \in Systems
                     /\ length(i) \in Nat /\ Len(path) - length(i) \in Nat
  <2> TAKE i \in fit
  <2>1. i \in DOMAIN mounts /\ length(i) <= Len(path) BY Zenon
  <2>2. mounts \in Seq([point : Seq(STRING), fs : Systems]) BY Zenon DEF VfsTypeOK
  <2>3. i \in Nat /\ Len(mounts) - i \in Nat /\ mounts[i] \in [point : Seq(STRING), fs : Systems] BY <2>1, <2>2, ElementOfSeq, Zenon
  <2>4. length(i) \in Nat BY <2>3
  <2> QED BY <2>1, <2>3, <2>4
<1>3. best \in fit
  <2> DEFINE L == {Len(path) - length(i) : i \in fit}
  <2>1. L \subseteq Nat /\ L # {} BY <1>1, <1>2, Zenon
  <2>2. PICK l \in L : \A k \in L : l <= k BY <2>1, LeastOfNat, Zenon
  <2> DEFINE R == {Len(mounts) - i : i \in {j \in fit : Len(path) - length(j) = l}}
  <2>3. R \subseteq Nat /\ R # {} BY <1>2, <2>2, Zenon
  <2>4. PICK r \in R : \A k \in R : r <= k BY <2>3, LeastOfNat, Zenon
  <2>5. PICK i \in fit : Len(path) - length(i) = l /\ r = Len(mounts) - i BY <2>4, Zenon
  <2>6. Best(i)
    <3> SUFFICES ASSUME NEW j \in fit PROVE length(j) < length(i) \/ (length(j) = length(i) /\ j <= i) BY Zenon
    <3>1. l <= Len(path) - length(j) BY <2>2, Zenon
    <3>2. Len(path) - length(j) = l => r <= Len(mounts) - j BY <2>4, Zenon
    <3>3. Len(path) \in Nat /\ Len(mounts) \in Nat BY SMTT(30) DEF VfsTypeOK
    <3> HIDE DEF fit, length, L, R
    <3> QED BY <3>1, <3>2, <3>3, <2>5, <1>2
  <2> HIDE DEF Best, fit
  <2> QED BY <2>6, Zenon
<1>4. Len(mounts[best].point) \in Nat BY <1>2, <1>3, Zenon
<1> HIDE DEF best, fit, Best
<1>5. rest \in Seq(STRING) BY <1>4, PartOfText
<1> HIDE DEF rest
<1>6. rest # <<>> => Tail(rest) \in Seq(STRING) BY <1>5, RestOfText, Zenon
<1> QED BY <1>1, <1>2, <1>3, <1>5, <1>6, Zenon

\* Steps that leave the files alone.
LEMMA FilesUntouched ==
    ASSUME Apart, UNCHANGED <<ram, raced, cut, odd, astray>>
    PROVE  Apart'
BY DEF Apart, OwnBytes, NamesUnique, WritesInside

\* Steps that leave the files and the writes in progress alone.
LEMMA WritesUntouched ==
    ASSUME WriteInv, UNCHANGED <<ram, fds, writing, odd>>
    PROVE  WriteInv'
BY Zenon DEF WriteInv, WriteOf, Owns

\* No file systems and no files.
LEMMA VfsInitInv == ASSUME VfsInit PROVE VfsInv
<1>1. VfsTypeOK
  <2>1. ram \in [Systems -> [Inodes -> Inode]]
    <3>1. [b \in 0 .. RAMFS_MAX_DATA - 1 |-> 0] \in [0 .. RAMFS_MAX_DATA - 1 -> Nat] BY Zenon
    <3>2. <<>> \in Seq(STRING) OBVIOUS
    <3>3. [used |-> FALSE, name |-> <<>>, size |-> 0, data |-> [b \in 0 .. RAMFS_MAX_DATA - 1 |-> 0], id |-> 0] \in Inode
      BY <3>1, <3>2, VfsAssumption DEF Inode
    <3> QED BY <3>3, Zenon DEF VfsInit
  <2>2. NoFd \in Descriptor BY VfsAssumption DEF NoFd, Descriptor, Offsets
  <2>3. fds \in [Procs -> [Descriptors -> Descriptor]] BY <2>2, Zenon DEF VfsInit, Descriptors
  <2>4. \A p \in Procs, d \in Descriptors : ~fds[p][d].used BY Zenon DEF VfsInit, Descriptors, NoFd
  <2>5. opening \in [Procs -> Opening] BY Zenon DEF VfsInit, Opening
  <2>6. mounts \in Seq([point : Seq(STRING), fs : Systems]) BY DEF VfsInit
  <2>7. NotWriting \in Writing BY VfsAssumption DEF NotWriting, Writing
  <2>8. writing \in [Procs -> Writing] BY <2>7, Zenon DEF VfsInit
  <2> QED BY <2>1, <2>3, <2>4, <2>5, <2>6, <2>8, Zenon DEF VfsInit, VfsTypeOK
<1>2. DescriptorInv BY Zenon DEF VfsInit, DescriptorInv, Descriptors, NoFd
<1>3. CreateInv BY Zenon DEF VfsInit, CreateInv, NotOpening
<1>6. WriteInv BY Zenon DEF VfsInit, WriteInv, WriteOf, Owns, NotWriting
<1>4. \A fs \in Systems, i \in Inodes : ~ram[fs][i].used /\ ram[fs][i].size = 0 BY Zenon DEF VfsInit
<1>5. Apart BY <1>4, VfsAssumption DEF VfsInit, Apart, OwnBytes, NamesUnique, WritesInside
<1> QED BY <1>1, <1>2, <1>3, <1>5, <1>6, Zenon DEF VfsInv

\* riv_mount_fs.
LEMMA MountInv ==
    ASSUME VfsInv, NEW point \in Seq(STRING), NEW fs \in Systems,
           riv_mount_fs(point, fs)
    PROVE  VfsInv'
<1>1. mounts' \in Seq([point : Seq(STRING), fs : Systems])
  <2>1. [point |-> riv_strlcpy(point, RIV_PATH_MAX), fs |-> fs] \in [point : Seq(STRING), fs : Systems] BY StrlcpyCopies, Zenon
  <2>2. mounts \in Seq([point : Seq(STRING), fs : Systems]) BY Zenon DEF VfsInv, VfsTypeOK
  <2>3. Append(mounts, [point |-> riv_strlcpy(point, RIV_PATH_MAX), fs |-> fs]) \in Seq([point : Seq(STRING), fs : Systems])
    BY <2>1, <2>2, AppendIsSeq, Zenon
  <2> QED BY <2>2, <2>3, Zenon DEF riv_mount_fs
<1>2. UNCHANGED <<ram, fds, opening, writing, files_made, raced, cut, odd, astray>> BY Zenon DEF riv_mount_fs
<1>3. VfsTypeOK' BY <1>1, <1>2, Zenon DEF VfsInv, VfsTypeOK
<1>4. DescriptorInv' /\ CreateInv' BY <1>2, Zenon DEF VfsInv, DescriptorInv, CreateInv
<1> QED BY <1>2, <1>3, <1>4, FilesUntouched, WritesUntouched, Zenon DEF VfsInv

\* riv_vfs_open finds its file, or finds that it has to create it.
LEMMA OpenLookupInv == ASSUME VfsInv, NEW p \in Procs, NEW path \in Paths, NEW create \in BOOLEAN, OpenLookup(p, path, create)
                       PROVE  VfsInv'
<1>1. PICK m \in _riv_match_mount(path) :
          LET found == _ramfs_lookup(m.fs, m.rel)
          IN  \/ found # {} /\ opening' = [opening EXCEPT ![p] = [step |-> "fd", fs |-> m.fs, slot |-> Min(found)]]
              \/ found = {} /\ opening' = [opening EXCEPT ![p] = [step |-> "create", fs |-> m.fs, rel |-> m.rel]]
  BY Zenon DEF OpenLookup
<1>2. UNCHANGED <<mounts, vfs_hung, ram, fds, writing, files_made, raced, cut, odd, astray>> BY Zenon DEF OpenLookup
<1>3. m.fs \in Systems /\ m.rel \in Seq(STRING) BY VfsAssumption, MatchType, Zenon DEF VfsInv
<1>4. PICK o \in Opening : /\ opening' = [opening EXCEPT ![p] = o]
                           /\ o.step = "create" => \A i \in Inodes : ram[o.fs][i].used => ram[o.fs][i].name # o.rel
  <2>1. CASE _ramfs_lookup(m.fs, m.rel) # {}
    <3> DEFINE o == [step |-> "fd", fs |-> m.fs, slot |-> Min(_ramfs_lookup(m.fs, m.rel))]
    <3>1. _ramfs_lookup(m.fs, m.rel) \subseteq Inodes BY Zenon DEF _ramfs_lookup
    <3>2. Min(_ramfs_lookup(m.fs, m.rel)) \in Inodes BY <2>1, <3>1, InodesNat, MinOfNat, Zenon
    <3>3. o \in Opening /\ o.step # "create" BY <1>3, <3>2, Zenon DEF Opening
    <3>4. opening' = [opening EXCEPT ![p] = o] BY <1>1, <2>1, Zenon
    <3> HIDE DEF o
    <3> QED BY <3>3, <3>4, Zenon
  <2>2. CASE _ramfs_lookup(m.fs, m.rel) = {}
    <3> DEFINE o == [step |-> "create", fs |-> m.fs, rel |-> m.rel]
    <3>1. o \in Opening BY <1>3, Zenon DEF Opening
    <3>2. opening' = [opening EXCEPT ![p] = o] BY <1>1, <2>2, Zenon
    <3>3. \A i \in Inodes : ram[o.fs][i].used => ram[o.fs][i].name # o.rel BY <2>2, Zenon DEF _ramfs_lookup
    <3> HIDE DEF o
    <3> QED BY <3>1, <3>2, <3>3, Zenon
  <2> QED BY <2>1, <2>2, Zenon
<1>5. VfsTypeOK' BY <1>2, <1>4, SMTT(30) DEF VfsInv, VfsTypeOK
<1>6. DescriptorInv' BY <1>2, SMTT(30) DEF VfsInv, DescriptorInv
<1>7. CreateInv'
  <2>1. \A q \in Procs : opening'[q] = IF q = p THEN o ELSE opening[q] BY <1>4, Zenon DEF VfsInv, VfsTypeOK
  <2> QED BY <2>1, <1>2, <1>4 DEF VfsInv, CreateInv
<1> QED BY <1>2, <1>5, <1>6, <1>7, FilesUntouched, WritesUntouched, Zenon DEF VfsInv

\* It creates the file.
LEMMA OpenCreateInv ==
    ASSUME VfsInv, NEW p \in Procs, OpenCreate(p)
    PROVE  VfsInv'
<1> DEFINE o == opening[p]
           unused == {i \in Inodes : ~ram[o.fs][i].used}
<1>1. PICK fs \in Systems, rel \in Seq(STRING) : o = [step |-> "create", fs |-> fs, rel |-> rel]
  <2>1. o \in Opening /\ o.step = "create" BY Zenon DEF VfsInv, VfsTypeOK, OpenCreate
  <2> QED BY <2>1, OpeningShapes, Zenon
<1>2. UNCHANGED <<mounts, fds, writing, astray>> BY Zenon DEF OpenCreate
<1>3. CASE unused = {}
  <2>1. opening' = [opening EXCEPT ![p] = NotOpening] /\ UNCHANGED <<ram, files_made, raced, cut, odd>> BY <1>3, Zenon DEF OpenCreate
  <2>2. VfsTypeOK' BY <1>2, <2>1, SMTT(30) DEF VfsInv, VfsTypeOK, Opening
  <2>3. DescriptorInv' BY <1>2, <2>1, Zenon DEF VfsInv, DescriptorInv
  <2>4. \A q \in Procs : opening'[q] = IF q = p THEN NotOpening ELSE opening[q] BY <2>1, SMTT(30) DEF VfsInv, VfsTypeOK
  <2>5. CreateInv' BY <1>2, <2>1, <2>4 DEF VfsInv, CreateInv, NotOpening
  <2> QED BY <1>2, <2>1, <2>2, <2>3, <2>5, FilesUntouched, WritesUntouched, Zenon DEF VfsInv
<1>4. CASE unused # {}
  <2>1. PICK i \in Inodes : i = Min(unused) /\ ~ram[fs][i].used
    <3>1. unused \subseteq Nat BY InodesNat, Zenon
    <3>2. Min(unused) \in unused BY <1>4, <3>1, MinOfNat, Zenon
    <3>3. Min(unused) \in Inodes /\ ~ram[o.fs][Min(unused)].used BY <3>2, Zenon
    <3>4. o.fs = fs BY <1>1
    <3> HIDE DEF unused, o
    <3> QED BY <3>3, <3>4, Zenon
  <2> DEFINE name == riv_strlcpy(rel, RIV_PATH_MAX)
             id == files_made + 1
  <2>2. /\ ram' = [ram EXCEPT ![fs][i] = [@ EXCEPT !.used = TRUE, !.name = name, !.size = 0, !.id = id]]
        /\ files_made' = id
        /\ raced' = (raced \/ \E q \in Procs \ {p} : opening[q] = opening[p])
        /\ cut' = (cut \/ Len(rel) >= RIV_PATH_MAX)
        /\ odd' = IF Stale(fs, i) THEN odd \cup {id} ELSE odd
        /\ opening' = [opening EXCEPT ![p] = [step |-> "fd", fs |-> fs, slot |-> i]]
    BY <1>1, <1>4, <2>1 DEF OpenCreate, _ramfs_create
  <2>3. name \in Seq(STRING) /\ (Len(rel) < RIV_PATH_MAX => name = rel) BY StrlcpyCopies, Zenon
  <2>4. id \in Nat BY DEF VfsInv, VfsTypeOK
  <2> HIDE DEF o, unused, name, id
  <2>5. /\ \A g \in Systems, j \in Inodes : ~(g = fs /\ j = i) => ram'[g][j] = ram[g][j]
        /\ ram'[fs][i] = [ram[fs][i] EXCEPT !.used = TRUE, !.name = name, !.size = 0, !.id = id]
    BY <2>2, Zenon DEF VfsInv, VfsTypeOK
  <2>6. ram[fs][i] \in Inode BY Zenon DEF VfsInv, VfsTypeOK
  <2>7. /\ ram'[fs][i] \in Inode /\ ram'[fs][i].used /\ ram'[fs][i].name = name
        /\ ram'[fs][i].size = 0 /\ ram'[fs][i].id = id
    <3>1. 0 \in 0 .. RAMFS_MAX_DATA BY VfsAssumption
    <3>2. \A f \in Inode : LET g == [f EXCEPT !.used = TRUE, !.name = name, !.size = 0, !.id = id]
                           IN  g \in Inode /\ g.used /\ g.name = name /\ g.size = 0 /\ g.id = id
      BY <3>1, <2>3, <2>4, Zenon DEF Inode
    <3> QED BY <3>2, <2>5, <2>6, Zenon
  <2>8. VfsTypeOK'
    <3>1. ram' \in [Systems -> [Inodes -> Inode]] BY <2>2, <2>5, <2>7 DEF VfsInv, VfsTypeOK
    <3>2. opening' \in [Procs -> Opening]
      <4>1. [step |-> "fd", fs |-> fs, slot |-> i] \in Opening BY SMTT(30) DEF Opening
      <4> QED BY <2>2, <4>1, Zenon DEF VfsInv, VfsTypeOK
    <3> QED BY <1>2, <2>2, <2>4, <3>1, <3>2, Zenon DEF VfsInv, VfsTypeOK
  <2>9. DescriptorInv'
    <3>1. ASSUME NEW q \in Procs, NEW d \in Descriptors, fds[q][d].used
          PROVE  fds[q][d].id = ram'[fds[q][d].fs][fds[q][d].slot].id \/ ram'[fds[q][d].fs][fds[q][d].slot].id \in odd'
      <4>1. fds[q][d].fs \in Systems /\ fds[q][d].slot \in Inodes BY <3>1, Zenon DEF VfsInv, VfsTypeOK
      <4>2. CASE fds[q][d].fs = fs /\ fds[q][d].slot = i
        <5>1. Stale(fs, i) BY <3>1, <4>2, SMTT(30) DEF Stale, Descriptors
        <5> QED BY <4>2, <5>1, <2>2, <2>7
      <4>3. CASE ~(fds[q][d].fs = fs /\ fds[q][d].slot = i)
        <5>1. ram'[fds[q][d].fs][fds[q][d].slot] = ram[fds[q][d].fs][fds[q][d].slot] BY <4>1, <4>3, <2>5, SMTT(30)
        <5>2. fds[q][d].id = ram[fds[q][d].fs][fds[q][d].slot].id \/ ram[fds[q][d].fs][fds[q][d].slot].id \in odd
          BY <3>1, Zenon DEF VfsInv, DescriptorInv
        <5>3. odd \subseteq odd' BY <2>2, Zenon
        <5> QED BY <5>1, <5>2, <5>3, Zenon
      <4> QED BY <4>2, <4>3, Zenon
    <3> QED BY <3>1, <1>2, SMTT(30) DEF DescriptorInv
  <2>10. ASSUME ~raced', ~cut' PROVE ~raced /\ ~cut /\ name = rel /\ \A q \in Procs \ {p} : opening[q] # opening[p]
    <3>1. ~raced /\ ~cut /\ ~(Len(rel) >= RIV_PATH_MAX) /\ \A q \in Procs \ {p} : opening[q] # opening[p] BY <2>2, <2>10, Zenon
    <3>2. Len(rel) \in Nat OBVIOUS
    <3> QED BY <3>1, <3>2, <2>3, VfsAssumption
  <2>11. CreateInv'
    <3>1. SUFFICES ASSUME ~raced', ~cut', NEW q \in Procs, opening'[q].step = "create", NEW j \in Inodes, ram'[opening'[q].fs][j].used
                   PROVE  ram'[opening'[q].fs][j].name # opening'[q].rel
      BY Zenon DEF CreateInv
    <3>2. q # p /\ opening'[q] = opening[q] BY <3>1, <2>2, Zenon DEF VfsInv, VfsTypeOK
    <3>3. /\ opening[q].fs \in Systems /\ opening[q] = [step |-> "create", fs |-> opening[q].fs, rel |-> opening[q].rel]
      BY <3>1, <3>2, OpeningShapes, Zenon DEF VfsInv, VfsTypeOK
    <3>4. CASE opening[q].fs = fs /\ j = i
      <4>1. opening[q].rel # rel BY <3>1, <3>2, <3>3, <3>4, <1>1, <2>10, Zenon DEF o
      <4> QED BY <3>1, <3>2, <3>4, <4>1, <2>7, <2>10, Zenon
    <3>5. CASE ~(opening[q].fs = fs /\ j = i)
      <4>1. ram'[opening[q].fs][j] = ram[opening[q].fs][j] BY <3>3, <3>5, <2>5, Zenon
      <4> QED BY <4>1, <3>1, <3>2, <2>10, Zenon DEF VfsInv, CreateInv
    <3> QED BY <3>4, <3>5, Zenon
  <2>12. OwnBytes'
    <3>1. SUFFICES ASSUME NEW g \in Systems, NEW j \in Inodes, ram'[g][j].used, ram'[g][j].id \notin odd', NEW b \in 0 .. ram'[g][j].size - 1
                   PROVE  ram'[g][j].data[b] = ram'[g][j].id
      BY Zenon DEF OwnBytes
    <3>2. CASE g = fs /\ j = i BY <3>1, <3>2, <2>7
    <3>3. CASE ~(g = fs /\ j = i) BY <3>1, <3>3, <2>2, <2>5 DEF VfsInv, Apart, OwnBytes
    <3> QED BY <3>2, <3>3, Zenon
  <2>13. NamesUnique'
    <3>1. SUFFICES ASSUME ~raced', ~cut', NEW g \in Systems, NEW j \in Inodes, NEW k \in Inodes, j # k, ram'[g][j].used, ram'[g][k].used
                   PROVE  ram'[g][j].name # ram'[g][k].name
      BY Zenon DEF NamesUnique
    <3>2. \A l \in Inodes : ram[fs][l].used => ram[fs][l].name # rel BY <3>1, <2>10, <1>1 DEF o, VfsInv, CreateInv
    <3>3. ram[g][j].used /\ ram[g][k].used => ram[g][j].name # ram[g][k].name
      BY <3>1, <2>10, Zenon DEF VfsInv, Apart, NamesUnique
    <3>4. name = rel BY <3>1, <2>10, Zenon
    <3>5. CASE g = fs /\ j = i
      <4>1. ram'[g][k] = ram[g][k] /\ ram'[g][j].name = rel BY <3>1, <3>4, <3>5, <2>5, <2>7, Zenon
      <4> QED BY <3>1, <3>2, <3>5, <4>1, Zenon
    <3>6. CASE g = fs /\ k = i
      <4>1. ram'[g][j] = ram[g][j] /\ ram'[g][k].name = rel BY <3>1, <3>4, <3>6, <2>5, <2>7, Zenon
      <4> QED BY <3>1, <3>2, <3>6, <4>1, Zenon
    <3>7. CASE g # fs \/ (j # i /\ k # i)
      <4>1. ram'[g][j] = ram[g][j] /\ ram'[g][k] = ram[g][k] BY <3>7, <2>5, Zenon
      <4> QED BY <3>1, <3>3, <4>1, Zenon
    <3> QED BY <3>5, <3>6, <3>7, Zenon
  <2>14. WritesInside'
    <3>1. ASSUME NEW g \in Systems, NEW j \in Inodes PROVE ram'[g][j].size <= RAMFS_MAX_DATA
      <4>1. CASE g = fs /\ j = i BY <4>1, <2>7, VfsAssumption
      <4>2. CASE ~(g = fs /\ j = i) BY <4>2, <2>5, Zenon DEF VfsInv, Apart, WritesInside
      <4> QED BY <4>1, <4>2, Zenon
    <3> QED BY <3>1, <1>2, Zenon DEF VfsInv, Apart, WritesInside
  <2>15. WriteInv'
    <3>1. SUFFICES ASSUME NEW q \in Procs, writing[q].step # "none"
                   PROVE  /\ writing[q].d \in Descriptors /\ fds[q][writing[q].d].used
                          /\ LET h == ram'[fds[q][writing[q].d].fs][fds[q][writing[q].d].slot]
                             IN  h.used /\ h.id \notin odd' => \A b \in 0 .. writing[q].end - 1 : h.data[b] = h.id
      BY <1>2, Zenon DEF WriteInv, WriteOf, Owns
    <3>2. PICK d : d = writing[q].d BY Zenon
    <3>3. d \in Descriptors /\ fds[q][d].used BY <3>1, <3>2, Zenon DEF VfsInv, WriteInv, WriteOf, Owns
    <3>4. fds[q][d].fs \in Systems /\ fds[q][d].slot \in Inodes BY <3>3, Zenon DEF VfsInv, VfsTypeOK
    <3>5. CASE fds[q][d].fs = fs /\ fds[q][d].slot = i
      <4>1. Stale(fs, i) BY <3>3, <3>5, SMTT(30) DEF Stale, Descriptors
      <4> QED BY <3>2, <3>3, <3>5, <4>1, <2>2, <2>7
    <3>6. CASE ~(fds[q][d].fs = fs /\ fds[q][d].slot = i)
      <4>1. ram'[fds[q][d].fs][fds[q][d].slot] = ram[fds[q][d].fs][fds[q][d].slot] BY <3>4, <3>6, <2>5, SMTT(30)
      <4>2. odd \subseteq odd' BY <2>2, Zenon
      <4>3. LET h == ram[fds[q][d].fs][fds[q][d].slot]
            IN  h.used /\ h.id \notin odd => \A b \in 0 .. writing[q].end - 1 : h.data[b] = h.id
        BY <3>1, <3>2, Zenon DEF VfsInv, WriteInv, WriteOf, Owns
      <4> QED BY <3>2, <3>3, <4>1, <4>2, <4>3, Zenon
    <3> QED BY <3>5, <3>6, Zenon
  <2> QED BY <2>8, <2>9, <2>11, <2>12, <2>13, <2>14, <2>15, Zenon DEF VfsInv, Apart
<1> QED BY <1>3, <1>4, Zenon

\* A descriptor that is as DescriptorInv wants it.
Fits(f) ==
    /\ f \in Descriptor
    /\ f.used => /\ f.fs \in Systems /\ f.slot \in Inodes
                 /\ f.id = ram[f.fs][f.slot].id \/ ram[f.fs][f.slot].id \in odd

\* Steps that change one descriptor and may end an open.
LEMMA DescriptorStep ==
    ASSUME VfsInv, NEW p \in Procs, NEW d \in Descriptors, NEW f, Fits(f), fds' = [fds EXCEPT ![p][d] = f],
           opening' = opening \/ opening' = [opening EXCEPT ![p] = NotOpening],
           ~fds[p][d].used \/ writing[p].step = "none",
           UNCHANGED <<mounts, ram, writing, files_made, raced, cut, odd, astray>>
    PROVE  VfsInv'
<1>1. \A q \in Procs, e \in Descriptors : fds'[q][e] = IF q = p /\ e = d THEN f ELSE fds[q][e] BY Zenon DEF VfsInv, VfsTypeOK
<1>2. fds' \in [Procs -> [Descriptors -> Descriptor]] BY Zenon DEF VfsInv, VfsTypeOK, Fits
<1>3. opening' \in [Procs -> Opening] BY ZenonT(40) DEF VfsInv, VfsTypeOK, Opening
<1>4. VfsTypeOK'
  <2>1. \A q \in Procs, e \in Descriptors : fds'[q][e].used => fds'[q][e].fs \in Systems /\ fds'[q][e].slot \in Inodes
    BY <1>1 DEF VfsInv, VfsTypeOK, Fits
  <2> QED BY <1>2, <1>3, <2>1, Zenon DEF VfsInv, VfsTypeOK
<1>5. DescriptorInv'
  <2> SUFFICES ASSUME NEW q \in Procs, NEW e \in Descriptors, fds'[q][e].used
               PROVE  fds'[q][e].id = ram[fds'[q][e].fs][fds'[q][e].slot].id \/ ram[fds'[q][e].fs][fds'[q][e].slot].id \in odd
    BY ZenonT(40) DEF DescriptorInv
  <2>1. CASE q = p /\ e = d
    <3>1. fds'[q][e] = f BY <2>1, <1>1, SMTT(30)
    <3> QED BY <3>1, Zenon DEF Fits
  <2>2. CASE ~(q = p /\ e = d)
    <3>1. fds'[q][e] = fds[q][e] BY <2>2, <1>1, SMTT(30)
    <3> QED BY <3>1, Zenon DEF VfsInv, DescriptorInv
  <2> QED BY <2>1, <2>2, Zenon
<1>6. CreateInv'
  <2>1. \A q \in Procs : opening'[q] = opening[q] \/ opening'[q] = NotOpening BY Zenon DEF VfsInv, VfsTypeOK
  <2> QED BY <2>1 DEF VfsInv, CreateInv, NotOpening
<1>7. WriteInv'
  <2>1. \A q \in Procs : writing[q].step # "none" => fds'[q][writing[q].d] = fds[q][writing[q].d]
    <3> TAKE q \in Procs
    <3>1. HAVE writing[q].step # "none"
    <3>2. writing[q].d \in Descriptors /\ fds[q][writing[q].d].used BY <3>1, Zenon DEF VfsInv, WriteInv, WriteOf, Owns
    <3>3. ~(q = p /\ writing[q].d = d) BY <3>1, <3>2, Zenon
    <3> QED BY <3>2, <3>3, <1>1, SMTT(30)
  <2>2. ASSUME NEW q \in Procs PROVE WriteOf(q)'
    <3>1. WriteOf(q) BY Zenon DEF VfsInv, WriteInv, WriteOf, Owns
    <3>2. CASE writing[q].step = "none" BY <3>2, Zenon DEF WriteOf
    <3>3. CASE writing[q].step # "none"
      <4>1. PICK c : c = fds[q][writing[q].d] BY Zenon
      <4>2. writing[q].d \in Descriptors /\ c.used /\ Owns(ram[c.fs][c.slot], writing[q].end) BY <3>1, <3>3, <4>1, Zenon DEF WriteOf
      <4>3. Owns(ram[c.fs][c.slot], writing[q].end)' BY <4>2, Zenon DEF Owns
      <4>4. fds'[q][writing[q].d] = c BY <2>1, <3>3, <4>1, Zenon
      <4> QED BY <4>2, <4>3, <4>4, Zenon DEF WriteOf, Owns
    <3> QED BY <3>2, <3>3, Zenon
  <2> QED BY <2>2, Zenon DEF WriteInv, WriteOf, Owns
<1> QED BY <1>4, <1>5, <1>6, <1>7, FilesUntouched, Zenon DEF VfsInv

\* It takes a descriptor.
LEMMA OpenFdInv ==
    ASSUME VfsInv, NEW p \in Procs, NEW append \in BOOLEAN, OpenFd(p, append)
    PROVE  VfsInv'
<1> DEFINE o == opening[p]
           free == riv_file_alloc_fd(p)
           ino == ram[o.fs][o.slot]
           f == [used |-> TRUE, fs |-> o.fs, slot |-> o.slot, id |-> ino.id, at |-> IF append THEN ino.size ELSE 0]
<1>1. o.fs \in Systems /\ o.slot \in Inodes
  <2>1. o \in Opening /\ o.step = "fd" BY Zenon DEF VfsInv, VfsTypeOK, OpenFd
  <2> QED BY <2>1, OpeningShapes, Zenon
<1>2. ino \in Inode BY <1>1, Zenon DEF VfsInv, VfsTypeOK
<1>3. /\ opening' = [opening EXCEPT ![p] = NotOpening]
      /\ fds' = IF free = {} THEN fds ELSE [fds EXCEPT ![p][Min(free)] = f]
      /\ UNCHANGED <<mounts, ram, writing, files_made, raced, cut, odd, astray>>
  BY Zenon DEF OpenFd
<1>4. CASE free = {}
  <2>1. VfsTypeOK' BY <1>3, <1>4, SMTT(30) DEF VfsInv, VfsTypeOK, Opening
  <2>2. DescriptorInv' BY <1>3, <1>4 DEF VfsInv, DescriptorInv
  <2>3. \A q \in Procs : opening'[q] = opening[q] \/ opening'[q] = NotOpening BY <1>3, SMTT(30) DEF VfsInv, VfsTypeOK
  <2>4. CreateInv' BY <1>3, <2>3 DEF VfsInv, CreateInv, NotOpening
  <2>5. fds' = fds BY <1>3, <1>4, Zenon
  <2> QED BY <1>3, <2>1, <2>2, <2>4, <2>5, FilesUntouched, WritesUntouched, Zenon DEF VfsInv
<1>5. CASE free # {}
  <2>1. free \subseteq Nat /\ free \subseteq Descriptors BY VfsAssumption DEF riv_file_alloc_fd, Descriptors
  <2>2. PICK d \in Descriptors : d = Min(free) /\ d \in free BY <1>5, <2>1, MinOfNat, Zenon
  <2>6. ~fds[p][d].used BY <2>2, Zenon DEF riv_file_alloc_fd
  <2>3. ino.id \in Nat /\ ino.size \in Offsets /\ 0 \in Offsets
    <3>1. ino.id \in Nat /\ ino.size \in 0 .. RAMFS_MAX_DATA BY <1>2, Zenon DEF Inode
    <3> HIDE DEF ino
    <3> QED BY <3>1, VfsAssumption DEF Offsets
  <2>4. Fits(f) BY <1>1, <2>3, Zenon DEF Fits, Descriptor
  <2>5. fds' = [fds EXCEPT ![p][d] = f] BY <1>3, <1>5, <2>2, Zenon
  <2> HIDE DEF f
  <2> QED BY <1>3, <2>4, <2>5, <2>6, DescriptorStep, Zenon
<1> QED BY <1>4, <1>5, Zenon

\* riv_vfs_close.
LEMMA CloseInv ==
    ASSUME VfsInv, NEW p \in Procs, NEW d \in Descriptors,
           riv_vfs_close(p, d)
    PROVE  VfsInv'
<1>1. Fits(NoFd) BY VfsAssumption, SMTT(30) DEF Fits, NoFd, Descriptor, Offsets
<1>2. writing[p].step = "none" BY DEF riv_vfs_close, Free, NotWriting
<1> QED BY <1>1, <1>2, DescriptorStep, Zenon DEF riv_vfs_close

\* A used descriptor that only moves fits.
LEMMA MovedFits == ASSUME VfsInv, NEW p \in Procs, NEW d \in Descriptors, fds[p][d].used, NEW at \in Offsets
                   PROVE  Fits([fds[p][d] EXCEPT !.at = at])
<1>1. fds[p][d] \in Descriptor BY Zenon DEF VfsInv, VfsTypeOK
<1>2. \A f \in Descriptor : LET g == [f EXCEPT !.at = at]
                            IN  g \in Descriptor /\ g.used = f.used /\ g.fs = f.fs /\ g.slot = f.slot /\ g.id = f.id
  BY SMTT(30) DEF Descriptor
<1>3. /\ fds[p][d].fs \in Systems /\ fds[p][d].slot \in Inodes
      /\ fds[p][d].id = ram[fds[p][d].fs][fds[p][d].slot].id \/ ram[fds[p][d].fs][fds[p][d].slot].id \in odd
  BY Zenon DEF VfsInv, VfsTypeOK, DescriptorInv
<1> QED BY <1>1, <1>2, <1>3, Zenon DEF Fits

\* riv_vfs_read.
LEMMA ReadInv ==
    ASSUME VfsInv, NEW p \in Procs, NEW d \in Descriptors, NEW n \in Nat,
           riv_vfs_read(p, d, n)
    PROVE  VfsInv'
<1> DEFINE f == fds[p][d]
           size == ram[f.fs][f.slot].size
           at == f.at + Min({n, size - f.at})
<1>1. /\ f.used /\ f.at < size
      /\ fds' = [fds EXCEPT ![p][d].at = @ + Min({n, size - f.at})]
      /\ writing[p] = NotWriting
      /\ UNCHANGED <<mounts, ram, opening, writing, files_made, raced, cut, odd, astray>>
  BY Zenon DEF riv_vfs_read, Free
<1>2. f \in Descriptor /\ f.fs \in Systems /\ f.slot \in Inodes BY <1>1, Zenon DEF VfsInv, VfsTypeOK
<1>3. f.at \in Nat BY <1>2, VfsAssumption, SMTT(30) DEF Descriptor, Offsets
<1>4. size \in 0 .. RAMFS_MAX_DATA
  <2>1. ram[f.fs][f.slot] \in Inode BY <1>2, SMTT(30) DEF VfsInv, VfsTypeOK
  <2> QED BY <2>1, Zenon DEF Inode
<1>5. fds' = [fds EXCEPT ![p][d] = [f EXCEPT !.at = at]] BY <1>1, Zenon DEF VfsInv, VfsTypeOK
<1> HIDE DEF f, size
<1>6. at \in Offsets
  <2>1. size - f.at \in Int BY <1>3, <1>4, VfsAssumption
  <2>2. Min({n, size - f.at}) = IF n <= size - f.at THEN n ELSE size - f.at BY <2>1, MinOfTwo
  <2> QED BY <2>2, <1>1, <1>3, <1>4, VfsAssumption, SMTT(30) DEF Offsets
<1> HIDE DEF at
<1>7. Fits([f EXCEPT !.at = at]) BY <1>1, <1>6, MovedFits, Zenon DEF f
<1>8. writing[p].step = "none" BY <1>1 DEF NotWriting
<1> QED BY <1>1, <1>5, <1>7, <1>8, DescriptorStep, Zenon

\* An offset wraps to an offset.
LEMMA ModOffset == ASSUME NEW a \in Int PROVE a % FILE_MOD \in Offsets
BY VfsAssumption DEF Offsets

\* riv_vfs_seek.
LEMMA SeekInv == ASSUME VfsInv, NEW p \in Procs, NEW d \in Descriptors, NEW off \in Int, NEW whence \in {"set", "cur", "end"},
                        riv_vfs_lseek(p, d, off, whence)
                 PROVE  VfsInv'
<1> DEFINE f == fds[p][d]
           from == SeekBase(f, whence)
           at == (from + off) % FILE_MOD
<1>1. /\ f.used /\ fds' = [fds EXCEPT ![p][d].at = at]
      /\ writing[p] = NotWriting
      /\ UNCHANGED <<mounts, ram, opening, writing, files_made, raced, cut, odd, astray>>
  BY Zenon DEF riv_vfs_lseek, Free
<1>2. f \in Descriptor /\ f.fs \in Systems /\ f.slot \in Inodes BY <1>1, Zenon DEF VfsInv, VfsTypeOK
<1>3. f.at \in Int /\ ram[f.fs][f.slot].size \in Int
  <2>1. ram[f.fs][f.slot] \in Inode BY <1>2, Zenon DEF VfsInv, VfsTypeOK
  <2>2. \A g \in Inode : g.size \in Int BY VfsAssumption DEF Inode
  <2>3. \A g \in Descriptor : g.at \in Int BY VfsAssumption DEF Descriptor, Offsets
  <2> QED BY <1>2, <2>1, <2>2, <2>3, Zenon
<1>4. from \in Int BY <1>3 DEF SeekBase
<1>5. fds' = [fds EXCEPT ![p][d] = [f EXCEPT !.at = at]] BY <1>1, Zenon DEF VfsInv, VfsTypeOK
<1> HIDE DEF f, from
<1>6. at \in Offsets BY <1>4, ModOffset
<1> HIDE DEF at
<1>7. Fits([f EXCEPT !.at = at]) BY <1>1, <1>6, MovedFits, Zenon DEF f
<1>8. writing[p].step = "none" BY <1>1 DEF NotWriting
<1> QED BY <1>1, <1>5, <1>7, <1>8, DescriptorStep, Zenon

\* _ramfs_unlink.
LEMMA UnlinkInv ==
    ASSUME VfsInv, NEW fs \in Systems, NEW path, _ramfs_unlink(fs, path)
    PROVE  VfsInv'
<1> DEFINE found == _ramfs_lookup(fs, path)
<1>1. PICK i \in Inodes : i = Min(found)
  <2>1. found \subseteq Inodes /\ found # {} BY Zenon DEF _ramfs_lookup, _ramfs_unlink
  <2> QED BY <2>1, InodesNat, MinOfNat, Zenon
<1>2. /\ ram' = [ram EXCEPT ![fs][i].used = FALSE]
      /\ UNCHANGED <<mounts, fds, opening, writing, files_made, raced, cut, odd, astray>>
  BY <1>1, Zenon DEF _ramfs_unlink
<1>3. ASSUME NEW g \in Systems, NEW j \in Inodes
      PROVE  /\ ram'[g][j] \in Inode /\ (ram'[g][j].used => ram[g][j].used)
             /\ ram'[g][j].name = ram[g][j].name /\ ram'[g][j].size = ram[g][j].size
             /\ ram'[g][j].data = ram[g][j].data /\ ram'[g][j].id = ram[g][j].id
  <2>1. ram'[g][j] = IF g = fs /\ j = i THEN [ram[g][j] EXCEPT !.used = FALSE] ELSE ram[g][j] BY <1>2, Zenon DEF VfsInv, VfsTypeOK
  <2>2. ram[g][j] \in Inode BY Zenon DEF VfsInv, VfsTypeOK
  <2>3. \A f \in Inode : LET h == [f EXCEPT !.used = FALSE]
                         IN  /\ h \in Inode /\ ~h.used /\ h.name = f.name /\ h.size = f.size
                             /\ h.data = f.data /\ h.id = f.id
    BY Zenon DEF Inode
  <2> QED BY <2>1, <2>2, <2>3, Zenon
<1>4. VfsTypeOK'
  <2>1. ram' \in [Systems -> [Inodes -> Inode]] BY <1>2, <1>3, Zenon DEF VfsInv, VfsTypeOK
  <2> QED BY <1>2, <2>1, Zenon DEF VfsInv, VfsTypeOK
<1>5. DescriptorInv' BY <1>2, <1>3, SMTT(30) DEF VfsInv, VfsTypeOK, DescriptorInv
<1>6. CreateInv'
  <2>1. SUFFICES ASSUME ~raced, ~cut, NEW q \in Procs, opening[q].step = "create", NEW j \in Inodes, ram'[opening[q].fs][j].used
                 PROVE  ram'[opening[q].fs][j].name # opening[q].rel
    BY <1>2, Zenon DEF CreateInv
  <2>2. opening[q].fs \in Systems BY <2>1, OpeningShapes, SMTT(30) DEF VfsInv, VfsTypeOK
  <2> QED BY <2>1, <2>2, <1>3 DEF VfsInv, CreateInv
<1>7. OwnBytes' /\ NamesUnique' /\ WritesInside' BY <1>2, <1>3 DEF VfsInv, Apart, OwnBytes, NamesUnique, WritesInside
<1>8. WriteInv'
  <2>1. SUFFICES ASSUME NEW q \in Procs, writing[q].step # "none" PROVE WriteOf(q)' BY <1>2, Zenon DEF WriteInv, WriteOf, Owns, WriteOf
  <2>2. WriteOf(q) BY Zenon DEF VfsInv, WriteInv, WriteOf, Owns
  <2>3. PICK d \in Descriptors : d = writing[q].d /\ fds[q][d].used BY <2>1, <2>2, Zenon DEF WriteOf
  <2>4. PICK g \in Systems, j \in Inodes : g = fds[q][d].fs /\ j = fds[q][d].slot BY <2>3, Zenon DEF VfsInv, VfsTypeOK
  <2>5. Owns(ram[g][j], writing[q].end) BY <2>1, <2>2, <2>3, <2>4, Zenon DEF WriteOf
  <2>7. (ram'[g][j].used => ram[g][j].used) /\ ram'[g][j].data = ram[g][j].data /\ ram'[g][j].id = ram[g][j].id BY <1>3, Zenon
  <2>6. Owns(ram[g][j], writing[q].end)' BY <2>5, <2>7, <1>2, SMTT(30) DEF Owns
  <2> QED BY <1>2, <2>3, <2>4, <2>6, Zenon DEF WriteOf, Owns
<1> QED BY <1>4, <1>5, <1>6, <1>7, <1>8, Zenon DEF VfsInv, Apart

\* What _ramfs_write copies falls outside the data of the file only when offset and
\* length wrap.
LEMMA WriteEnds ==
    ASSUME NEW off \in Offsets, NEW n \in Offsets, NEW r, r = WriteLength(off, n), r >= 0
    PROVE  r \in Nat /\ (off + n < FILE_MOD => off + r <= RAMFS_MAX_DATA)
<1>1. off \in Nat /\ n \in Nat /\ off < FILE_MOD /\ n < FILE_MOD /\ FILE_MOD \in Nat /\ RAMFS_MAX_DATA \in Nat
  BY VfsAssumption DEF Offsets
<1>2. r = n \/ r = -1 \/ r = RAMFS_MAX_DATA - off BY Zenon DEF WriteLength
<1>3. ASSUME off + n < FILE_MOD PROVE off + r <= RAMFS_MAX_DATA
  <2>1. (off + n) % FILE_MOD = off + n BY <1>1, <1>3
  <2>2. (r = n /\ off + n <= RAMFS_MAX_DATA) \/ r = -1 \/ r = RAMFS_MAX_DATA - off BY <2>1, Zenon DEF WriteLength
  <2> QED BY <1>1, <2>2
<1> QED BY <1>1, <1>2, <1>3

\* Descriptors change in nothing but their offset.
FdsKept ==
    /\ fds' \in [Procs -> [Descriptors -> Descriptor]]
    /\ \A q \in Procs, e \in Descriptors :
           /\ fds'[q][e].used = fds[q][e].used /\ fds'[q][e].fs = fds[q][e].fs
           /\ fds'[q][e].slot = fds[q][e].slot /\ fds'[q][e].id = fds[q][e].id

\* riv_vfs_write moves its descriptor to the end of what it wrote.
LEMMA EndMoves ==
    ASSUME VfsInv, NEW p \in Procs, NEW d \in Descriptors, NEW end \in 0 .. RAMFS_MAX_DATA,
           fds' = [fds EXCEPT ![p][d].at = end]
    PROVE  FdsKept
<1>1. end \in Offsets BY VfsAssumption DEF Offsets
<1>2. \A c \in Descriptor : LET h == [c EXCEPT !.at = end]
                            IN  h \in Descriptor /\ h.used = c.used /\ h.fs = c.fs /\ h.slot = c.slot /\ h.id = c.id
  BY <1>1, SMTT(30) DEF Descriptor
<1>3. ASSUME NEW q \in Procs, NEW e \in Descriptors
      PROVE  /\ fds'[q][e] \in Descriptor /\ fds'[q][e].used = fds[q][e].used
             /\ fds'[q][e].fs = fds[q][e].fs /\ fds'[q][e].slot = fds[q][e].slot /\ fds'[q][e].id = fds[q][e].id
  <2>1. fds'[q][e] = IF q = p /\ e = d THEN [fds[q][e] EXCEPT !.at = end] ELSE fds[q][e] BY Zenon DEF VfsInv, VfsTypeOK
  <2>2. fds[q][e] \in Descriptor BY Zenon DEF VfsInv, VfsTypeOK
  <2>3. CASE q = p /\ e = d
    <3>1. fds'[q][e] = [fds[q][e] EXCEPT !.at = end] BY <2>1, <2>3, SMTT(30)
    <3> QED BY <2>2, <3>1, <1>2, Zenon
  <2>4. CASE ~(q = p /\ e = d) BY <2>1, <2>2, <2>4, SMTT(30)
  <2> QED BY <2>3, <2>4, Zenon
<1>4. fds' \in [Procs -> [Descriptors -> Descriptor]] BY <1>3, Zenon DEF VfsInv, VfsTypeOK
<1> QED BY <1>3, <1>4, Zenon DEF FdsKept

\* A step that changes bytes or size of one file.
LEMMA FileChange ==
    ASSUME VfsInv, NEW fs \in Systems, NEW i \in Inodes, NEW new \in Inode,
           new.used = ram[fs][i].used, new.name = ram[fs][i].name, new.id = ram[fs][i].id,
           ram' = [ram EXCEPT ![fs][i] = new], odd \subseteq odd', FdsKept, writing' \in [Procs -> Writing],
           UNCHANGED <<mounts, opening, files_made, raced, cut>>
    PROVE  /\ VfsTypeOK' /\ DescriptorInv' /\ CreateInv' /\ NamesUnique'
           /\ \A g \in Systems, j \in Inodes : ram'[g][j] = IF g = fs /\ j = i THEN new ELSE ram[g][j]
<1>1. \A g \in Systems, j \in Inodes : ram'[g][j] = IF g = fs /\ j = i THEN new ELSE ram[g][j] BY Zenon DEF VfsInv, VfsTypeOK
<1>2. ASSUME NEW g \in Systems, NEW j \in Inodes
      PROVE  ram'[g][j].used = ram[g][j].used /\ ram'[g][j].name = ram[g][j].name /\ ram'[g][j].id = ram[g][j].id
  BY <1>1, Zenon
<1>3. VfsTypeOK'
  <2>1. \A q \in Procs, e \in Descriptors : fds'[q][e].used => fds'[q][e].fs \in Systems /\ fds'[q][e].slot \in Inodes
    BY ZenonT(40) DEF VfsInv, VfsTypeOK, FdsKept
  <2>2. ram' \in [Systems -> [Inodes -> Inode]] BY Zenon DEF VfsInv, VfsTypeOK
  <2> QED BY <2>1, <2>2, Zenon DEF VfsInv, VfsTypeOK, FdsKept
<1>4. DescriptorInv'
  <2> SUFFICES ASSUME NEW q \in Procs, NEW e \in Descriptors, fds'[q][e].used
               PROVE  fds'[q][e].id = ram'[fds'[q][e].fs][fds'[q][e].slot].id \/ ram'[fds'[q][e].fs][fds'[q][e].slot].id \in odd'
    BY Zenon DEF DescriptorInv
  <2>1. fds[q][e].used /\ fds'[q][e].fs = fds[q][e].fs /\ fds'[q][e].slot = fds[q][e].slot /\ fds'[q][e].id = fds[q][e].id
    BY Zenon DEF FdsKept
  <2>2. fds[q][e].fs \in Systems /\ fds[q][e].slot \in Inodes BY <2>1, Zenon DEF VfsInv, VfsTypeOK
  <2>3. fds[q][e].id = ram[fds[q][e].fs][fds[q][e].slot].id \/ ram[fds[q][e].fs][fds[q][e].slot].id \in odd
    BY <2>1, Zenon DEF VfsInv, DescriptorInv
  <2>4. ram'[fds'[q][e].fs][fds'[q][e].slot].id = ram[fds[q][e].fs][fds[q][e].slot].id BY <2>1, <2>2, <1>2, SMTT(30)
  <2> QED BY <2>1, <2>3, <2>4, Zenon
<1>5. CreateInv'
  <2>1. SUFFICES ASSUME ~raced, ~cut, NEW q \in Procs, opening[q].step = "create", NEW j \in Inodes, ram'[opening[q].fs][j].used
                 PROVE  ram'[opening[q].fs][j].name # opening[q].rel
    BY Zenon DEF CreateInv
  <2>2. opening[q].fs \in Systems BY <2>1, OpeningShapes, Zenon DEF VfsInv, VfsTypeOK
  <2> QED BY <2>1, <2>2, <1>2 DEF VfsInv, CreateInv
<1>6. NamesUnique'
  <2>1. SUFFICES ASSUME ~raced, ~cut, NEW g \in Systems, NEW j \in Inodes, NEW k \in Inodes, j # k, ram'[g][j].used, ram'[g][k].used
                 PROVE  ram'[g][j].name # ram'[g][k].name
    BY Zenon DEF NamesUnique
  <2>2. ram[g][j].used /\ ram[g][k].used BY <2>1, <1>2, Zenon
  <2>3. ram[g][j].name # ram[g][k].name BY <2>1, <2>2, Zenon DEF VfsInv, Apart, NamesUnique
  <2> QED BY <2>3, <1>2, Zenon
<1> QED BY <1>1, <1>3, <1>4, <1>5, <1>6, Zenon

\* A write in progress, its descriptor named.
LEMMA WriterOwns ==
    ASSUME VfsInv, NEW p \in Procs, writing[p].step # "none"
    PROVE  \E d \in Descriptors : /\ d = writing[p].d /\ fds[p][d].used
                                  /\ fds[p][d].fs \in Systems /\ fds[p][d].slot \in Inodes
                                  /\ Owns(ram[fds[p][d].fs][fds[p][d].slot], writing[p].end)
<1>1. WriteOf(p) BY Zenon DEF VfsInv, WriteInv
<1>2. writing[p].d \in Descriptors /\ fds[p][writing[p].d].used BY <1>1, Zenon DEF WriteOf
<1>3. fds[p][writing[p].d].fs \in Systems /\ fds[p][writing[p].d].slot \in Inodes BY <1>2, Zenon DEF VfsInv, VfsTypeOK
<1> QED BY <1>1, <1>2, <1>3, Zenon DEF WriteOf

\* A write goes on as before when its file keeps the bytes it has of its own.
LEMMA WriteKept ==
    ASSUME VfsInv, FdsKept, NEW q \in Procs, writing[q].step # "none",
           writing'[q].d = writing[q].d, writing'[q].end = writing[q].end,
           \A g \in Systems, j \in Inodes : Owns(ram[g][j], writing[q].end) => Owns(ram[g][j], writing[q].end)'
    PROVE  WriteOf(q)'
<1>1. PICK d \in Descriptors : /\ d = writing[q].d /\ fds[q][d].used
                               /\ fds[q][d].fs \in Systems /\ fds[q][d].slot \in Inodes
                               /\ Owns(ram[fds[q][d].fs][fds[q][d].slot], writing[q].end)
  BY WriterOwns, Zenon
<1>2. PICK g \in Systems, j \in Inodes : g = fds[q][d].fs /\ j = fds[q][d].slot BY <1>1, Zenon
<1>3. Owns(ram[g][j], writing[q].end)' BY <1>1, <1>2, Zenon
<1>4. fds'[q][d].used /\ fds'[q][d].fs = g /\ fds'[q][d].slot = j BY <1>1, <1>2, Zenon DEF FdsKept
<1>5. writing'[q].d = d BY <1>1, Zenon
<1> QED BY <1>3, <1>4, <1>5, Zenon DEF WriteOf, Owns

\* riv_vfs_write copies its bytes.
LEMMA WriteCopyInv ==
    ASSUME VfsInv, NEW p \in Procs, NEW d \in Descriptors, NEW n \in Offsets,
           WriteCopy(p, d, n)
    PROVE  VfsInv'
<1>1. PICK fs \in Systems, i \in Inodes, off \in Offsets, me \in Nat :
          fs = fds[p][d].fs /\ i = fds[p][d].slot /\ off = fds[p][d].at /\ me = fds[p][d].id
  <2>3. fds[p][d].used BY Zenon DEF WriteCopy
  <2>1. fds[p][d] \in Descriptor /\ fds[p][d].fs \in Systems /\ fds[p][d].slot \in Inodes
    BY <2>3, Zenon DEF VfsInv, VfsTypeOK
  <2>2. fds[p][d].at \in Offsets /\ fds[p][d].id \in Nat BY <2>1, Zenon DEF Descriptor
  <2> QED BY <2>1, <2>2, SMTT(30)
<1>2. PICK r : r = WriteLength(off, n) BY Zenon
<1>3. PICK f \in Inode : f = ram[fs][i] BY SMTT(30) DEF VfsInv, VfsTypeOK
<1>4. /\ fds[p][d].used /\ r >= 0 /\ writing[p] = NotWriting
      /\ astray' = (off + r > RAMFS_MAX_DATA /\ off + n < FILE_MOD)
      /\ UNCHANGED <<mounts, fds, opening, files_made, raced, cut>>
  BY <1>1, <1>2, Zenon DEF WriteCopy, Free
<1>5. r \in Nat /\ (off + n < FILE_MOD => off + r <= RAMFS_MAX_DATA) BY <1>2, <1>4, WriteEnds, Zenon
<1>6. off \in Nat /\ n \in Nat /\ FILE_MOD \in Nat /\ RAMFS_MAX_DATA \in Nat BY VfsAssumption DEF Offsets
<1>7. astray' = FALSE
  <2>1. ~(off + r > RAMFS_MAX_DATA /\ off + n < FILE_MOD) BY <1>5, <1>6
  <2> QED BY <1>4, <2>1, Zenon
<1>8. CASE off + r > RAMFS_MAX_DATA
  <2>1. UNCHANGED <<ram, writing, odd>> BY <1>1, <1>2, <1>8, Zenon DEF WriteCopy
  <2>2. VfsTypeOK' /\ DescriptorInv' /\ CreateInv' BY <1>4, <2>1, Zenon DEF VfsInv, VfsTypeOK, DescriptorInv, CreateInv
  <2>3. WriteInv' BY <1>4, <2>1, WritesUntouched, Zenon DEF VfsInv
  <2>5. Apart' BY <1>4, <1>7, <2>1 DEF VfsInv, Apart, OwnBytes, NamesUnique, WritesInside
  <2> QED BY <2>2, <2>3, <2>5, Zenon DEF VfsInv
<1>9. CASE ~(off + r > RAMFS_MAX_DATA)
  <2> DEFINE data == [b \in DOMAIN f.data |-> IF b \in off .. off + r - 1 THEN me ELSE f.data[b]]
             new == [f EXCEPT !.data = data]
             begun == [step |-> "test", d |-> d, end |-> off + r]
  <2>1. /\ ram' = [ram EXCEPT ![fs][i].data = [b \in DOMAIN @ |-> IF b \in off .. off + r - 1 THEN me ELSE @[b]]]
        /\ writing' = [writing EXCEPT ![p] = begun]
        /\ odd' = IF off > f.size THEN odd \cup {f.id} ELSE odd
    BY <1>1, <1>2, <1>3, <1>9, Zenon DEF WriteCopy
  <2>2. /\ f.size \in 0 .. RAMFS_MAX_DATA /\ f.data \in [0 .. RAMFS_MAX_DATA - 1 -> Nat] /\ f.id \in Nat BY <1>3, Zenon DEF Inode
  <2>3. data \in [0 .. RAMFS_MAX_DATA - 1 -> Nat] BY <2>2, ZenonT(40)
  <2>4. /\ new \in Inode /\ new.used = f.used /\ new.name = f.name /\ new.id = f.id /\ new.size = f.size
        /\ \A b \in 0 .. RAMFS_MAX_DATA - 1 : new.data[b] = IF b \in off .. off + r - 1 THEN me ELSE f.data[b]
    <3>1. new.used = f.used /\ new.name = f.name /\ new.id = f.id /\ new.size = f.size /\ new.data = data BY <1>3, Zenon DEF Inode
    <3>2. new \in Inode
      <4> HIDE DEF data
      <4> QED BY <1>3, <2>3, Zenon DEF Inode
    <3>3. \A b \in 0 .. RAMFS_MAX_DATA - 1 : data[b] = IF b \in off .. off + r - 1 THEN me ELSE f.data[b] BY <2>2, Zenon
    <3> HIDE DEF new, data
    <3> QED BY <3>1, <3>2, <3>3, Zenon
  <2>5. ram' = [ram EXCEPT ![fs][i] = new] BY <1>3, <2>1, Zenon DEF VfsInv, VfsTypeOK
  <2>6. begun \in Writing /\ begun.step # "none" /\ begun.d = d /\ begun.end = off + r
    BY <1>5, <1>6, <1>9, VfsAssumption DEF Writing, Descriptors
  <2>7. writing' \in [Procs -> Writing] /\ \A q \in Procs : writing'[q] = IF q = p THEN begun ELSE writing[q]
    BY <2>1, <2>6, Zenon DEF VfsInv, VfsTypeOK
  <2> HIDE DEF new, data, begun
  <2>8. odd \subseteq odd' BY <2>1, SMTT(30)
  <2>9. FdsKept BY <1>4, Zenon DEF FdsKept, VfsInv, VfsTypeOK
  <2>10. /\ VfsTypeOK' /\ DescriptorInv' /\ CreateInv' /\ NamesUnique'
         /\ \A g \in Systems, j \in Inodes : ram'[g][j] = IF g = fs /\ j = i THEN new ELSE ram[g][j]
    BY <1>3, <1>4, <2>4, <2>5, <2>7, <2>8, <2>9, FileChange, Zenon
  <2>11. new.id \notin odd' => me = f.id /\ off <= f.size /\ f.id \notin odd
    <3>1. me = f.id \/ f.id \in odd BY <1>1, <1>3, <1>4, Zenon DEF VfsInv, DescriptorInv
    <3>2. new.id \notin odd' => f.id \notin odd /\ ~(off > f.size) BY <2>1, <2>4, <2>8, Zenon
    <3> QED BY <1>6, <2>2, <3>1, <3>2
  <2>12. ASSUME NEW m \in 0 .. RAMFS_MAX_DATA, new.id \notin odd', \A b \in 0 .. m - 1 : f.data[b] = f.id
         PROVE  \A b \in 0 .. m - 1 : new.data[b] = new.id
    <3> TAKE b \in 0 .. m - 1
    <3>1. b \in 0 .. RAMFS_MAX_DATA - 1 BY <1>6
    <3> QED BY <3>1, <2>4, <2>11, <2>12, Zenon
  <2>13. OwnBytes'
    <3>1. SUFFICES ASSUME NEW g \in Systems, NEW j \in Inodes, ram'[g][j].used, ram'[g][j].id \notin odd', NEW b \in 0 .. ram'[g][j].size - 1
                   PROVE  ram'[g][j].data[b] = ram'[g][j].id
      BY Zenon DEF OwnBytes
    <3>2. CASE ~(g = fs /\ j = i)
      <4>1. ram'[g][j] = ram[g][j] BY <3>2, <2>10, Zenon
      <4> QED BY <3>1, <4>1, <2>8, SMTT(30) DEF VfsInv, Apart, OwnBytes
    <3>3. CASE g = fs /\ j = i
      <4>1. ram'[g][j] = new BY <3>3, <2>10, SMTT(30)
      <4>2. f.used /\ new.id \notin odd' /\ f.id \notin odd BY <3>1, <4>1, <2>4, <2>11, Zenon
      <4>3. \A c \in 0 .. f.size - 1 : f.data[c] = f.id BY <4>2, <1>3, Zenon DEF VfsInv, Apart, OwnBytes
      <4> QED BY <3>1, <4>1, <4>2, <4>3, <2>2, <2>4, <2>12, Zenon
    <3> QED BY <3>2, <3>3, Zenon
  <2>14. WritesInside'
    <3>1. new.size <= RAMFS_MAX_DATA BY <1>6, <2>2, <2>4
    <3> QED BY <3>1, <1>7, <2>10 DEF VfsInv, Apart, WritesInside
  <2>15. WriteInv'
    <3>1. SUFFICES ASSUME NEW q \in Procs PROVE WriteOf(q)' BY Zenon DEF WriteInv
    <3>2. CASE q = p
      <4>1. writing'[q].d = d /\ writing'[q].end = off + r BY <3>2, <2>6, <2>7, Zenon
      <4>2. fds'[q][d].used /\ fds'[q][d].fs = fs /\ fds'[q][d].slot = i BY <3>2, <1>1, <1>4, Zenon
      <4>6. PICK m : m = off + r BY Zenon
      <4>3. new.used /\ new.id \notin odd' => \A b \in 0 .. m - 1 : new.data[b] = new.id
        <5>3. HAVE new.used /\ new.id \notin odd'
        <5>1. \A c \in 0 .. f.size - 1 : f.data[c] = f.id
          BY <5>3, <1>3, <2>4, <2>11, Zenon DEF VfsInv, Apart, OwnBytes
        <5> TAKE b \in 0 .. m - 1
        <5>4. b \in Nat /\ b < off + r BY <4>6, <1>5, <1>6
        <5>5. off <= f.size BY <5>3, <2>11, Zenon
        <5>2. b \in 0 .. RAMFS_MAX_DATA - 1 /\ (b \in off .. off + r - 1 \/ b \in 0 .. f.size - 1)
          BY <5>4, <5>5, <1>5, <1>6, <1>9, <2>2
        <5> QED BY <5>3, <5>1, <5>2, <2>4, <2>11, Zenon
      <4>4. ram'[fs][i] = new BY <2>10, Zenon
      <4>5. Owns(ram[fs][i], writing[q].end)' BY <4>1, <4>3, <4>4, <4>6, Zenon DEF Owns
      <4> QED BY <4>1, <4>2, <4>5, Zenon DEF WriteOf, Owns
    <3>3. CASE q # p
      <4>1. writing'[q] = writing[q] BY <3>3, <2>7, Zenon
      <4>2. writing[q].end \in 0 .. RAMFS_MAX_DATA
        <5>1. writing[q] \in Writing BY Zenon DEF VfsInv, VfsTypeOK
        <5> QED BY <5>1, Zenon DEF Writing
      <4>3. ASSUME NEW g \in Systems, NEW j \in Inodes, Owns(ram[g][j], writing[q].end)
            PROVE  Owns(ram[g][j], writing[q].end)'
        <5>1. SUFFICES ASSUME ram'[g][j].used, ram'[g][j].id \notin odd'
                       PROVE  \A b \in 0 .. writing[q].end - 1 : ram'[g][j].data[b] = ram'[g][j].id
          BY <4>1, Zenon DEF Owns
        <5>2. CASE ~(g = fs /\ j = i)
          <6>1. ram'[g][j] = ram[g][j] BY <5>2, <2>10, Zenon
          <6> QED BY <4>3, <5>1, <6>1, <2>8, Zenon DEF Owns
        <5>3. CASE g = fs /\ j = i
          <6>1. ram'[g][j] = new BY <5>3, <2>10, SMTT(30)
          <6>2. f.used /\ new.id \notin odd' /\ f.id \notin odd BY <5>1, <6>1, <2>4, <2>11, Zenon
          <6>3. \A b \in 0 .. writing[q].end - 1 : f.data[b] = f.id BY <4>3, <5>3, <6>2, <1>3, Zenon DEF Owns
          <6> QED BY <4>2, <6>1, <6>2, <6>3, <2>12, Zenon
        <5> QED BY <5>2, <5>3, Zenon
      <4>4. CASE writing[q].step = "none" BY <4>1, <4>4, Zenon DEF WriteOf
      <4>5. CASE writing[q].step # "none" BY <4>1, <4>3, <4>5, <2>9, WriteKept, Zenon
      <4> QED BY <4>4, <4>5, Zenon
    <3> QED BY <3>2, <3>3, Zenon
  <2> QED BY <2>10, <2>13, <2>14, <2>15, Zenon DEF VfsInv, Apart
<1> QED BY <1>8, <1>9, Zenon

\* The writers other than p, or all of them, when no byte of a file changes.
LEMMA WritesGoOn ==
    ASSUME VfsInv, FdsKept, odd' = odd, NEW p \in Procs, NEW w, writing' = [writing EXCEPT ![p] = w],
           \/ w.step = "none"
           \/ writing[p].step # "none" /\ w.d = writing[p].d /\ w.end = writing[p].end,
           \A g \in Systems, j \in Inodes :
               ram'[g][j].used = ram[g][j].used /\ ram'[g][j].id = ram[g][j].id /\ ram'[g][j].data = ram[g][j].data
    PROVE  WriteInv'
<1>1. \A q \in Procs : writing'[q] = IF q = p THEN w ELSE writing[q] BY Zenon DEF VfsInv, VfsTypeOK
<1>2. SUFFICES ASSUME NEW q \in Procs PROVE WriteOf(q)' BY Zenon DEF WriteInv
<1>3. CASE writing'[q].step = "none" BY <1>3, Zenon DEF WriteOf
<1>4. CASE writing'[q].step # "none"
  <2>1. writing[q].step # "none" /\ writing'[q].d = writing[q].d /\ writing'[q].end = writing[q].end BY <1>1, <1>4, Zenon
  <2>2. ASSUME NEW g \in Systems, NEW j \in Inodes, Owns(ram[g][j], writing[q].end)
        PROVE  Owns(ram[g][j], writing[q].end)'
    BY <2>1, <2>2, Zenon DEF Owns
  <2> QED BY <2>1, <2>2, WriteKept, Zenon
<1> QED BY <1>3, <1>4, Zenon

\* It compares size with its end.
LEMMA WriteTestInv ==
    ASSUME VfsInv, NEW p \in Procs, WriteTest(p)
    PROVE  VfsInv'
<1>1. PICK w \in Writing : w = writing[p] BY Zenon DEF VfsInv, VfsTypeOK
<1>2. w.step = "test" /\ w.end \in 0 .. RAMFS_MAX_DATA BY <1>1, Zenon DEF WriteTest, Writing
<1>3. UNCHANGED <<mounts, ram, opening, files_made, raced, cut, odd, astray>> BY Zenon DEF WriteTest
<1>4. PICK d \in Descriptors : d = w.d BY <1>1, <1>2, WriterOwns, Zenon
<1>5. PICK v \in Writing : /\ writing' = [writing EXCEPT ![p] = v]
                           /\ v.step = "none" \/ (v.d = w.d /\ v.end = w.end)
                           /\ fds' = fds \/ fds' = [fds EXCEPT ![p][d].at = w.end]
  <2>1. CASE writing' = [writing EXCEPT ![p].step = "store"] /\ fds' = fds
    <3>1. \A x \in Writing : LET y == [x EXCEPT !.step = "store"] IN y \in Writing /\ y.d = x.d /\ y.end = x.end
      BY Zenon DEF Writing
    <3>2. writing' = [writing EXCEPT ![p] = [w EXCEPT !.step = "store"]] BY <1>1, <2>1, Zenon DEF VfsInv, VfsTypeOK
    <3> QED BY <2>1, <3>1, <3>2, Zenon
  <2>2. CASE writing' = [writing EXCEPT ![p] = NotWriting] /\ fds' = [fds EXCEPT ![p][w.d].at = w.end]
    <3>1. NotWriting \in Writing /\ NotWriting.step = "none" BY VfsAssumption DEF NotWriting, Writing
    <3> QED BY <1>4, <2>2, <3>1, Zenon
  <2> QED BY <1>1, <2>1, <2>2, Zenon DEF WriteTest
<1>6. FdsKept
  <2>1. CASE fds' = fds BY <2>1, Zenon DEF FdsKept, VfsInv, VfsTypeOK
  <2>2. CASE fds' = [fds EXCEPT ![p][d].at = w.end] BY <1>2, <2>2, EndMoves, Zenon
  <2> QED BY <1>5, <2>1, <2>2, Zenon
<1>7. WriteInv'
  <2>1. writing[p].step # "none" BY <1>1, <1>2
  <2>2. \A g \in Systems, j \in Inodes :
            ram'[g][j].used = ram[g][j].used /\ ram'[g][j].id = ram[g][j].id /\ ram'[g][j].data = ram[g][j].data
    BY <1>3, Zenon
  <2> QED BY <1>1, <1>3, <1>5, <1>6, <2>1, <2>2, WritesGoOn, Zenon
<1>8. VfsTypeOK'
  <2>1. \A q \in Procs, e \in Descriptors : fds'[q][e].used => fds'[q][e].fs \in Systems /\ fds'[q][e].slot \in Inodes
    BY <1>6, ZenonT(40) DEF VfsInv, VfsTypeOK, FdsKept
  <2>2. writing' \in [Procs -> Writing] BY <1>5, Zenon DEF VfsInv, VfsTypeOK
  <2> QED BY <1>3, <1>6, <2>1, <2>2, Zenon DEF VfsInv, VfsTypeOK, FdsKept
<1>9. DescriptorInv'
  <2> SUFFICES ASSUME NEW q \in Procs, NEW e \in Descriptors, fds'[q][e].used
               PROVE  fds'[q][e].id = ram[fds'[q][e].fs][fds'[q][e].slot].id \/ ram[fds'[q][e].fs][fds'[q][e].slot].id \in odd
    BY <1>3, Zenon DEF DescriptorInv
  <2>1. fds[q][e].used /\ fds'[q][e].fs = fds[q][e].fs /\ fds'[q][e].slot = fds[q][e].slot /\ fds'[q][e].id = fds[q][e].id
    BY <1>6, Zenon DEF FdsKept
  <2> QED BY <2>1, Zenon DEF VfsInv, DescriptorInv
<1>10. CreateInv' BY <1>3, Zenon DEF VfsInv, CreateInv
<1> QED BY <1>3, <1>7, <1>8, <1>9, <1>10, FilesUntouched, Zenon DEF VfsInv

\* It stores its end as size.
LEMMA WriteStoreInv ==
    ASSUME VfsInv, NEW p \in Procs, WriteStore(p)
    PROVE  VfsInv'
<1>1. PICK w \in Writing : w = writing[p] BY Zenon DEF VfsInv, VfsTypeOK
<1>2. w.step = "store" /\ w.end \in 0 .. RAMFS_MAX_DATA BY <1>1, Zenon DEF WriteStore, Writing
<1>3. PICK d \in Descriptors : /\ d = w.d /\ fds[p][d].fs \in Systems /\ fds[p][d].slot \in Inodes
                               /\ Owns(ram[fds[p][d].fs][fds[p][d].slot], w.end)
  BY <1>1, <1>2, WriterOwns, SMTT(30)
<1>4. PICK fs \in Systems, i \in Inodes : fs = fds[p][d].fs /\ i = fds[p][d].slot BY <1>3, Zenon
<1>5. PICK f \in Inode : f = ram[fs][i] BY SMTT(30) DEF VfsInv, VfsTypeOK
<1> DEFINE new == [f EXCEPT !.size = w.end]
<1>6. /\ ram' = [ram EXCEPT ![fs][i].size = w.end]
      /\ writing' = [writing EXCEPT ![p] = NotWriting] /\ fds' = [fds EXCEPT ![p][d].at = w.end]
      /\ UNCHANGED <<mounts, opening, files_made, raced, cut, odd, astray>>
  BY <1>1, <1>3, <1>4, Zenon DEF WriteStore
<1>7. /\ new \in Inode /\ new.used = f.used /\ new.name = f.name /\ new.id = f.id /\ new.data = f.data
      /\ new.size = w.end
  BY <1>2, <1>5, Zenon DEF Inode
<1>8. ram' = [ram EXCEPT ![fs][i] = new] BY <1>5, <1>6, Zenon DEF VfsInv, VfsTypeOK
<1> HIDE DEF new
<1>9. NotWriting \in Writing /\ NotWriting.step = "none" BY VfsAssumption DEF NotWriting, Writing
<1>10. writing' \in [Procs -> Writing] BY <1>6, <1>9, Zenon DEF VfsInv, VfsTypeOK
<1>11. FdsKept BY <1>2, <1>6, EndMoves, Zenon
<1>12. /\ VfsTypeOK' /\ DescriptorInv' /\ CreateInv' /\ NamesUnique'
       /\ \A g \in Systems, j \in Inodes : ram'[g][j] = IF g = fs /\ j = i THEN new ELSE ram[g][j]
  <2>1. odd \subseteq odd' BY <1>6, Zenon
  <2>2. new.used = ram[fs][i].used /\ new.name = ram[fs][i].name /\ new.id = ram[fs][i].id BY <1>5, <1>7, Zenon
  <2>3. UNCHANGED <<mounts, opening, files_made, raced, cut>> BY <1>6, Zenon
  <2> QED BY <1>7, <1>8, <1>10, <1>11, <2>1, <2>2, <2>3, FileChange, Zenon
<1>13. WriteInv'
  <2>1. \A g \in Systems, j \in Inodes :
            ram'[g][j].used = ram[g][j].used /\ ram'[g][j].id = ram[g][j].id /\ ram'[g][j].data = ram[g][j].data
    BY <1>5, <1>7, <1>12, Zenon
  <2> QED BY <2>1, <1>6, <1>9, <1>11, WritesGoOn, Zenon
<1>14. OwnBytes'
  <2>1. SUFFICES ASSUME NEW g \in Systems, NEW j \in Inodes, ram'[g][j].used, ram'[g][j].id \notin odd, NEW b \in 0 .. ram'[g][j].size - 1
                 PROVE  ram'[g][j].data[b] = ram'[g][j].id
    BY <1>6, Zenon DEF OwnBytes
  <2>2. CASE ~(g = fs /\ j = i)
    <3>1. ram'[g][j] = ram[g][j] BY <2>2, <1>12, Zenon
    <3> QED BY <2>1, <3>1, SMTT(30) DEF VfsInv, Apart, OwnBytes
  <2>3. CASE g = fs /\ j = i
    <3>1. ram'[g][j] = new BY <2>3, <1>12, SMTT(30)
    <3>2. Owns(f, w.end) BY <1>3, <1>4, <1>5, Zenon
    <3> QED BY <2>1, <3>1, <3>2, <1>7, Zenon DEF Owns
  <2> QED BY <2>2, <2>3, Zenon
<1>15. WritesInside'
  <2>1. new.size <= RAMFS_MAX_DATA BY <1>2, <1>7, VfsAssumption
  <2>2. ~astray' BY <1>6, Zenon DEF VfsInv, Apart, WritesInside
  <2> QED BY <2>1, <2>2, <1>12 DEF VfsInv, Apart, WritesInside
<1> QED BY <1>12, <1>13, <1>14, <1>15, Zenon DEF VfsInv, Apart

\* The files of ramfs.h behind vfs.h, for any number and size of files, any paths,
\* processes and lengths: while opens, unlocked writes, seeks and unlinks interleave
\* step by step, files stay apart in their bytes, their names and their extent, up
\* to the first write whose offset and length wrap (and with the exceptions that
\* OwnBytes and NamesUnique state).
THEOREM FilesStayApart ==
    ASSUME NEW CONSTANT reads, reads \subseteq Nat, NEW CONSTANT writes, writes \subseteq 0 .. FILE_MOD - 1,
           NEW CONSTANT seeks, seeks \subseteq Int \X {"set", "cur", "end"}
    PROVE  VfsSpec(reads, writes, seeks) => []FilesApart
<1>1. VfsInv /\ [VfsNext(reads, writes, seeks)]_vfs_vars => VfsInv'
  <2>1. ASSUME VfsInv, VfsNext(reads, writes, seeks) PROVE VfsInv'
    <3>1. CASE \E k \in DOMAIN MountCalls : riv_mount_fs(MountCalls[k][1], MountCalls[k][2])
      <4>1. PICK k \in DOMAIN MountCalls : riv_mount_fs(MountCalls[k][1], MountCalls[k][2]) BY <3>1, Zenon
      <4>2. MountCalls[k] \in Seq(STRING) \X Systems BY VfsAssumption, ElementOfSeq, Zenon
      <4> QED BY <2>1, <4>1, <4>2, MountInv, Zenon
    <3>2. CASE \E p \in Procs, path \in Paths, create \in BOOLEAN : OpenLookup(p, path, create) BY <2>1, <3>2, OpenLookupInv, Zenon
    <3>3. CASE \E p \in Procs : OpenCreate(p) \/ WriteTest(p) \/ WriteStore(p) \/ \E append \in BOOLEAN : OpenFd(p, append)
      BY <2>1, <3>3, OpenCreateInv, OpenFdInv, WriteTestInv, WriteStoreInv, Zenon
    <3>4. ASSUME NEW p \in Procs, NEW d \in 1 .. RIV_FILES_MAX,
                 \/ riv_vfs_close(p, d)
                 \/ \E n \in reads : riv_vfs_read(p, d, n)
                 \/ \E n \in writes : WriteCopy(p, d, n)
                 \/ \E s \in seeks : riv_vfs_lseek(p, d, s[1], s[2])
          PROVE  VfsInv'
      <4>1. d \in Descriptors BY Zenon DEF Descriptors
      <4>2. \A s \in seeks : s[1] \in Int /\ s[2] \in {"set", "cur", "end"} BY Zenon
      <4>3. \A n \in writes : n \in Offsets BY Zenon DEF Offsets
      <4> QED BY <2>1, <3>4, <4>1, <4>2, <4>3, CloseInv, ReadInv, WriteCopyInv, SeekInv, Zenon
    <3>5. CASE \E fs \in Systems, i \in Inodes : _ramfs_unlink(fs, ram[fs][i].name) BY <2>1, <3>5, UnlinkInv, Zenon
    <3> QED BY <2>1, <3>1, <3>2, <3>3, <3>4, <3>5, Zenon DEF VfsNext
  <2>2. ASSUME VfsInv, UNCHANGED vfs_vars PROVE VfsInv'
    <3>1. VfsTypeOK' /\ DescriptorInv' /\ CreateInv' BY <2>2, Zenon DEF vfs_vars, VfsInv, VfsTypeOK, DescriptorInv, CreateInv
    <3>2. WriteInv' BY <2>2, WritesUntouched, Zenon DEF vfs_vars, VfsInv
    <3>3. Apart' BY <2>2, FilesUntouched, Zenon DEF vfs_vars, VfsInv
    <3> QED BY <3>1, <3>2, <3>3, Zenon DEF VfsInv
  <2> QED BY <2>1, <2>2, Zenon
<1>2. VfsInv => FilesApart BY Zenon DEF VfsInv, Apart, FilesApart
<1> QED BY <1>1, <1>2, VfsInitInv, PTL DEF VfsSpec
=============================================================================
