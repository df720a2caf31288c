----------------------------- MODULE PipeProofs -----------------------------
(***************************************************************************)
(* The pipe of Pipe, for every capacity, every set of writers, readers and *)
(* closers and every length of the calls: bytes arrive once and in order,  *)
(* and end of file is final.                                               *)
(***************************************************************************)
EXTENDS Pipe, KernelProofs, FiniteSetTheorems

\* Where an execution holds the guard, and where it is in riv_pipe_write.
Inside == {"w_body", "w_closed", "w_unlock", "r_body", "r_unlock"}
Storing == {"w_lock", "w_body", "w_unlock", "w_wake", "w_sleep", "w_yield"}

\* A writer that has bytes left to store is still in riv_pipe_write.
Busy(w) == \/ closed \/ pos[w] = want[w] \/ pc[w] \in Storing \cup {"hung"}
           \/ pc[w] = "switch" /\ ret[w] = "w_lock"

\* A reader that asked for bytes and is about to report the end of file is right.
AtEnd(p) == moved[p] = 0 /\ sawEnd[p] /\ asked[p] > 0 => closed /\ data = <<>>

\* What holds of the executions inside the pipe's code.
PlaceInv ==
    /\ guard \in Exec /\ cpu \in Proc /\ current \in Proc
    /\ \A p \in Proc : pc[p] \in Inside => guard = p
    /\ \A p \in Proc : ret[p] \in {"user", "w_lock", "r_lock"}
    /\ \A p \in Proc : pc[p] \in Storing \cup {"w_closed"} \/ ret[p] = "w_lock" => p \in Writer
    /\ \A w \in Writer : Busy(w)
    /\ \A p \in Proc : pc[p] = "r_unlock" => AtEnd(p)

\* What holds of the bytes.
StoreInv ==
    /\ data \in Seq(Writer \X (1 .. MaxBytes)) /\ Len(data) <= Cap
    /\ closed \in BOOLEAN /\ eof \in BOOLEAN
    /\ want \in [Writer -> 0 .. MaxBytes] /\ pos \in [Writer -> 0 .. MaxBytes]
    /\ asked \in [Exec -> 0 .. MaxN]
    /\ moved \in [Exec -> 0 .. MaxN] /\ sawEnd \in [Exec -> BOOLEAN]
    /\ rcvd \in [Writer -> Nat]
    /\ \A w \in Writer : pos[w] <= want[w] /\ want[w] - pos[w] <= MaxN
    /\ \A w \in Writer : rcvd[w] + Cardinality(OfWriter(w, Len(data))) <= pos[w]
    /\ InOrder /\ EofIsFinal

PInv == KInv(Labels) /\ PlaceInv /\ StoreInv

\* The writers are processes.
LEMMA WriterIsProc == Writer \subseteq Proc
  BY PipeAssumption, WaitqAssumption, Zenon

\* The pipe's labels are apart from those of the switch and the stop.
LEMMA LabelFacts == /\ Labels \cap {"switch", "hung", "user"} = {}
                    /\ Inside \subseteq Labels /\ Storing \cup {"w_closed"} \subseteq Labels
                    /\ {"user", "w_lock", "r_lock", "hung", "switch"} \cap Inside = {}
  BY Zenon DEF Labels, Inside, Storing

-----------------------------------------------------------------------------
(* Sequences.                                                              *)

\* What Pipe needs to know of sequences: their elements, and those of two in a
\* row and of the rest behind a cut.
LEMMA Elements ==
  ASSUME NEW S, NEW s \in Seq(S)
  PROVE  Len(s) \in Nat /\ \A i \in 1 .. Len(s) : s[i] \in S
OBVIOUS

\* Two sequences in a row.
LEMMA InARow ==
  ASSUME NEW S, NEW s \in Seq(S), NEW t \in Seq(S)
  PROVE  /\ s \o t \in Seq(S) /\ Len(s \o t) = Len(s) + Len(t)
         /\ \A i \in 1 .. Len(s) + Len(t) : (s \o t)[i] = IF i <= Len(s) THEN s[i] ELSE t[i - Len(s)]
<1>1. s \o t \in Seq(S) OBVIOUS
<1>2. Len(s \o t) = Len(s) + Len(t) OBVIOUS
<1>3. \A i \in 1 .. Len(s) + Len(t) : (s \o t)[i] = IF i <= Len(s) THEN s[i] ELSE t[i - Len(s)] OBVIOUS
<1> QED BY <1>1, <1>2, <1>3, Zenon

\* What is behind the first k elements.
LEMMA BehindCut ==
  ASSUME NEW S, NEW s \in Seq(S), NEW k \in 0 .. Len(s), NEW e, e = SubSeq(s, k + 1, Len(s))
  PROVE  /\ e \in Seq(S) /\ Len(e) = Len(s) - k
         /\ \A i \in 1 .. Len(s) - k : e[i] = s[k + i]
         /\ Len(s) = k => e = <<>>
<1>1. e \in Seq(S) OBVIOUS
<1>2. Len(e) = Len(s) - k OBVIOUS
<1>3. \A i \in 1 .. Len(s) - k : e[i] = s[k + i] OBVIOUS
<1>4. Len(s) = k => e = <<>> BY <1>1, <1>2
<1> QED BY <1>1, <1>2, <1>3, <1>4, Zenon

-----------------------------------------------------------------------------
(* Counting the bytes of a writer.                                         *)

\* The bytes of w among the first k bytes of s.
Among(s, w, k) == {i \in 1 .. k : s[i][1] = w}

\* The k bytes that follow the first r of s are the first k of t.
Follows(s, t, r, k) == \A i \in 1 .. k : t[i] = s[r + i]

\* The first k bytes of t are of v.
OwnedBy(t, v, k) == \A i \in 1 .. k : t[i][1] = v

\* The first k bytes of t are those of v from c + 1 on.
Numbered(t, v, c, k) == \A i \in 1 .. k : t[i][1] = v /\ t[i][2] = c + i

\* e is d without its first q bytes.
Rest(d, q, e) == e = SubSeq(d, q + 1, Len(d))

\* The bytes of w in d carry on from the r read before.
Ranked(d, w, r) == \A i \in Among(d, w, Len(d)) : d[i][2] = r + Cardinality(Among(d, w, i))

\* The bytes of w among the first k are finitely many.
LEMMA AmongFinite ==
    ASSUME NEW s, NEW w, NEW k \in Nat
    PROVE  IsFiniteSet(Among(s, w, k)) /\ Cardinality(Among(s, w, k)) \in Nat
<1>1. IsFiniteSet(1 .. k) BY FS_Interval, 1 \in Int, k \in Int, Zenon
<1>2. Among(s, w, k) \in SUBSET (1 .. k) BY Zenon DEF Among
<1>3. IsFiniteSet(Among(s, w, k)) BY <1>1, <1>2, FS_Subset, Zenon
<1> QED BY <1>3, FS_CardinalityType, Zenon

\* The bytes of w among the first r + k are those among the first r and those
\* among the k that follow, seen from there as a sequence t of their own.
LEMMA AmongSplit ==
    ASSUME NEW s, NEW t, NEW w, NEW r \in Nat, NEW k \in Nat,
           Follows(s, t, r, k)
    PROVE  Cardinality(Among(s, w, r + k)) = Cardinality(Among(s, w, r)) + Cardinality(Among(t, w, k))
<1> DEFINE A == Among(s, w, r)
           B == Among(t, w, k)
           C == {i \in r + 1 .. r + k : s[i][1] = w}
           f == [i \in B |-> r + i]
<1>1. IsFiniteSet(A) /\ IsFiniteSet(B) /\ Cardinality(A) \in Nat /\ Cardinality(B) \in Nat
  BY AmongFinite, Zenon
<1>2. f \in Bijection(B, C)
  <2>1. \A i \in B : i \in 1 .. k /\ t[i][1] = w /\ r + i \in C BY DEF Among, Follows
  <2>2. f \in [B -> C] BY <2>1, Zenon
  <2>3. \A i, j \in B : f[i] = f[j] => i = j BY <2>1
  <2>4. \A c \in C : \E i \in B : f[i] = c
    <3> SUFFICES ASSUME NEW c \in C PROVE c - r \in B /\ r + (c - r) = c
      BY Zenon
    <3>1. c - r \in 1 .. k /\ r + (c - r) = c OBVIOUS
    <3>2. t[c - r] = s[c] BY <3>1, Zenon DEF Follows
    <3> QED BY <3>1, <3>2, Zenon DEF Among
  <2> QED BY <2>2, <2>3, <2>4, Zenon DEF Bijection, Injection, Surjection, IsInjective
<1>3. IsFiniteSet(C) /\ Cardinality(C) = Cardinality(B)
  <2>1. ExistsBijection(B, C) BY <1>2, Zenon DEF ExistsBijection
  <2> QED BY <1>1, <2>1, FS_Bijection, Zenon
<1>4. A \cup C = Among(s, w, r + k) /\ A \cap C = {}
  BY DEF Among
<1>5. Cardinality(A \cup C) = Cardinality(A) + Cardinality(C) - Cardinality(A \cap C)
  BY <1>1, <1>3, FS_Union, Zenon
<1>6. Cardinality(A \cap C) = 0 BY <1>4, FS_EmptySet, Zenon
<1> HIDE DEF A, B, C
<1>7. Cardinality(A \cup C) = Cardinality(A) + Cardinality(B) BY <1>1, <1>3, <1>5, <1>6
<1> QED BY <1>4, <1>7, Zenon DEF A, B

\* A stretch of one writer's bytes.
LEMMA AmongOwn ==
    ASSUME NEW t, NEW w, NEW v, NEW k \in Nat, OwnedBy(t, v, k)
    PROVE  Cardinality(Among(t, w, k)) = IF w = v THEN k ELSE 0
<1>1. Among(t, w, k) = IF w = v THEN 1 .. k ELSE {} BY Zenon DEF Among, OwnedBy
<1>2. Cardinality(1 .. k) = k BY FS_Interval, 1 \in Int, k \in Int
<1> QED BY <1>1, <1>2, FS_EmptySet, Zenon

\* What stays in front when t follows d: every byte of d keeps its rank, and the
\* bytes of t, all of v and numbered from c + 1, take the next ones.
LEMMA AppendRanks ==
    ASSUME NEW S, NEW d \in Seq(S), NEW t \in Seq(S), NEW v, NEW c \in Nat, NEW w, NEW r \in Nat,
           Numbered(t, v, c, Len(t)), Ranked(d, w, r),
           w = v => c = r + Cardinality(Among(d, w, Len(d)))
    PROVE  /\ Cardinality(Among(d \o t, w, Len(d \o t))) =
                Cardinality(Among(d, w, Len(d))) + (IF w = v THEN Len(t) ELSE 0)
           /\ Ranked(d \o t, w, r)
<1> DEFINE x == d \o t
           L == Len(d)
           m == Len(t)
<1>1. L \in Nat /\ m \in Nat BY Elements, Zenon
<1>2. /\ Len(x) = L + m
      /\ \A i \in 1 .. L + m : x[i] = IF i <= L THEN d[i] ELSE t[i - L]
  BY InARow, Zenon
<1> HIDE DEF x, L, m
<1>3. \A i \in 1 .. L : x[i] = d[i] BY <1>1, <1>2
<1>4. \A i \in 1 .. m : t[i] = x[L + i]
  <2> SUFFICES ASSUME NEW i \in 1 .. m PROVE t[i] = x[L + i] BY Zenon
  <2>1. L + i \in 1 .. L + m /\ ~(L + i <= L) /\ (L + i) - L = i BY <1>1
  <2> QED BY <1>2, <2>1, Zenon
<1>5. ASSUME NEW k \in 0 .. L PROVE Among(x, w, k) = Among(d, w, k)
  <2>1. \A i \in 1 .. k : x[i] = d[i] BY <1>1, <1>3
  <2> QED BY <2>1, Zenon DEF Among
<1>6. ASSUME NEW k \in 0 .. m
      PROVE  Cardinality(Among(x, w, L + k)) =
               Cardinality(Among(d, w, L)) + (IF w = v THEN k ELSE 0)
  <2>1. k \in Nat /\ \A i \in 1 .. k : i \in 1 .. m BY <1>1
  <2>2. Follows(x, t, L, k) BY <1>4, <2>1, Zenon DEF Follows
  <2>3. OwnedBy(t, v, k) BY <2>1, Zenon DEF m, Numbered, OwnedBy
  <2>4. Cardinality(Among(x, w, L + k)) =
          Cardinality(Among(x, w, L)) + Cardinality(Among(t, w, k))
    BY <1>1, <2>1, <2>2, AmongSplit
  <2>5. Cardinality(Among(t, w, k)) = IF w = v THEN k ELSE 0 BY <2>1, <2>3, AmongOwn, Zenon
  <2>6. L \in 0 .. L BY <1>1
  <2>7. Among(x, w, L) = Among(d, w, L) BY <1>5, <2>6, Zenon
  <2> QED BY <2>4, <2>5, <2>7, Zenon
<1>7. m \in 0 .. m BY <1>1
<1>8. Cardinality(Among(x, w, L + m)) = Cardinality(Among(d, w, L)) + (IF w = v THEN m ELSE 0)
  BY <1>6, <1>7, Zenon
<1>9. ASSUME NEW i \in Among(x, w, L + m) PROVE x[i][2] = r + Cardinality(Among(x, w, i))
  <2>1. i \in 1 .. L + m /\ x[i][1] = w BY Zenon DEF Among
  <2>2. CASE i <= L
    <3>1. i \in 1 .. L /\ i \in 0 .. L BY <1>1, <2>1, <2>2
    <3>2. x[i] = d[i] /\ Among(x, w, i) = Among(d, w, i) BY <1>3, <1>5, <3>1, Zenon
    <3>3. i \in Among(d, w, Len(d)) BY <2>1, <3>1, <3>2, Zenon DEF Among, L
    <3> QED BY <3>2, <3>3, Zenon DEF Ranked
  <2>3. CASE ~(i <= L)
    <3>1. i - L \in 1 .. m /\ i = L + (i - L) BY <1>1, <2>1, <2>3
    <3>2. PICK k \in 1 .. m : i = L + k BY <3>1, Zenon
    <3>3. k \in 0 .. m /\ k \in Nat BY <1>1
    <3>4. w = v /\ x[i][2] = c + k BY <1>4, <2>1, <3>2, Zenon DEF m, Numbered
    <3>5. Cardinality(Among(x, w, L + k)) = Cardinality(Among(d, w, L)) + (IF w = v THEN k ELSE 0)
      BY <1>6, <3>3, Zenon
    <3>6. Cardinality(Among(x, w, i)) = Cardinality(Among(d, w, L)) + k BY <3>2, <3>4, <3>5, Zenon
    <3>7. c = r + Cardinality(Among(d, w, L)) BY <3>4, Zenon DEF L
    <3>8. Cardinality(Among(d, w, L)) \in Nat BY <1>1, AmongFinite, Zenon
    <3> QED BY <3>3, <3>4, <3>6, <3>7, <3>8
  <2> QED BY <2>2, <2>3, Zenon
<1>10. Ranked(x, w, r) BY <1>2, <1>9, Zenon DEF Ranked
<1> QED BY <1>2, <1>8, <1>10, Zenon DEF x, L, m

\* What is left when the first q bytes of d go: the ranks of the rest start
\* after the bytes of w that went.
LEMMA DropRanks ==
    ASSUME NEW S, NEW d \in Seq(S), NEW q \in 0 .. Len(d), NEW w, NEW r \in Nat,
           Ranked(d, w, r), NEW e, Rest(d, q, e)
    PROVE  /\ Cardinality(Among(d, w, Len(d))) =
                Cardinality(Among(d, w, q)) + Cardinality(Among(e, w, Len(e)))
           /\ Ranked(e, w, r + Cardinality(Among(d, w, q)))
<1>1. Len(d) \in Nat /\ q \in Nat /\ q <= Len(d) /\ \A i \in 1 .. Len(d) : d[i] \in S
  BY Elements
<1>2. /\ Len(e) = Len(d) - q /\ Len(e) \in Nat
      /\ \A i \in 1 .. Len(e) : e[i] = d[q + i]
  BY <1>1, BehindCut DEF Rest
<1>3. ASSUME NEW k \in 0 .. Len(e)
      PROVE  Cardinality(Among(d, w, q + k)) =
               Cardinality(Among(d, w, q)) + Cardinality(Among(e, w, k))
  <2>1. k \in Nat /\ \A i \in 1 .. k : i \in 1 .. Len(e) BY <1>2
  <2>2. Follows(d, e, q, k) BY <1>2, <2>1, Zenon DEF Follows
  <2> QED BY <1>1, <2>1, <2>2, AmongSplit
<1>4. Len(e) \in 0 .. Len(e) /\ q + Len(e) = Len(d) BY <1>1, <1>2
<1>5. Cardinality(Among(d, w, q + Len(e))) =
        Cardinality(Among(d, w, q)) + Cardinality(Among(e, w, Len(e)))
  BY <1>3, <1>4, Zenon
<1>6. ASSUME NEW i \in Among(e, w, Len(e))
      PROVE  e[i][2] = r + Cardinality(Among(d, w, q)) + Cardinality(Among(e, w, i))
  <2>1. i \in 1 .. Len(e) /\ e[i][1] = w BY Zenon DEF Among
  <2>2. i \in 0 .. Len(e) /\ i \in Nat /\ q + i \in 1 .. Len(d) BY <1>1, <1>2, <2>1
  <2>3. e[i] = d[q + i] BY <1>2, <2>1, Zenon
  <2>4. q + i \in Among(d, w, Len(d)) BY <2>1, <2>2, <2>3, Zenon DEF Among
  <2>5. d[q + i][2] = r + Cardinality(Among(d, w, q + i)) BY <2>4, Zenon DEF Ranked
  <2>6. Cardinality(Among(d, w, q + i)) =
          Cardinality(Among(d, w, q)) + Cardinality(Among(e, w, i))
    BY <1>3, <2>2, Zenon
  <2>7. Cardinality(Among(d, w, q)) \in Nat /\ Cardinality(Among(e, w, i)) \in Nat
    BY <1>1, <2>2, AmongFinite, Zenon
  <2>8. \A a, b \in Nat : r + (a + b) = r + a + b OBVIOUS
  <2> QED BY <2>3, <2>5, <2>6, <2>7, <2>8, Zenon
<1> QED BY <1>4, <1>5, <1>6, Zenon DEF Ranked

-----------------------------------------------------------------------------
(* The places.                                                             *)

\* The executions other than the one on the CPU stay where they are.
Alone == \A e \in Exec : e # cpu => pc'[e] = pc[e] /\ ret'[e] = ret[e]

\* A step of the pipe's code: what the execution on the CPU has to ensure for
\* itself so that all the others can go on relying on what they know.
LEMMA PlaceStep ==
    ASSUME PlaceInv, Alone, cpu' \in Proc, current' \in Proc,
           guard' = guard \/ (guard = Null /\ guard' = cpu) \/ (pc[cpu] \in Inside /\ guard' = Null),
           pc'[cpu] \in Inside => guard' = cpu,
           ret'[cpu] \in {"user", "w_lock", "r_lock"},
           pc'[cpu] \in Storing \cup {"w_closed"} \/ ret'[cpu] = "w_lock" => cpu \in Writer,
           closed => closed',
           UNCHANGED <<data, closed>> \/ pc[cpu] \in Inside \/ guard = Null,
           \A w \in Writer : w # cpu => pos'[w] = pos[w] /\ want'[w] = want[w],
           \A p \in Proc : p # cpu => moved'[p] = moved[p] /\ sawEnd'[p] = sawEnd[p] /\ asked'[p] = asked[p],
           \A w \in Writer : w = cpu => Busy(w)',
           \A p \in Proc : p = cpu /\ pc'[p] = "r_unlock" => AtEnd(p)'
    PROVE  PlaceInv'
<1>1. cpu \in Proc /\ cpu # Null /\ guard \in Exec /\ guard' \in Exec BY ProcNotNull, Zenon DEF PlaceInv
<1>2. \A p \in Proc : p # cpu => pc'[p] = pc[p] /\ ret'[p] = ret[p] BY ProcNotNull, Zenon DEF Alone
<1>3. pc[cpu] \in Inside \/ guard = Null => \A p \in Proc : p # cpu => pc[p] \notin Inside
  BY <1>1, ProcNotNull DEF PlaceInv
<1>4. \A p \in Proc : pc'[p] \in Inside => guard' = p BY <1>1, <1>2, <1>3, Zenon DEF PlaceInv
<1>5. \A p \in Proc : ret'[p] \in {"user", "w_lock", "r_lock"} BY <1>2, Zenon DEF PlaceInv
<1>6. \A p \in Proc : pc'[p] \in Storing \cup {"w_closed"} \/ ret'[p] = "w_lock" => p \in Writer
  BY <1>2, Zenon DEF PlaceInv
<1>7. \A w \in Writer : Busy(w)' BY <1>2, WriterIsProc DEF PlaceInv, Busy
<1>8. \A p \in Proc : pc'[p] = "r_unlock" => AtEnd(p)'
  <2> SUFFICES ASSUME NEW p \in Proc, pc'[p] = "r_unlock", p # cpu PROVE AtEnd(p)'
    BY Zenon
  <2>1. pc[p] = "r_unlock" /\ pc[p] \in Inside BY <1>2, Zenon DEF Inside
  <2>2. UNCHANGED <<data, closed>> BY <1>3, <2>1, Zenon
  <2> QED BY <2>1, <2>2, Zenon DEF PlaceInv, AtEnd
<1> QED BY <1>1, <1>4, <1>5, <1>6, <1>7, <1>8, Zenon DEF PlaceInv

\* The bytes are as they were if no variable of the pipe has changed.
LEMMA StoreSame == ASSUME StoreInv, UNCHANGED pipe PROVE StoreInv'
<1>1. UNCHANGED <<data, closed, want, pos, asked, moved, sawEnd, rcvd, eof>> BY Zenon DEF pipe
<1>2. \A w, k : OfWriter(w, k)' = OfWriter(w, k) BY <1>1, Zenon DEF OfWriter
<1>3. InOrder' BY <1>1, <1>2, Zenon DEF StoreInv, InOrder
<1> QED BY <1>1, <1>2, <1>3, Zenon DEF StoreInv, EofIsFinal

\* A step that leaves the pipe alone and moves its execution to l outside the
\* guarded code.
LEMMA KeepStep ==
    ASSUME PInv, KInv(Labels)', UNCHANGED <<guard, pipe>>, Alone, cpu' \in Proc, current' \in Proc,
           pc'[cpu] \notin Inside, ret'[cpu] \in {"user", "w_lock", "r_lock"},
           pc'[cpu] \in Storing \cup {"w_closed"} \/ ret'[cpu] = "w_lock" => cpu \in Writer,
           \A w \in Writer : w = cpu => Busy(w)'
    PROVE  PInv'
<1>1. UNCHANGED <<data, closed, want, pos, asked, moved, sawEnd, rcvd, eof>> BY Zenon DEF pipe
<1>2. pc'[cpu] # "r_unlock" BY Zenon DEF Inside
<1>3. PlaceInv' BY <1>1, <1>2, PlaceStep, Zenon DEF PInv
<1> QED BY <1>3, StoreSame, Zenon DEF PInv

\* A step of the pipe's own code that does not touch the kernel.
LEMMA LocalStep ==
    ASSUME PInv, pc[cpu] \in Labels \cup {"user"}, NEW l \in Labels \cup {"user"}, Local(l)
    PROVE  /\ KInv(Labels)' /\ Alone /\ pc'[cpu] = l
           /\ UNCHANGED <<current, cpu, ret, waitq>>
           /\ cpu \in Proc /\ cpu \in Exec /\ cpu # Null /\ current' \in Proc /\ cpu' \in Proc
           /\ ret'[cpu] \in {"user", "w_lock", "r_lock"}
           /\ ret'[cpu] = "w_lock" => cpu \in Writer
<1>1. l \notin {"switch", "hung"} /\ pc[cpu] \notin {"switch", "hung"} BY LabelFacts, Zenon
<1>2. /\ KInv(Labels)' /\ cpu \in Exec /\ pc'[cpu] = l /\ \A e \in Exec : e # cpu => pc'[e] = pc[e]
      /\ UNCHANGED <<current, cpu, ret, waitq>>
  BY <1>1, LocalInv, Zenon DEF PInv
<1> QED BY <1>2, ProcNotNull, Zenon DEF PInv, PlaceInv, Alone

\* The CPU stops on the guard or behind a leaked riv_sched.lock.
LEMMA HangStep == ASSUME PInv, Hang, UNCHANGED <<guard, pipe>> PROVE PInv'
<1>1. /\ KInv(Labels)' /\ cpu \in Exec /\ pc'[cpu] = "hung" /\ \A e \in Exec : e # cpu => pc'[e] = pc[e]
      /\ UNCHANGED <<current, cpu, ret>>
  BY HangInv, Zenon DEF PInv
<1>2. cpu \in Proc /\ current \in Proc /\ ret[cpu] \in {"user", "w_lock", "r_lock"}
      /\ (ret[cpu] = "w_lock" => cpu \in Writer)
  BY Zenon DEF PInv, PlaceInv
<1>3. Alone BY <1>1, Zenon DEF Alone
<1>4. \A w \in Writer : w = cpu => Busy(w)' BY <1>1, Zenon DEF Busy
<1>5. pc'[cpu] \notin Inside /\ pc'[cpu] \notin Storing \cup {"w_closed"} BY <1>1, Zenon DEF Inside, Storing
<1> QED BY <1>1, <1>2, <1>3, <1>4, <1>5, KeepStep, Zenon

\* riv_pipe_init on a booted kernel establishes the invariant.
LEMMA PipeInit == ASSUME Init PROVE PInv
<1>1. BootedInit /\ guard = Null /\ data = <<>> /\ closed = FALSE /\ eof = FALSE BY Zenon DEF Init
<1>2. /\ want = [w \in Writer |-> 0] /\ pos = [w \in Writer |-> 0] /\ rcvd = [w \in Writer |-> 0]
      /\ asked = [e \in Exec |-> 0] /\ moved = [e \in Exec |-> 0] /\ sawEnd = [e \in Exec |-> FALSE]
  BY Zenon DEF Init
<1>3. KInv(Labels) BY <1>1, BootedInv, Zenon
<1>4. 1 \in Proc /\ cpu = 1 /\ current = 1 /\ \A e \in Exec : pc[e] = "user" /\ ret[e] = "user"
  BY <1>1, KernelAssumption DEF BootedInit, Proc
<1>5. PlaceInv
  <2>1. \A p \in Proc : pc[p] = "user" /\ ret[p] = "user" /\ "user" \notin Inside \cup Storing \cup {"w_closed"}
    BY <1>4, ProcNotNull, Zenon DEF Inside, Storing
  <2>2. \A w \in Writer : Busy(w) BY <1>2, Zenon DEF Busy
  <2> QED BY <1>1, <1>4, <2>1, <2>2, ProcNotNull, Zenon DEF PlaceInv
<1>6. StoreInv
  <2>1. 0 \in 0 .. MaxBytes /\ 0 \in 0 .. MaxN /\ 0 \in Nat BY PipeAssumption
  <2>2. Len(data) = 0 /\ data \in Seq(Writer \X (1 .. MaxBytes)) /\ Len(data) <= Cap
    BY <1>1, PipeAssumption
  <2>3. \A w : OfWriter(w, Len(data)) = {} BY <2>2 DEF OfWriter
  <2>4. \A w : Cardinality(OfWriter(w, Len(data))) = 0 BY <2>3, FS_EmptySet, Zenon
  <2>5. InOrder BY <1>2, <2>3, <2>4 DEF InOrder
  <2>6. \A w \in Writer : pos[w] = 0 /\ want[w] = 0 /\ rcvd[w] = 0 BY <1>2, Zenon
  <2>7. \A w \in Writer : pos[w] <= want[w] /\ want[w] - pos[w] <= MaxN
    BY <2>1, <2>6, PipeAssumption
  <2>8. \A w \in Writer : rcvd[w] + Cardinality(OfWriter(w, Len(data))) <= pos[w] BY <2>4, <2>6
  <2> QED BY <1>1, <1>2, <2>1, <2>2, <2>5, <2>7, <2>8, Zenon DEF StoreInv, EofIsFinal
<1> QED BY <1>3, <1>5, <1>6, Zenon DEF PInv

-----------------------------------------------------------------------------
(* Taking and releasing the guard, sleeping and waking.                    *)

\* The guard is taken: nobody else is in the guarded code.
LEMMA LockStep == ASSUME PInv, WriteLock \/ ReadLock PROVE PInv'
<1>1. PICK l \in {"w_body", "r_body"} :
        /\ Local(l) /\ guard = Null /\ guard' = cpu /\ UNCHANGED pipe
        /\ pc[cpu] = IF l = "w_body" THEN "w_lock" ELSE "r_lock"
  BY Zenon DEF WriteLock, ReadLock, SpinLock, At
<1>2. pc[cpu] \in Labels \cup {"user"} /\ l \in Labels \cup {"user"} BY <1>1, Zenon DEF Labels
<1>3. /\ KInv(Labels)' /\ Alone /\ pc'[cpu] = l /\ cpu' = cpu /\ ret' = ret
      /\ cpu \in Proc /\ current' \in Proc /\ cpu' \in Proc
      /\ ret'[cpu] \in {"user", "w_lock", "r_lock"} /\ (ret'[cpu] = "w_lock" => cpu \in Writer)
  BY <1>1, <1>2, LocalStep, Zenon
<1>4. UNCHANGED <<data, closed, want, pos, asked, moved, sawEnd, rcvd, eof>> BY <1>1, Zenon DEF pipe
<1>5. pc'[cpu] \in Storing \cup {"w_closed"} => cpu \in Writer
  BY <1>1, <1>3, Zenon DEF PInv, PlaceInv, Storing
<1>6. \A w \in Writer : w = cpu => Busy(w)'
  <2>1. CASE l = "w_body" BY <1>3, <2>1, Zenon DEF Busy, Storing
  <2>2. CASE l = "r_body" BY <1>1, <1>4, <2>2, Zenon DEF PInv, PlaceInv, Busy, Storing
  <2> QED BY <2>1, <2>2, Zenon
<1>7. pc'[cpu] # "r_unlock" BY <1>3, Zenon
<1>8. PlaceInv' BY <1>1, <1>3, <1>4, <1>5, <1>6, <1>7, PlaceStep, SMTT(30) DEF PInv
<1> QED BY <1>1, <1>3, <1>8, StoreSame, Zenon DEF PInv

\* The guard is released and the caller goes to l, outside the guarded code.
LEMMA UnlockStep ==
    ASSUME PInv, pc[cpu] \in Inside, guard' = Null,
           NEW l \in {"user", "w_wake", "w_sleep", "r_wake", "r_sleep"}, Local(l),
           UNCHANGED <<data, closed, want, pos, moved, sawEnd>>,
           \A p \in Proc : p # cpu => asked'[p] = asked[p],
           l \in {"w_wake", "w_sleep"} => pc[cpu] = "w_unlock",
           l \notin {"w_wake", "w_sleep"} /\ pc[cpu] \in Storing \cup {"w_closed"} =>
             closed \/ pos[cpu] = want[cpu]
    PROVE  KInv(Labels)' /\ PlaceInv'
<1>1. pc[cpu] \in Labels \cup {"user"} /\ l \in Labels \cup {"user"} BY Zenon DEF Labels, Inside
<1>2. /\ KInv(Labels)' /\ Alone /\ pc'[cpu] = l /\ cpu' = cpu /\ ret' = ret
      /\ cpu \in Proc /\ current' \in Proc /\ cpu' \in Proc
      /\ ret'[cpu] \in {"user", "w_lock", "r_lock"} /\ (ret'[cpu] = "w_lock" => cpu \in Writer)
  BY <1>1, LocalStep, Zenon
<1>3. pc'[cpu] \notin Inside BY <1>2, Zenon DEF Inside
<1>4. pc'[cpu] \in Storing \cup {"w_closed"} => cpu \in Writer
  BY <1>2, Zenon DEF PInv, PlaceInv, Storing
<1>5. \A w \in Writer : w = cpu => Busy(w)'
  <2>1. CASE l \in {"w_wake", "w_sleep"} BY <1>2, <2>1, SMTT(30) DEF Busy, Storing
  <2>2. CASE l \notin {"w_wake", "w_sleep"}
    BY <1>2, <2>2, Zenon DEF PInv, PlaceInv, Busy, Storing, Inside
  <2> QED BY <2>1, <2>2, SMTT(30)
<1>6. pc'[cpu] # "r_unlock" BY <1>2, SMTT(30)
<1>7. PlaceInv' BY <1>2, <1>3, <1>4, <1>5, <1>6, PlaceStep, SMTT(30) DEF PInv
<1> QED BY <1>2, <1>7, Zenon

\* riv_waitq_wake_one, before going on at l.
LEMMA WakeStep ==
    ASSUME PInv, NEW q \in Queue, NEW l \in {"user", "w_sleep", "c_readers", "c_writers"},
           pc[cpu] \in Labels, pc[cpu] \notin Inside, WakeOne(q, l), UNCHANGED <<guard, pipe>>,
           l = "w_sleep" => pc[cpu] \in Storing,
           l # "w_sleep" => (pc[cpu] \in Storing => closed \/ pos[cpu] = want[cpu])
    PROVE  PInv'
<1>1. l \in Labels \cup {"user"} /\ l \notin {"switch", "hung"} /\ pc[cpu] \notin {"switch", "hung"}
      /\ l \notin Inside
  BY LabelFacts, Zenon DEF Labels, Inside
<1>2. KInv(Labels)' /\ UNCHANGED <<cpu, ret>> /\ (pc' = [pc EXCEPT ![cpu] = l] \/ Hang)
  BY <1>1, WakeOneInv, Zenon DEF PInv
<1>3. CASE Hang BY <1>3, HangStep, Zenon
<1>4. CASE pc' = [pc EXCEPT ![cpu] = l]
  <2>1. cpu \in Exec /\ pc'[cpu] = l /\ Alone
    BY <1>2, <1>4 DEF PInv, KInv, MachineInv, Alone
  <2>2. current' = current BY ZenonT(60) DEF WakeOne, Wake, Hang, table
  <2>3. /\ cpu' \in Proc /\ current' \in Proc /\ ret'[cpu] \in {"user", "w_lock", "r_lock"}
        /\ (ret'[cpu] = "w_lock" => cpu \in Writer)
    BY <1>2, <2>2, SMTT(30) DEF PInv, PlaceInv
  <2>4. pc'[cpu] \in Storing \cup {"w_closed"} => cpu \in Writer
    BY <2>1, Zenon DEF PInv, PlaceInv, Storing
  <2>5. \A w \in Writer : w = cpu => Busy(w)'
    <3>1. UNCHANGED <<closed, pos, want>> BY Zenon DEF pipe
    <3>2. CASE l = "w_sleep" BY <2>1, <3>2, SMTT(30) DEF Busy, Storing
    <3>3. CASE l # "w_sleep" BY <1>1, <2>1, <3>1, <3>3, SMTT(30) DEF PInv, PlaceInv, Busy
    <3> QED BY <3>2, <3>3, Zenon
  <2> QED BY <1>1, <1>2, <2>1, <2>3, <2>4, <2>5, KeepStep, SMTT(30)
<1> QED BY <1>2, <1>3, <1>4, Zenon

\* riv_waitq_sleep without a cond_lock puts the caller into queue q.
LEMMA SleepStep == ASSUME PInv, WriteSleep \/ ReadSleep PROVE PInv'
<1>1. PICK q \in {"readers", "writers"}, l \in {"w_yield", "r_yield"} :
        /\ WaitqEnqueue(q) /\ pc' = [pc EXCEPT ![cpu] = l]
        /\ pc[cpu] = IF l = "w_yield" THEN "w_sleep" ELSE "r_sleep"
        /\ UNCHANGED <<schedLock, irq, cpu, ctx, flags, ret, picked, guard, pipe>>
  BY Zenon DEF WriteSleep, ReadSleep, At, Goto, machine
<1>2. cpu = current /\ cpu \in Proc /\ cpu \in Exec
  BY <1>1, ProcNotNull, SMTT(30) DEF PInv, PlaceInv, KInv, MachineInv
<1>3. TableInv' BY <1>1, <1>2, PipeAssumption, EnqueueTable DEF PInv, KInv
<1>4. current' = current BY <1>1, Zenon DEF WaitqEnqueue
<1>5. MachineInv(Labels)' BY <1>1, <1>2, <1>4 DEF PInv, KInv, MachineInv, Labels
<1>6. pc'[cpu] = l /\ Alone BY <1>1, <1>2, Zenon DEF PInv, KInv, MachineInv, Alone
<1>7. /\ cpu' \in Proc /\ current' \in Proc /\ ret'[cpu] \in {"user", "w_lock", "r_lock"}
      /\ (ret'[cpu] = "w_lock" => cpu \in Writer) /\ pc'[cpu] \notin Inside
      /\ (pc'[cpu] \in Storing \cup {"w_closed"} => cpu \in Writer)
  BY <1>1, <1>2, <1>4, <1>6 DEF PInv, PlaceInv, Inside, Storing
<1>8. \A w \in Writer : w = cpu => Busy(w)'
  <2>1. CASE l = "w_yield" BY <1>6, <2>1, SMTT(30) DEF Busy, Storing
  <2>2. CASE l = "r_yield" BY <1>1, <1>6, <2>2, SMTT(30) DEF PInv, PlaceInv, Busy, Storing, pipe
  <2> QED BY <2>1, <2>2, Zenon
<1> QED BY <1>1, <1>3, <1>5, <1>6, <1>7, <1>8, KeepStep, SMTT(30) DEF KInv

\* riv_proc_yield, from user code or from the sleep of a writer or a reader.
LEMMA YieldStep ==
    ASSUME PInv, NEW l \in {"user", "w_lock", "r_lock"}, YieldSelect(l), UNCHANGED <<guard, pipe>>,
           pc[cpu] = IF l = "w_lock" THEN "w_yield" ELSE IF l = "r_lock" THEN "r_yield" ELSE "user"
    PROVE  PInv'
<1>1. l \in Labels \cup {"user"} /\ l \notin {"switch", "hung"} /\ pc[cpu] \notin {"switch", "hung"}
  BY Zenon DEF Labels
<1>2. /\ KInv(Labels)' /\ cpu' = cpu /\ Alone
      /\ ret'[cpu] \in {ret[cpu], l}
      /\ \/ pc'[cpu] = l
         \/ pc'[cpu] = "switch" /\ ret'[cpu] = l
         \/ pc'[cpu] = "hung"
      /\ UNCHANGED table \/ Elect
  BY <1>1, YieldInv, Zenon DEF PInv, Alone
<1>3. current' \in Proc
  <2>1. CASE Elect
    <3>1. current' \in Members(runq) BY <2>1, ElectTable, Zenon DEF PInv, KInv
    <3> QED BY <3>1, MembersAreProc, Zenon DEF PInv, KInv, TableInv
  <2>2. CASE UNCHANGED table BY <2>2, Zenon DEF PInv, PlaceInv, table
  <2> QED BY <1>2, <2>1, <2>2
<1>4. /\ cpu' \in Proc /\ ret'[cpu] \in {"user", "w_lock", "r_lock"}
      /\ (ret'[cpu] = "w_lock" => cpu \in Writer) /\ pc'[cpu] \notin Inside
      /\ (pc'[cpu] \in Storing \cup {"w_closed"} => cpu \in Writer)
  BY <1>2, Zenon DEF PInv, PlaceInv, Inside, Storing
<1>5. \A w \in Writer : w = cpu => Busy(w)'
  <2>1. CASE l = "w_lock" BY <1>2, <2>1, Zenon DEF Busy, Storing
  <2>2. CASE l # "w_lock" BY <1>2, <2>2, Zenon DEF PInv, PlaceInv, Busy, Storing, pipe
  <2> QED BY <2>1, <2>2, Zenon
<1> QED BY <1>2, <1>3, <1>4, <1>5, KeepStep

\* The elected process is resumed; the other one will continue where it was to.
LEMMA SwitchStepInv == ASSUME PInv, SwitchStep, UNCHANGED pipe PROVE PInv'
<1>1. Switch /\ guard' = guard BY Zenon DEF SwitchStep
<1>2. /\ KInv(Labels)' /\ pc[cpu] = "switch" /\ pc' = [pc EXCEPT ![cpu] = ret[cpu]] /\ cpu' = current
      /\ ret' = [ret EXCEPT ![cpu] = "user"] /\ UNCHANGED table
  <2>1. Labels \cap {"switch", "hung"} = {} BY LabelFacts, Zenon
  <2> QED BY <1>1, <2>1, SwitchInv, Zenon DEF PInv
<1>3. cpu \in Proc /\ cpu \in Exec /\ current' \in Proc /\ cpu' \in Proc
  BY <1>2, ProcNotNull, SMTT(30) DEF PInv, PlaceInv, table
<1>4. pc'[cpu] = ret[cpu] /\ ret'[cpu] = "user" /\ Alone
  BY <1>2, <1>3, SMTT(30) DEF PInv, KInv, MachineInv, Alone
<1>5. pc'[cpu] \notin Inside /\ (pc'[cpu] \in Storing \cup {"w_closed"} => cpu \in Writer)
  BY <1>3, <1>4, SMTT(30) DEF PInv, PlaceInv, Inside, Storing
<1>6. \A w \in Writer : w = cpu => Busy(w)'
  BY <1>2, <1>4, Zenon DEF PInv, PlaceInv, Busy, Storing, pipe
<1> QED BY <1>1, <1>2, <1>3, <1>4, <1>5, <1>6, KeepStep

\* A timer interrupt outside the switch moves nobody.
LEMMA TickStepInv == ASSUME PInv, Preempt # "anywhere", TickStep, UNCHANGED pipe PROVE PInv'
<1>1. Tick /\ guard' = guard BY Zenon DEF TickStep
<1>2. /\ KInv(Labels)' /\ ret' = ret
      /\ \/ Hang
         \/ pc' = pc /\ UNCHANGED <<table, machine>>
         \/ pc' = pc /\ Elect /\ cpu' = current'
  BY <1>1, TickInv, Zenon DEF PInv
<1>3. CASE Hang BY <1>1, <1>3, HangStep, Zenon
<1>4. CASE \/ pc' = pc /\ UNCHANGED <<table, machine>>
           \/ pc' = pc /\ Elect /\ cpu' = current'
  <2>1. cpu' \in Proc /\ current' \in Proc
    <3>1. CASE UNCHANGED <<table, machine>> BY <3>1, Zenon DEF PInv, PlaceInv, table, machine
    <3>2. CASE Elect /\ cpu' = current'
      <4>1. current' \in Members(runq) BY <3>2, ElectTable, SMTT(30) DEF PInv, KInv
      <4> QED BY <3>2, <4>1, MembersAreProc DEF PInv, KInv, TableInv
    <3> QED BY <1>4, <3>1, <3>2
  <2>2. PlaceInv' BY <1>1, <1>2, <1>4, <2>1 DEF PInv, PlaceInv, Busy, AtEnd, pipe
  <2> QED BY <1>2, <2>2, StoreSame DEF PInv
<1> QED BY <1>2, <1>3, <1>4

-----------------------------------------------------------------------------
(* The bytes.                                                              *)

\* riv_pipe_write is called: the last call stored all of its bytes, unless the
\* pipe was closed.
LEMMA WriteCallInv == ASSUME PInv, WriteCall PROVE PInv'
<1>1. PICK n \in 1 .. MaxN :
        /\ want[cpu] + n <= MaxBytes /\ want' = [want EXCEPT ![cpu] = @ + n]
        /\ pos' = [pos EXCEPT ![cpu] = want[cpu]]
  BY ZenonT(60) DEF WriteCall
<1>2. /\ pc[cpu] = "user" /\ cpu \in Writer /\ Local("w_lock")
      /\ UNCHANGED <<guard, data, closed, asked, moved, sawEnd, rcvd, eof>>
  BY Zenon DEF WriteCall, At
<1>3. /\ KInv(Labels)' /\ Alone /\ pc'[cpu] = "w_lock" /\ cpu' = cpu
      /\ cpu \in Proc /\ current' \in Proc /\ cpu' \in Proc
      /\ ret'[cpu] \in {"user", "w_lock", "r_lock"} /\ (ret'[cpu] = "w_lock" => cpu \in Writer)
  BY <1>2, LocalStep, Zenon DEF Labels
<1>4. /\ want[cpu] \in 0 .. MaxBytes /\ n \in Nat /\ n <= MaxN /\ MaxBytes \in Nat /\ MaxN \in Nat
      /\ want[cpu] + n \in 0 .. MaxBytes
  BY <1>1, <1>2, PipeAssumption DEF PInv, StoreInv
<1>5. /\ want' \in [Writer -> 0 .. MaxBytes] /\ pos' \in [Writer -> 0 .. MaxBytes]
      /\ want'[cpu] = want[cpu] + n /\ pos'[cpu] = want[cpu]
      /\ \A w \in Writer : w # cpu => pos'[w] = pos[w] /\ want'[w] = want[w]
  BY <1>1, <1>2, <1>4, SMTT(30) DEF PInv, StoreInv
<1>6. PlaceInv'
  <2>1. \A w \in Writer : w = cpu => Busy(w)' BY <1>3, Zenon DEF Busy, Storing
  <2>2. pc'[cpu] \notin Inside /\ pc'[cpu] # "r_unlock" BY <1>3, SMTT(30) DEF Inside
  <2> QED BY <1>2, <1>3, <1>5, <2>1, <2>2, PlaceStep, SMTT(30) DEF PInv
<1>7. closed \/ pos[cpu] = want[cpu] BY <1>2, SMTT(30) DEF PInv, PlaceInv, Busy, Storing
<1>8. \A w, k : OfWriter(w, k)' = OfWriter(w, k) BY <1>2, SMTT(30) DEF OfWriter
<1>9. InOrder'
  <2>1. ~closed => \A w \in Writer : pos'[w] = pos[w] BY <1>5, <1>7
  <2> QED BY <1>2, <1>8, <2>1 DEF PInv, StoreInv, InOrder
<1>10. \A w \in Writer : pos'[w] <= want'[w] /\ want'[w] - pos'[w] <= MaxN
  <2>1. pos'[cpu] <= want'[cpu] /\ want'[cpu] - pos'[cpu] <= MaxN BY <1>4, <1>5
  <2>2. \A w \in Writer : pos[w] <= want[w] /\ want[w] - pos[w] <= MaxN BY Zenon DEF PInv, StoreInv
  <2> QED BY <1>5, <2>1, <2>2
<1>11. \A w \in Writer : rcvd[w] + Cardinality(OfWriter(w, Len(data))) <= pos'[w]
  <2>1. \A w, k : OfWriter(w, k) = Among(data, w, k) BY Zenon DEF OfWriter, Among
  <2>2. \A w \in Writer : /\ rcvd[w] \in Nat /\ pos[w] \in Nat /\ pos[w] <= want[w] /\ want[w] \in Nat
                          /\ Cardinality(OfWriter(w, Len(data))) \in Nat
                          /\ rcvd[w] + Cardinality(OfWriter(w, Len(data))) <= pos[w]
    BY <2>1, AmongFinite, Len(data) \in Nat DEF PInv, StoreInv
  <2> QED BY <1>5, <2>2, SMTT(30)
<1>12. StoreInv' BY <1>2, <1>5, <1>8, <1>9, <1>10, <1>11, ZenonT(60) DEF PInv, StoreInv, EofIsFinal
<1> QED BY <1>3, <1>6, <1>12 DEF PInv

\* riv_ring_write under the guard: the bytes that fit follow the ones stored.
LEMMA WriteBodyInv == ASSUME PInv, WriteBody PROVE PInv'
<1>1. pc[cpu] = "w_body" /\ UNCHANGED <<guard, closed, want, asked, sawEnd, rcvd, eof>>
  BY SMTT(30) DEF WriteBody, At
<1>2. cpu \in Writer /\ cpu \in Proc /\ cpu \in Exec /\ guard = cpu
  BY <1>1, ProcNotNull, Zenon DEF PInv, PlaceInv, Inside, Storing
<1>3. CASE closed /\ Local("w_closed") /\ UNCHANGED <<data, pos, moved>>
  <2>1. /\ KInv(Labels)' /\ Alone /\ pc'[cpu] = "w_closed" /\ cpu' = cpu
        /\ current' \in Proc /\ cpu' \in Proc
        /\ ret'[cpu] \in {"user", "w_lock", "r_lock"}
    BY <1>1, <1>3, LocalStep DEF Labels
  <2>2. \A w \in Writer : w = cpu => Busy(w)' BY <1>1, <1>3, SMTT(30) DEF Busy
  <2>3. PlaceInv' BY <1>1, <1>2, <1>3, <2>1, <2>2, PlaceStep DEF PInv
  <2>4. StoreInv' BY <1>1, <1>3, StoreSame, SMTT(30) DEF PInv, pipe
  <2> QED BY <2>1, <2>3, <2>4, SMTT(30) DEF PInv
<1>4. CASE ~closed
  <2> DEFINE m == LeastOf(want[cpu] - pos[cpu], Cap - Len(data))
             L == Len(data)
             t == [i \in 1 .. m |-> <<cpu, pos[cpu] + i>>]
  <2>1. /\ data' = data \o t /\ pos' = [pos EXCEPT ![cpu] = @ + m]
        /\ moved' = [moved EXCEPT ![cpu] = m] /\ Local("w_unlock")
    BY <1>4, Zenon DEF WriteBody
  <2>2. /\ L \in Nat /\ L <= Cap /\ Cap \in Nat /\ MaxN \in Nat /\ MaxBytes \in Nat
        /\ pos[cpu] \in Nat /\ want[cpu] \in Nat /\ want[cpu] <= MaxBytes
        /\ pos[cpu] <= want[cpu] /\ want[cpu] - pos[cpu] <= MaxN
        /\ data \in Seq(Writer \X (1 .. MaxBytes))
        /\ pos \in [Writer -> 0 .. MaxBytes] /\ moved \in [Exec -> 0 .. MaxN]
    BY <1>2, PipeAssumption DEF PInv, StoreInv
  <2>3. m \in 0 .. MaxN /\ pos[cpu] + m <= want[cpu] /\ L + m <= Cap
    BY <2>2 DEF LeastOf
  <2> HIDE DEF m
  <2>4. pos[cpu] + m \in 0 .. MaxBytes BY <2>2, <2>3, SMTT(30)
  <2>5. /\ pos' \in [Writer -> 0 .. MaxBytes] /\ pos'[cpu] = pos[cpu] + m
        /\ \A w \in Writer : w # cpu => pos'[w] = pos[w]
        /\ moved' \in [Exec -> 0 .. MaxN] /\ \A p \in Exec : p # cpu => moved'[p] = moved[p]
    BY <1>2, <2>1, <2>2, <2>3, <2>4, Zenon
  <2>6. t \in Seq(Writer \X (1 .. MaxBytes)) /\ Len(t) = m
    <3>1. \A i \in 1 .. m : <<cpu, pos[cpu] + i>> \in Writer \X (1 .. MaxBytes)
      BY <1>2, <2>2, <2>3
    <3>2. t \in [1 .. m -> Writer \X (1 .. MaxBytes)] BY <3>1, Zenon
    <3> QED BY <2>3, <3>2
  <2>7. \A i \in 1 .. m : t[i][1] = cpu /\ t[i][2] = pos[cpu] + i BY Zenon
  <2> HIDE DEF t
  <2>8. data' \in Seq(Writer \X (1 .. MaxBytes)) /\ Len(data') = L + m
    BY <2>1, <2>2, <2>6, InARow, ZenonT(60)
  <2>9. /\ KInv(Labels)' /\ Alone /\ pc'[cpu] = "w_unlock" /\ cpu' = cpu
        /\ current' \in Proc /\ cpu' \in Proc
        /\ ret'[cpu] \in {"user", "w_lock", "r_lock"}
    BY <1>1, <2>1, LocalStep, SMTT(30) DEF Labels
  <2>10. PlaceInv'
    <3>1. \A w \in Writer : w = cpu => Busy(w)' BY <2>9, Zenon DEF Busy, Storing
    <3>2. pc[cpu] \in Inside BY <1>1, Zenon DEF Inside
    <3>3. \A p \in Proc : p # cpu => moved'[p] = moved[p] BY <2>5, ProcNotNull, SMTT(30)
    <3> QED BY <1>1, <1>2, <2>5, <2>9, <3>1, <3>2, <3>3, PlaceStep, SMTT(30) DEF PInv
  <2>11. ASSUME NEW w \in Writer
         PROVE  /\ rcvd[w] + Cardinality(Among(data', w, Len(data'))) = pos'[w]
                /\ Ranked(data', w, rcvd[w])
    <3>1. /\ pos[w] = rcvd[w] + Cardinality(Among(data, w, L))
          /\ Ranked(data, w, rcvd[w])
      <4>1. \A k : OfWriter(w, k) = Among(data, w, k) BY Zenon DEF OfWriter, Among
      <4> QED BY <1>4, <4>1 DEF PInv, StoreInv, InOrder, Ranked
    <3>2. rcvd[w] \in Nat /\ Cardinality(Among(data, w, L)) \in Nat /\ m \in Nat
      BY <2>2, <2>3, AmongFinite, SMTT(30) DEF PInv, StoreInv
    <3>3. w = cpu => pos[cpu] = rcvd[w] + Cardinality(Among(data, w, Len(data))) BY <3>1, Zenon
    <3>4. Numbered(t, cpu, pos[cpu], Len(t)) BY <2>6, <2>7, SMTT(30) DEF Numbered
    <3>5. /\ Cardinality(Among(data', w, Len(data'))) =
               Cardinality(Among(data, w, Len(data))) + (IF w = cpu THEN Len(t) ELSE 0)
          /\ Ranked(data', w, rcvd[w])
      <4>1. data' = data \o t BY <2>1, Zenon
      <4>2. data \in Seq(Writer \X (1 .. MaxBytes)) /\ pos[cpu] \in Nat BY <2>2, SMTT(30)
      <4> QED BY <2>6, <3>1, <3>2, <3>3, <3>4, <4>1, <4>2, AppendRanks, SMTT(30)
    <3>6. rcvd[w] + Cardinality(Among(data', w, Len(data'))) = pos'[w]
      BY <2>5, <2>6, <3>1, <3>2, <3>5
    <3> QED BY <3>5, <3>6, SMTT(30)
  <2>12. \A w, k : OfWriter(w, k)' = Among(data', w, k) BY SMTT(30) DEF OfWriter, Among
  <2>13. InOrder' BY <1>1, <2>8, <2>11, <2>12, SMTT(30) DEF InOrder, Ranked
  <2>14. \A w \in Writer : pos'[w] <= want[w] /\ want[w] - pos'[w] <= MaxN
    <3>1. pos'[cpu] <= want[cpu] /\ want[cpu] - pos'[cpu] <= MaxN BY <2>2, <2>3, <2>5, SMTT(30)
    <3>2. \A w \in Writer : pos[w] <= want[w] /\ want[w] - pos[w] <= MaxN BY SMTT(30) DEF PInv, StoreInv
    <3> QED BY <2>5, <3>1, <3>2, SMTT(30)
  <2>15. \A w \in Writer : (rcvd[w] + Cardinality(OfWriter(w, Len(data))))' <= pos'[w]
    <3>1. \A w \in Writer : pos'[w] \in Nat BY <2>5, <2>2
    <3> QED BY <1>1, <2>8, <2>11, <2>12, <3>1, SMTT(30)
  <2>16. EofIsFinal' BY <1>1, <1>4, Zenon DEF PInv, StoreInv, EofIsFinal
  <2>17. Len(data') <= Cap BY <2>3, <2>8, SMTT(30)
  <2>18. StoreInv'
    BY <1>1, <2>5, <2>8, <2>13, <2>14, <2>15, <2>16, <2>17, SMTT(30) DEF PInv, StoreInv
  <2> QED BY <2>9, <2>10, <2>18 DEF PInv
<1> QED BY <1>3, <1>4 DEF WriteBody

\* riv_ring_read under the guard takes the oldest bytes, and what is left keeps
\* its order; a reader that got nothing from a closed pipe found it empty.
LEMMA ReadBodyInv == ASSUME PInv, ReadBody PROVE PInv'
<1>1. /\ pc[cpu] = "r_body" /\ Local("r_unlock") /\ sawEnd' = [sawEnd EXCEPT ![cpu] = closed]
      /\ UNCHANGED <<guard, closed, want, pos, asked, eof>>
  BY ZenonT(60) DEF ReadBody, At
<1>2. cpu \in Proc /\ cpu \in Exec /\ guard = cpu
  BY <1>1, ProcNotNull, Zenon DEF PInv, PlaceInv, Inside
<1>3. /\ data \in Seq(Writer \X (1 .. MaxBytes)) /\ Len(data) \in Nat /\ Len(data) <= Cap
      /\ MaxN \in Nat /\ Cap \in Nat
      /\ moved \in [Exec -> 0 .. MaxN] /\ sawEnd \in [Exec -> BOOLEAN] /\ closed \in BOOLEAN
  BY PipeAssumption, Elements DEF PInv, StoreInv
<1>4. PICK n \in 0 .. MaxN :
        /\ n = asked[cpu]
        /\ data' = SubSeq(data, LeastOf(n, Len(data)) + 1, Len(data))
        /\ moved' = [moved EXCEPT ![cpu] = LeastOf(n, Len(data))]
        /\ rcvd' = [w \in Writer |->
                      rcvd[w] + Cardinality({i \in 1 .. LeastOf(n, Len(data)) : data[i][1] = w})]
  BY <1>2, Zenon DEF ReadBody, PInv, StoreInv
<1>5. PICK r \in 0 .. Len(data) : r = LeastOf(n, Len(data)) /\ r <= MaxN /\ (r = 0 /\ n > 0 => Len(data) = 0)
  <2>1. LeastOf(n, Len(data)) \in 0 .. Len(data) /\ LeastOf(n, Len(data)) <= MaxN
        /\ (LeastOf(n, Len(data)) = 0 /\ n > 0 => Len(data) = 0)
    BY <1>3 DEF LeastOf
  <2> QED BY <2>1, Zenon
<1>6. /\ data' = SubSeq(data, r + 1, Len(data)) /\ moved' = [moved EXCEPT ![cpu] = r]
      /\ rcvd' = [w \in Writer |-> rcvd[w] + Cardinality(Among(data, w, r))]
  BY <1>4, <1>5, Zenon DEF Among
<1>7. data' \in Seq(Writer \X (1 .. MaxBytes)) /\ Len(data') <= Cap
      /\ (Len(data) = 0 => data' = <<>>)
  <2>1. data' \in Seq(Writer \X (1 .. MaxBytes)) /\ Len(data') = Len(data) - r /\ (Len(data) = r => data' = <<>>)
    BY <1>3, <1>6, BehindCut, SMTT(30)
  <2> QED BY <1>3, <1>5, <2>1
<1>8. /\ moved' \in [Exec -> 0 .. MaxN] /\ moved'[cpu] = r /\ sawEnd'[cpu] = closed
      /\ sawEnd' \in [Exec -> BOOLEAN]
      /\ \A p \in Proc : p # cpu => moved'[p] = moved[p] /\ sawEnd'[p] = sawEnd[p]
  BY <1>1, <1>2, <1>3, <1>5, <1>6, ProcNotNull, SMTT(30)
<1>9. /\ KInv(Labels)' /\ Alone /\ pc'[cpu] = "r_unlock" /\ cpu' = cpu
      /\ current' \in Proc /\ cpu' \in Proc
      /\ ret'[cpu] \in {"user", "w_lock", "r_lock"} /\ (ret'[cpu] = "w_lock" => cpu \in Writer)
  BY <1>1, LocalStep, SMTT(30) DEF Labels
<1>10. PlaceInv'
  <2>1. \A p \in Proc : p = cpu /\ pc'[p] = "r_unlock" => AtEnd(p)'
    BY <1>1, <1>4, <1>5, <1>7, <1>8 DEF AtEnd
  <2>2. \A w \in Writer : w = cpu => Busy(w)'
    BY <1>1, ZenonT(60) DEF Busy, PInv, PlaceInv, Storing
  <2>3. pc[cpu] \in Inside /\ pc'[cpu] \notin Storing \cup {"w_closed"} BY <1>1, <1>9, ZenonT(60) DEF Inside, Storing
  <2> QED BY <1>1, <1>2, <1>8, <1>9, <2>1, <2>2, <2>3, PlaceStep, SMTT(30) DEF PInv
<1>11. ASSUME NEW w \in Writer
       PROVE  /\ rcvd'[w] \in Nat
              /\ rcvd'[w] + Cardinality(Among(data', w, Len(data'))) =
                   rcvd[w] + Cardinality(Among(data, w, Len(data)))
              /\ Ranked(data', w, rcvd'[w])
  <2>1. \A k : OfWriter(w, k) = Among(data, w, k) BY SMTT(30) DEF OfWriter, Among
  <2>2. Ranked(data, w, rcvd[w]) /\ rcvd[w] \in Nat
    BY <2>1 DEF PInv, StoreInv, InOrder, Ranked
  <2>3. rcvd'[w] = rcvd[w] + Cardinality(Among(data, w, r)) BY <1>6, Zenon
  <2>4. /\ Cardinality(Among(data, w, Len(data))) =
             Cardinality(Among(data, w, r)) + Cardinality(Among(data', w, Len(data')))
        /\ Ranked(data', w, rcvd[w] + Cardinality(Among(data, w, r)))
    <3>1. data \in Seq(Writer \X (1 .. MaxBytes)) BY <1>3, Zenon
    <3>2. Rest(data, r, data') BY <1>6, Zenon DEF Rest
    <3> QED BY <2>2, <3>1, <3>2, DropRanks
  <2>5. /\ Cardinality(Among(data, w, r)) \in Nat
        /\ Cardinality(Among(data', w, Len(data'))) \in Nat
    BY <1>3, <1>5, <1>7, Elements, AmongFinite, SMTT(30)
  <2> QED BY <2>2, <2>3, <2>4, <2>5, SMTT(30)
<1>12. \A w, k : OfWriter(w, k) = Among(data, w, k) /\ OfWriter(w, k)' = Among(data', w, k)
  BY Zenon DEF OfWriter, Among
<1>13. InOrder' BY <1>1, <1>11, <1>12, ZenonT(60) DEF PInv, StoreInv, InOrder, Ranked
<1>14. rcvd' \in [Writer -> Nat] BY <1>6, <1>11, SMTT(30)
<1>15. \A w \in Writer : (rcvd[w] + Cardinality(OfWriter(w, Len(data))))' <= pos'[w]
  BY <1>1, <1>11, <1>12 DEF PInv, StoreInv
<1>16. EofIsFinal'
  <2>1. eof => closed /\ Len(data) = 0 BY DEF PInv, StoreInv, EofIsFinal
  <2> QED BY <1>1, <1>7, <2>1, SMTT(30) DEF EofIsFinal
<1>17. StoreInv' BY <1>1, <1>7, <1>8, <1>13, <1>14, <1>15, <1>16, ZenonT(60) DEF PInv, StoreInv
<1> QED BY <1>9, <1>10, <1>17 DEF PInv

\* The guard is released: a writer goes on to wake or to sleep while bytes are
\* left, and a reader reports the end of file it saw under the guard.
LEMMA ReleaseInv == ASSUME PInv, WriteClosed \/ WriteUnlock \/ ReadUnlock PROVE PInv'
<1>1. cpu \in Proc /\ cpu \in Exec BY ProcNotNull, Zenon DEF PInv, PlaceInv
<1>2. CASE WriteClosed
  <2>1. pc[cpu] = "w_closed" /\ guard' = Null /\ Local("user") /\ UNCHANGED pipe
    BY <1>2, Zenon DEF WriteClosed, SpinUnlock, At
  <2>2. cpu \in Writer BY <1>1, <2>1, ZenonT(60) DEF PInv, PlaceInv
  <2>3. closed \/ pos[cpu] = want[cpu] BY <2>1, <2>2, Zenon DEF PInv, PlaceInv, Busy, Storing
  <2>4. UNCHANGED <<data, closed, want, pos, asked, moved, sawEnd>> /\ pc[cpu] \in Inside BY <2>1, SMTT(30) DEF pipe, Inside
  <2>5. KInv(Labels)' /\ PlaceInv' BY <2>1, <2>3, <2>4, UnlockStep
  <2> QED BY <2>1, <2>5, StoreSame, Zenon DEF PInv
<1>3. CASE WriteUnlock
  <2>1. pc[cpu] = "w_unlock" /\ guard' = Null /\ UNCHANGED pipe
    BY <1>3, SMTT(30) DEF WriteUnlock, SpinUnlock, At
  <2>2. PICK l \in {"w_wake", "w_sleep", "user"} : Local(l) /\ (l = "user" => ~(pos[cpu] < want[cpu]))
    BY <1>3, SMTT(30) DEF WriteUnlock, SpinUnlock
  <2>3. cpu \in Writer BY <1>1, <2>1, Zenon DEF PInv, PlaceInv, Storing
  <2>4. l = "user" => pos[cpu] = want[cpu] BY <2>2, <2>3 DEF PInv, StoreInv
  <2>5. UNCHANGED <<data, closed, want, pos, asked, moved, sawEnd>> /\ pc[cpu] \in Inside BY <2>1, SMTT(30) DEF pipe, Inside
  <2>6. KInv(Labels)' /\ PlaceInv' BY <2>1, <2>2, <2>4, <2>5, UnlockStep
  <2> QED BY <2>1, <2>6, StoreSame, SMTT(30) DEF PInv
<1>4. CASE ReadUnlock
  <2>1. /\ pc[cpu] = "r_unlock" /\ guard' = Null
        /\ asked' = [asked EXCEPT ![cpu] = IF moved[cpu] > 0 \/ sawEnd[cpu] THEN 0 ELSE @]
        /\ eof' = (eof \/ (moved[cpu] = 0 /\ sawEnd[cpu] /\ asked[cpu] > 0))
        /\ UNCHANGED <<data, closed, want, pos, moved, sawEnd, rcvd>>
    BY <1>4, Zenon DEF ReadUnlock, ReadReturn, SpinUnlock, At
  <2>2. PICK l \in {"r_wake", "r_sleep", "user"} : Local(l)
    BY <1>4, Zenon DEF ReadUnlock, SpinUnlock
  <2>3. pc[cpu] \in Inside /\ pc[cpu] \notin Storing \cup {"w_closed"} BY <2>1, SMTT(30) DEF Inside, Storing
  <2>11. asked' \in [Exec -> 0 .. MaxN] /\ \A p \in Proc : p # cpu => asked'[p] = asked[p]
    BY <1>1, <2>1, ProcNotNull, PipeAssumption, SMTT(30) DEF PInv, StoreInv
  <2>4. KInv(Labels)' /\ PlaceInv' BY <2>1, <2>2, <2>3, <2>11, UnlockStep, SMTT(30)
  <2>5. AtEnd(cpu) BY <1>1, <2>1, SMTT(30) DEF PInv, PlaceInv
  <2>6. EofIsFinal' BY <2>1, <2>5 DEF PInv, StoreInv, EofIsFinal, AtEnd
  <2>7. eof' \in BOOLEAN BY <2>1, SMTT(30)
  <2>8. \A w, k : OfWriter(w, k)' = OfWriter(w, k) BY <2>1, SMTT(30) DEF OfWriter
  <2>9. InOrder' BY <2>1, <2>8, SMTT(30) DEF PInv, StoreInv, InOrder
  <2>10. StoreInv' BY <2>1, <2>6, <2>7, <2>8, <2>9, <2>11, SMTT(30) DEF PInv, StoreInv
  <2> QED BY <2>4, <2>10, SMTT(30) DEF PInv
<1> QED BY <1>2, <1>3, <1>4, SMTT(30)

\* riv_pipe_close: `closed` is set with the guard free, so no reader is between
\* its look at the ring and its return.
LEMMA CloseInv == ASSUME PInv, Close PROVE PInv'
<1>1. CASE GuardHang /\ UNCHANGED pipe
  <2>1. Hang /\ guard' = guard BY <1>1, Zenon DEF GuardHang
  <2> QED BY <1>1, <2>1, HangStep
<1>2. CASE ~(GuardHang /\ UNCHANGED pipe)
  <2>1. /\ pc[cpu] = "user" /\ ~closed /\ guard = Null /\ closed' = TRUE /\ Local("c_readers")
        /\ UNCHANGED <<guard, data, want, pos, asked, moved, sawEnd, rcvd, eof>>
    BY <1>2, Zenon DEF Close, At
  <2>2. /\ KInv(Labels)' /\ Alone /\ pc'[cpu] = "c_readers" /\ cpu' = cpu
        /\ cpu \in Proc /\ current' \in Proc /\ cpu' \in Proc
        /\ ret'[cpu] \in {"user", "w_lock", "r_lock"} /\ (ret'[cpu] = "w_lock" => cpu \in Writer)
    BY <2>1, LocalStep, ZenonT(60) DEF Labels
  <2>3. PlaceInv'
    <3>1. \A w \in Writer : w = cpu => Busy(w)' BY <2>1, Zenon DEF Busy
    <3>2. /\ pc'[cpu] \notin Inside /\ pc'[cpu] # "r_unlock"
          /\ pc'[cpu] \notin Storing \cup {"w_closed"}
      BY <2>2, Zenon DEF Inside, Storing
    <3> QED BY <2>1, <2>2, <3>1, <3>2, PlaceStep, ZenonT(40) DEF PInv
  <2>4. \A w, k : OfWriter(w, k)' = OfWriter(w, k) BY <2>1, SMTT(30) DEF OfWriter
  <2>5. InOrder' BY <2>1, <2>4, SMTT(30) DEF PInv, StoreInv, InOrder
  <2>6. StoreInv' BY <2>1, <2>4, <2>5 DEF PInv, StoreInv, EofIsFinal
  <2> QED BY <2>2, <2>3, <2>6, Zenon DEF PInv
<1> QED BY <1>1, <1>2, Zenon

\* riv_waitq_wake_one after a transfer and in the two loops of riv_pipe_close.
LEMMA WakesInv ==
    ASSUME PInv, WriteWake \/ ReadWake \/ CloseReaders \/ CloseWriters PROVE PInv'
<1>1. cpu \in Proc /\ {"readers", "writers"} \subseteq Queue BY PipeAssumption, Zenon DEF PInv, PlaceInv
<1>2. CASE WriteWake
  <2>1. pc[cpu] = "w_wake" /\ UNCHANGED <<guard, pipe>> BY <1>2, ZenonT(60) DEF WriteWake, At
  <2>2. PICK l \in {"w_sleep", "user"} :
          WakeOne("readers", l) /\ (l = "user" => ~(pos[cpu] < want[cpu]))
    BY <1>2, SMTT(30) DEF WriteWake
  <2>3. cpu \in Writer BY <1>1, <2>1, SMTT(30) DEF PInv, PlaceInv, Storing
  <2>4. l = "user" => pos[cpu] = want[cpu] BY <2>2, <2>3 DEF PInv, StoreInv
  <2>5. pc[cpu] \in Labels /\ pc[cpu] \notin Inside /\ pc[cpu] \in Storing
    BY <2>1, SMTT(30) DEF Labels, Inside, Storing
  <2> QED BY <1>1, <2>1, <2>2, <2>4, <2>5, WakeStep, ZenonT(60)
<1>3. CASE ReadWake \/ CloseReaders \/ CloseWriters
  <2>1. PICK q \in {"readers", "writers"}, l \in {"user", "c_readers", "c_writers"} :
          WakeOne(q, l) /\ UNCHANGED <<guard, pipe>> /\ pc[cpu] \in {"r_wake", "c_readers", "c_writers"}
    <3>1. CASE ReadWake BY <3>1, Zenon DEF ReadWake, At
    <3>2. CASE CloseReaders BY <3>2, Zenon DEF CloseReaders, WakeAll, At
    <3>3. CASE CloseWriters BY <3>3, Zenon DEF CloseWriters, WakeAll, At
    <3> QED BY <1>3, <3>1, <3>2, <3>3
  <2>2. pc[cpu] \in Labels /\ pc[cpu] \notin Inside /\ pc[cpu] \notin Storing
    BY <2>1, SMTT(30) DEF Labels, Inside, Storing
  <2> QED BY <1>1, <2>1, <2>2, WakeStep
<1> QED BY <1>2, <1>3, SMTT(30)

\* A reader enters riv_pipe_read with some n.
LEMMA ReadCallInv == ASSUME PInv, ReadCall PROVE PInv'
<1>1. /\ pc[cpu] = "user" /\ Local("r_lock")
      /\ UNCHANGED <<guard, data, closed, want, pos, moved, sawEnd, rcvd, eof>>
  BY Zenon DEF ReadCall, At
<1>2. /\ KInv(Labels)' /\ Alone /\ pc'[cpu] = "r_lock" /\ cpu' = cpu /\ ret' = ret
      /\ cpu \in Proc /\ cpu \in Exec /\ current' \in Proc /\ cpu' \in Proc
      /\ ret'[cpu] \in {"user", "w_lock", "r_lock"} /\ (ret'[cpu] = "w_lock" => cpu \in Writer)
  BY <1>1, LocalStep, Zenon DEF Labels
<1>3. /\ pc'[cpu] \notin Inside /\ pc'[cpu] \notin Storing \cup {"w_closed"} /\ pc'[cpu] # "r_unlock"
  BY <1>2, Zenon DEF Inside, Storing
<1>4. PICK n \in 0 .. MaxN : asked' = [asked EXCEPT ![cpu] = n] BY Zenon DEF ReadCall
<1>5. asked' \in [Exec -> 0 .. MaxN] /\ \A p \in Proc : p # cpu => asked'[p] = asked[p]
  BY <1>2, <1>4, ProcNotNull, SMTT(30) DEF PInv, StoreInv
<1>6. \A w \in Writer : w = cpu => Busy(w)'
  BY <1>1, <1>2, Zenon DEF PInv, PlaceInv, Busy, Storing
<1>7. PlaceInv' BY <1>1, <1>2, <1>3, <1>5, <1>6, PlaceStep, SMTT(30) DEF PInv
<1>8. \A w, k : OfWriter(w, k)' = OfWriter(w, k) BY <1>1, Zenon DEF OfWriter
<1>9. InOrder' /\ EofIsFinal' BY <1>1, <1>8, Zenon DEF PInv, StoreInv, InOrder, EofIsFinal
<1>10. StoreInv' BY <1>1, <1>5, <1>8, <1>9, Zenon DEF PInv, StoreInv
<1> QED BY <1>2, <1>7, <1>10, Zenon DEF PInv

\* Every step keeps the invariant.
LEMMA PipeNext == ASSUME Preempt # "anywhere", PInv, [Next]_vars PROVE PInv'
<1>1. CASE WriteCall BY <1>1, WriteCallInv, Zenon
<1>2. CASE WriteBody BY <1>2, WriteBodyInv
<1>3. CASE ReadBody BY <1>3, ReadBodyInv, Zenon
<1>4. CASE WriteLock \/ ReadLock BY <1>4, LockStep, Zenon
<1>5. CASE WriteClosed \/ WriteUnlock \/ ReadUnlock BY <1>5, ReleaseInv
<1>6. CASE WriteWake \/ ReadWake \/ CloseReaders \/ CloseWriters BY <1>6, WakesInv
<1>7. CASE WriteSleep \/ ReadSleep BY <1>7, SleepStep, Zenon
<1>8. CASE WriteYield \/ ReadYield \/ (UserYield /\ UNCHANGED pipe)
  <2>1. PICK l \in {"user", "w_lock", "r_lock"} :
          /\ YieldSelect(l) /\ UNCHANGED <<guard, pipe>>
          /\ pc[cpu] = IF l = "w_lock" THEN "w_yield" ELSE IF l = "r_lock" THEN "r_yield" ELSE "user"
    BY <1>8 DEF WriteYield, ReadYield, UserYield, At
  <2> QED BY <2>1, YieldStep
<1>9. CASE ReadCall BY <1>9, ReadCallInv, Zenon
<1>10. CASE Close BY <1>10, CloseInv, Zenon
<1>11. CASE SwitchStep /\ UNCHANGED pipe BY <1>11, SwitchStepInv
<1>12. CASE Timer BY <1>12, TickStepInv DEF Timer
<1>13. CASE UNCHANGED vars
  <2>1. UNCHANGED <<pstate, runq, current, waitq, schedLock, irq, cpu, ctx, flags, pc, ret, picked, guard, pipe>>
    BY <1>13, SMTT(30) DEF vars, base, kernel, table, machine, control
  <2>2. TableInv' BY <2>1, SMTT(30) DEF PInv, KInv, TableInv, LinkedOnce, Members
  <2>3. MachineInv(Labels)' BY <2>1, Zenon DEF PInv, KInv, MachineInv
  <2>4. KInv(Labels)' BY <2>2, <2>3, SMTT(30) DEF KInv
  <2>5. PlaceInv' BY <2>1, <2>4 DEF PInv, PlaceInv, Busy, AtEnd, pipe
  <2> QED BY <2>1, <2>4, <2>5, StoreSame, SMTT(30) DEF PInv
<1> QED BY <1>1, <1>2, <1>3, <1>4, <1>5, <1>6, <1>7, <1>8, <1>9, <1>10, <1>11, <1>12, <1>13, SMTT(30)
       DEF Next, OwnStep

-----------------------------------------------------------------------------
(* The theorems.                                                           *)

\* PInv holds in every reachable state: the guard is held around every access
\* to the ring, and only a writer inside riv_pipe_write has bytes left to store.
THEOREM PipeInvariance == ASSUME Preempt # "anywhere" PROVE Spec => []PInv
  BY PipeInit, PipeNext, PTL DEF Spec

\* riv_pipe_write and riv_pipe_read lose, repeat and reorder nothing: the bytes
\* of each writer in the ring carry on from those read, whoever competes and
\* however many sleeps a write is split over.
THEOREM BytesInOrder == ASSUME Preempt # "anywhere" PROVE Spec => []InOrder
<1>1. PInv => InOrder BY DEF PInv, StoreInv
<1> QED BY <1>1, PipeInvariance, PTL

\* When a riv_pipe_read that asked for a byte or more has returned 0 the pipe is
\* closed and stays empty.
THEOREM EndOfFileIsFinal == ASSUME Preempt # "anywhere" PROVE Spec => []EofIsFinal
<1>1. PInv => EofIsFinal BY Zenon DEF PInv, StoreInv
<1> QED BY <1>1, PipeInvariance, PTL

\* The ring never exceeds its capacity, no reader gets more bytes than were
\* written, and the process table, the queues and the contexts stay consistent.
THEOREM PipeIsConsistent == ASSUME Preempt # "anywhere" PROVE Spec => []Consistent
<1>1. ASSUME PInv PROVE Consistent
  <2>1. KernelTypeOK(Labels) /\ LinkedOnce /\ ContextOwned BY <1>1, KInvImplies, Zenon DEF PInv
  <2>2. rcvd \in [Writer -> 0 .. MaxBytes]
    <3>1. \A w, k : OfWriter(w, k) = Among(data, w, k) BY Zenon DEF OfWriter, Among
    <3>2. ASSUME NEW w \in Writer PROVE rcvd[w] \in 0 .. MaxBytes
      <4>1. Len(data) \in Nat BY <1>1, Elements, Zenon DEF PInv, StoreInv
      <4>2. Cardinality(OfWriter(w, Len(data))) \in Nat BY <3>1, <4>1, AmongFinite, SMTT(30)
      <4>3. /\ rcvd[w] \in Nat /\ pos[w] \in Nat /\ pos[w] <= MaxBytes /\ MaxBytes \in Nat
            /\ rcvd[w] + Cardinality(OfWriter(w, Len(data))) <= pos[w]
        BY <1>1, PipeAssumption DEF PInv, StoreInv
      <4> QED BY <4>2, <4>3, SMTT(30)
    <3> QED BY <1>1, <3>2, Zenon DEF PInv, StoreInv
  <2> QED BY <1>1, <2>1, <2>2 DEF PInv, PlaceInv, StoreInv, Consistent, TypeOK
<1> QED BY <1>1, PipeInvariance, PTL
=============================================================================
