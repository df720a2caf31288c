---------------------------- MODULE AllocProofs -----------------------------
(***************************************************************************)
(* Proofs about the allocators of heap.h and slab.h, for any memory and    *)
(* any sizes asked for.                                                    *)
(***************************************************************************)
EXTENDS Slab, FiniteSetTheorems, TLAPS

\* A set of natural numbers that is not empty has a least element.
LEMMA LeastOfNat ==
    ASSUME NEW T, T \subseteq Nat, T # {}
    PROVE  \E x \in T : \A y \in T : x <= y
<1> DEFINE R == {p \in Nat \X Nat : p[1] < p[2]}
<1>1. IsWellFoundedOn(R, Nat) BY NatLessThanWellFounded, Zenon DEF OpToRel
<1> HIDE DEF R
<1>2. PICK x \in T : \A y \in T : ~(<<y, x>> \in R) BY <1>1, WFMin, Zenon
<1>3. ASSUME NEW y \in T PROVE x <= y
  <2>1. ~(<<y, x>> \in R) BY <1>2, Zenon
  <2>2. y < x => <<y, x>> \in R BY Zenon DEF R
  <2> QED BY <2>1, <2>2
<1> QED BY <1>3, Zenon

\* Min is that element.
LEMMA MinOfNat ==
    ASSUME NEW T, T \subseteq Nat, T # {}
    PROVE  Min(T) \in T /\ \A y \in T : Min(T) <= y
BY LeastOfNat, Zenon DEF Min

-----------------------------------------------------------------------------
(* The heap.                                                               *)

Block == [at : Nat, sz : Nat, free : BOOLEAN]

\* The blocks of a list cover the memory from its first byte to its last.
Tiled(bs) ==
    /\ bs \in Seq(Block) /\ Len(bs) >= 1 /\ bs[1].at = 0
    /\ \A i \in 1 .. Len(bs) : bs[i].at + RIV_HEAP_HDR + bs[i].sz = IF i = Len(bs) THEN HEAP_SIZE ELSE bs[i + 1].at

FreePair(bs, k) == k \in 1 .. Len(bs) - 1 /\ bs[k].free /\ bs[k + 1].free
OnePair(bs) == \A i, j \in Int : FreePair(bs, i) /\ FreePair(bs, j) => i = j

UsedOf(bs) == {bs[i] : i \in {j \in 1 .. Len(bs) : ~bs[j].free}}

HeapInv ==
    /\ Tiled(blocks) /\ OnePair(blocks)
    /\ held \in [DOMAIN held -> Nat]
    /\ {b.at + RIV_HEAP_HDR : b \in UsedOf(blocks)} = DOMAIN held
    /\ \A b \in UsedOf(blocks) : LET p == b.at + RIV_HEAP_HDR IN held[p] <= SIZE_MOD - RIV_HEAP_ALIGN => b.sz >= held[p]

\* The fields of a block.
LEMMA Fields ==
    ASSUME NEW bs \in Seq(Block)
    PROVE  Len(bs) \in Nat /\ \A k \in 1 .. Len(bs) : bs[k] \in Block /\ bs[k].at \in Nat /\ bs[k].sz \in Nat
<1>1. Len(bs) \in Nat /\ \A k \in 1 .. Len(bs) : bs[k] \in Block OBVIOUS
<1>2. \A b \in Block : b.at \in Nat /\ b.sz \in Nat BY Zenon DEF Block
<1> QED BY <1>1, <1>2, Zenon

\* Blocks that tile the memory are in the order of their addresses,
LEMMA Ordered ==
    ASSUME NEW bs, Tiled(bs), NEW i \in 1 .. Len(bs), NEW j \in 1 .. Len(bs), i < j
    PROVE  bs[i].at + RIV_HEAP_HDR + bs[i].sz <= bs[j].at
<1> DEFINE T == {k \in 1 .. Len(bs) : i < k /\ ~(bs[i].at + RIV_HEAP_HDR + bs[i].sz <= bs[k].at)}
<1>1. Len(bs) \in Nat /\ \A k \in 1 .. Len(bs) : bs[k].at \in Nat /\ bs[k].sz \in Nat BY Fields, Zenon DEF Tiled
<1>2. ASSUME T # {} PROVE FALSE
  <2>1. T \subseteq Nat OBVIOUS
  <2>2. PICK k \in T : \A y \in T : k <= y
    <3> HIDE DEF T
    <3> QED BY <1>2, <2>1, LeastOfNat, Zenon
  <2>3. k \in 1 .. Len(bs) /\ i < k /\ ~(bs[i].at + RIV_HEAP_HDR + bs[i].sz <= bs[k].at) BY Zenon
  <2>4. PICK h \in 1 .. Len(bs) : h = k - 1 BY <2>3, <1>1
  <2>5. h # Len(bs) /\ h + 1 = k BY <2>3, <2>4, <1>1
  <2>6. bs[h].at + RIV_HEAP_HDR + bs[h].sz = bs[k].at BY <2>5, Zenon DEF Tiled
  <2>7. h # i BY <2>6, <2>3, <1>1 DEF RIV_HEAP_HDR
  <2>8. i < h BY <2>7, <2>5, <2>3
  <2>9. h \in T
    <3>1. bs[h].at <= bs[k].at BY <2>6, <1>1 DEF RIV_HEAP_HDR
    <3>2. ~(bs[i].at + RIV_HEAP_HDR + bs[i].sz <= bs[h].at) BY <3>1, <2>3, <1>1, SMTT(30) DEF RIV_HEAP_HDR
    <3> QED BY <3>2, <2>8, Zenon
  <2>10. k <= h BY <2>9, <2>2, Zenon
  <2> QED BY <2>10, <2>5
<1> QED BY <1>2, Zenon

\* and inside the memory.
LEMMA InMemory ==
    ASSUME NEW bs, Tiled(bs), NEW i \in 1 .. Len(bs)
    PROVE  bs[i].at + RIV_HEAP_HDR + bs[i].sz <= HEAP_SIZE
<1>1. Len(bs) \in Nat /\ \A k \in 1 .. Len(bs) : bs[k].at \in Nat /\ bs[k].sz \in Nat BY Fields, Zenon DEF Tiled
<1>2. CASE i = Len(bs) BY <1>1, <1>2, HeapAssumption DEF Tiled, RIV_HEAP_HDR
<1>3. CASE i # Len(bs)
  <2>1. Len(bs) \in 1 .. Len(bs) /\ i < Len(bs) BY <1>1, <1>3
  <2>2. bs[i].at + RIV_HEAP_HDR + bs[i].sz <= bs[Len(bs)].at BY <2>1, Ordered, Zenon
  <2>3. bs[Len(bs)].at + RIV_HEAP_HDR + bs[Len(bs)].sz = HEAP_SIZE BY <2>1, Zenon DEF Tiled
  <2>4. bs[Len(bs)].at \in Nat /\ bs[Len(bs)].sz \in Nat /\ bs[i].at \in Nat /\ bs[i].sz \in Nat BY <1>1, <2>1, Zenon
  <2>5. PICK x \in Nat, y \in Nat : x = bs[Len(bs)].at /\ y = bs[Len(bs)].sz BY <2>4, Zenon
  <2>6. PICK e \in Nat : e = bs[i].at + RIV_HEAP_HDR + bs[i].sz BY <2>4 DEF RIV_HEAP_HDR
  <2>7. e <= x /\ x + RIV_HEAP_HDR + y = HEAP_SIZE BY <2>2, <2>3, <2>5, <2>6, Zenon
  <2>8. e <= HEAP_SIZE BY <2>7 DEF RIV_HEAP_HDR
  <2> QED BY <2>6, <2>8, Zenon
<1> QED BY <1>2, <1>3, Zenon

\* Two blocks are one when their addresses are.
LEMMA OneAddress ==
    ASSUME NEW bs, Tiled(bs), NEW i \in 1 .. Len(bs), NEW j \in 1 .. Len(bs), bs[i].at = bs[j].at
    PROVE  i = j
<1>1. Len(bs) \in Nat /\ \A k \in 1 .. Len(bs) : bs[k].at \in Nat /\ bs[k].sz \in Nat BY Fields, Zenon DEF Tiled
<1>2. i < j => bs[i].at + RIV_HEAP_HDR + bs[i].sz <= bs[j].at BY Ordered, Zenon
<1>3. j < i => bs[j].at + RIV_HEAP_HDR + bs[j].sz <= bs[i].at BY Ordered, Zenon
<1> QED BY <1>1, <1>2, <1>3 DEF RIV_HEAP_HDR

-----------------------------------------------------------------------------
(* riv_heap_alloc.                                                         *)

\* A block is taken whole.
IsTaken(bs, i, cs, e) ==
    /\ i \in 1 .. Len(bs) /\ bs[i].free
    /\ cs \in Seq(Block) /\ e \in Block /\ Len(cs) = Len(bs)
    /\ \A k \in 1 .. Len(bs) : cs[k] = IF k = i THEN e ELSE bs[k]
    /\ e.at = bs[i].at /\ e.sz = bs[i].sz /\ ~e.free

\* A free block is taken whole.
LEMMA TakenWhole ==
    ASSUME NEW bs, Tiled(bs), OnePair(bs), NEW i, NEW cs, NEW e, IsTaken(bs, i, cs, e)
    PROVE  Tiled(cs) /\ OnePair(cs) /\ UsedOf(cs) = UsedOf(bs) \cup {e}
<1> USE DEF IsTaken
<1>1. Len(bs) \in Nat BY DEF Tiled
<1>2. \A k \in 1 .. Len(bs) : cs[k].at = bs[k].at /\ cs[k].sz = bs[k].sz BY Zenon
<1>3. Tiled(cs) BY <1>1, <1>2 DEF Tiled
<1>4. OnePair(cs) 
  <2>1. ASSUME NEW k \in Int, FreePair(cs, k) PROVE FreePair(bs, k)
    <3>1. k \in 1 .. Len(bs) /\ k + 1 \in 1 .. Len(bs) /\ cs[k].free /\ cs[k + 1].free BY <2>1, <1>1 DEF FreePair
    <3>2. k # i /\ k + 1 # i BY <3>1, Zenon
    <3> QED BY <3>1, <3>2, <1>1 DEF FreePair
  <2> QED BY <2>1, Zenon DEF OnePair
<1>5. ASSUME NEW b PROVE b \in UsedOf(cs) <=> b \in UsedOf(bs) \cup {e}
  <2>1. ASSUME NEW k \in 1 .. Len(cs), ~cs[k].free, b = cs[k] PROVE b \in UsedOf(bs) \cup {e} BY <2>1, Zenon DEF UsedOf
  <2>2. ASSUME NEW k \in 1 .. Len(bs), ~bs[k].free, b = bs[k] PROVE b \in UsedOf(cs)
    <3>1. k # i /\ cs[k] = bs[k] BY <2>2, Zenon
    <3> QED BY <3>1, <2>2, Zenon DEF UsedOf
  <2>3. e \in UsedOf(cs) BY Zenon DEF UsedOf
  <2> QED BY <2>1, <2>2, <2>3, Zenon DEF UsedOf
<1> QED BY <1>3, <1>4, <1>5, Zenon

\* A block is split, and its first part taken.
IsSplit(bs, i, cs, e, f) ==
    /\ i \in 1 .. Len(bs) /\ bs[i].free
    /\ cs \in Seq(Block) /\ e \in Block /\ f \in Block /\ Len(cs) = Len(bs) + 1
    /\ \A k \in 1 .. Len(bs) + 1 :
         cs[k] = IF k = i THEN e ELSE IF k = i + 1 THEN f ELSE IF k < i THEN bs[k] ELSE bs[k - 1]
    /\ e.at = bs[i].at /\ ~e.free /\ f.free /\ f.at = e.at + RIV_HEAP_HDR + e.sz
    /\ f.at + f.sz = bs[i].at + bs[i].sz

\* A free block is taken and the rest of it split off.
LEMMA TakenSplit ==
    ASSUME NEW bs, Tiled(bs), OnePair(bs), NEW i, NEW cs, NEW e, NEW f, IsSplit(bs, i, cs, e, f)
    PROVE  Tiled(cs) /\ OnePair(cs) /\ UsedOf(cs) = UsedOf(bs) \cup {e}
<1>1. Len(bs) \in Nat /\ \A k \in 1 .. Len(bs) : bs[k].at \in Nat /\ bs[k].sz \in Nat BY Fields, Zenon DEF Tiled
<1> USE DEF IsSplit
<1>2. e.at \in Nat /\ e.sz \in Nat /\ f.at \in Nat /\ f.sz \in Nat BY SMTT(30) DEF Block
<1>3. \A k \in 1 .. Len(bs) : k < i => cs[k] = bs[k] BY <1>1
<1>4. \A k \in 1 .. Len(bs) : k > i => cs[k + 1] = bs[k] BY <1>1
<1>5. cs[i] = e /\ cs[i + 1] = f BY <1>1
<1>6. Tiled(cs)
  <2>1. cs[1].at = 0 BY <1>1, <1>3, <1>5 DEF Tiled
  <2>2. ASSUME NEW k \in 1 .. Len(cs)
        PROVE  cs[k].at + RIV_HEAP_HDR + cs[k].sz = IF k = Len(cs) THEN HEAP_SIZE ELSE cs[k + 1].at
    <3>1. CASE k < i
      <4>1. k \in 1 .. Len(bs) /\ k # Len(bs) /\ k + 1 \in 1 .. Len(bs) /\ k # Len(cs) BY <3>1, <1>1
      <4>2. cs[k + 1].at = bs[k + 1].at BY <4>1, <3>1, <1>1, <1>3, <1>5
      <4> QED BY <4>1, <4>2, <3>1, <1>3 DEF Tiled
    <3>2. CASE k = i BY <3>2, <1>1, <1>2, <1>5
    <3>3. CASE k = i + 1
      <4>1. cs[k].at + RIV_HEAP_HDR + cs[k].sz = bs[i].at + RIV_HEAP_HDR + bs[i].sz
        <5>1. PICK x \in Nat, y \in Nat : x = f.at /\ y = f.sz BY <1>2, Zenon
        <5>2. PICK v \in Nat, w \in Nat : v = bs[i].at /\ w = bs[i].sz BY <1>1, Zenon
        <5>3. x + y = v + w BY <5>1, <5>2, Zenon
        <5>4. x + RIV_HEAP_HDR + y = v + RIV_HEAP_HDR + w BY <5>3 DEF RIV_HEAP_HDR
        <5> QED BY <3>3, <1>5, <5>1, <5>2, <5>4, Zenon
      <4>2. i # Len(bs) => cs[k + 1] = bs[i + 1] /\ k # Len(cs) BY <3>3, <1>1, <1>4
      <4>3. i = Len(bs) => k = Len(cs) BY <3>3, <1>1, Zenon
      <4> QED BY <4>1, <4>2, <4>3 DEF Tiled
    <3>4. CASE k > i + 1
      <4>1. PICK h \in 1 .. Len(bs) : h = k - 1 BY <3>4, <1>1
      <4>2. h > i /\ k = h + 1 /\ cs[k] = bs[h] BY <4>1, <3>4, <1>1, <1>4, SMTT(30)
      <4>3. h # Len(bs) => cs[k + 1] = bs[h + 1] /\ k # Len(cs) BY <4>2, <1>1, <1>4
      <4>4. h = Len(bs) => k = Len(cs) BY <4>2, <1>1, Zenon
      <4> QED BY <4>2, <4>3, <4>4 DEF Tiled
    <3> QED BY <3>1, <3>2, <3>3, <3>4, <1>1
  <2>3. cs \in Seq(Block) /\ Len(cs) >= 1 BY <1>1
  <2> QED BY <2>1, <2>2, <2>3, Zenon DEF Tiled
<1>7. OnePair(cs)
  <2> DEFINE back(k) == IF k < i THEN k ELSE k - 1
  <2>1. ASSUME NEW k \in Int, FreePair(cs, k) PROVE k # i /\ back(k) \in Int /\ FreePair(bs, back(k))
    <3>1. k \in 1 .. Len(bs) /\ cs[k].free /\ cs[k + 1].free BY <2>1, <1>1 DEF FreePair
    <3>2. k # i /\ k + 1 # i BY <3>1, <1>5, <1>1, Zenon
    <3>3. CASE k < i
      <4>1. k + 1 < i /\ k + 1 \in 1 .. Len(bs) /\ k \in 1 .. Len(bs) - 1 BY <3>1, <3>2, <3>3, <1>1
      <4> QED BY <4>1, <3>1, <3>3, <1>3 DEF FreePair
    <3>4. CASE k > i
      <4>1. PICK h \in 1 .. Len(bs) : h = k - 1 BY <3>1, <3>4, <1>1
      <4>2. h + 1 = k /\ h + 1 \in 1 .. Len(bs) /\ h + 1 > i /\ h >= i /\ h \in 1 .. Len(bs) - 1 BY <4>1, <3>1, <3>4, <1>1
      <4>3. bs[h + 1].free BY <4>2, <3>1, <1>4, Zenon
      <4>4. bs[h].free BY <4>2, <3>1, <1>4, <1>1
      <4>5. FreePair(bs, h) BY <4>2, <4>3, <4>4, Zenon DEF FreePair
      <4> QED BY <4>1, <4>5, <3>4
    <3> QED BY <3>1, <3>2, <3>3, <3>4, <1>1
  <2>2. ASSUME NEW k \in Int, NEW l \in Int, k # i, l # i, back(k) = back(l) PROVE k = l BY <2>2
  <2> HIDE DEF back
  <2> QED BY <2>1, <2>2, Zenon DEF OnePair
<1>8. ASSUME NEW b PROVE b \in UsedOf(cs) <=> b \in UsedOf(bs) \cup {e}
  <2>1. ASSUME NEW k \in 1 .. Len(cs), ~cs[k].free, b = cs[k] PROVE b \in UsedOf(bs) \cup {e}
    <3>1. k # i + 1 BY <2>1, <1>5, Zenon
    <3>2. CASE k = i BY <3>2, <2>1, <1>5, Zenon
    <3>3. CASE k < i BY <3>3, <2>1, <1>1, <1>3 DEF UsedOf
    <3>4. CASE k > i + 1
      <4>1. PICK h \in 1 .. Len(bs) : h = k - 1 BY <3>4, <1>1
      <4>2. cs[k] = bs[h] BY <4>1, <3>4, <1>1, <1>4
      <4> QED BY <4>2, <2>1, Zenon DEF UsedOf
    <3> QED BY <3>1, <3>2, <3>3, <3>4, <1>1
  <2>2. ASSUME NEW k \in 1 .. Len(bs), ~bs[k].free, b = bs[k] PROVE b \in UsedOf(cs)
    <3>1. k # i BY <2>2, Zenon
    <3>2. CASE k < i
      <4>1. k \in 1 .. Len(cs) /\ cs[k] = bs[k] BY <3>2, <1>1, <1>3
      <4> QED BY <4>1, <2>2, Zenon DEF UsedOf
    <3>3. CASE k > i
      <4>1. k + 1 \in 1 .. Len(cs) /\ cs[k + 1] = bs[k] BY <3>3, <1>1, <1>4
      <4> QED BY <4>1, <2>2, Zenon DEF UsedOf
    <3> QED BY <3>1, <3>2, <3>3, <1>1
  <2>3. e \in UsedOf(cs)
    <3>1. i \in 1 .. Len(cs) BY <1>1
    <3> QED BY <3>1, <1>5, Zenon DEF UsedOf
  <2> QED BY <2>1, <2>2, <2>3 DEF UsedOf
<1> QED BY <1>6, <1>7, <1>8, Zenon

\* Rounding up gives at least what it is given, unless it wraps.
LEMMA Rounded ==
    ASSUME NEW n \in Nat
    PROVE  /\ RoundUp(n, RIV_HEAP_ALIGN) \in Nat
           /\ n <= SIZE_MOD - RIV_HEAP_ALIGN => RoundUp(n, RIV_HEAP_ALIGN) >= n
<1>1. SIZE_MOD \in Nat /\ SIZE_MOD > 0 BY HeapAssumption DEF BumpBase, RIV_HEAP_ALIGN
<1>2. PICK x \in Nat : x = n + 3 OBVIOUS
<1>3. x % SIZE_MOD \in Nat BY <1>1
<1>4. x < SIZE_MOD => x % SIZE_MOD = x BY <1>1
<1>5. PICK y \in Nat : y = x % SIZE_MOD BY <1>3, Zenon
<1>6. RoundUp(n, RIV_HEAP_ALIGN) = (y \div 4) * 4
  <2>1. n + 4 - 1 = x BY <1>2
  <2> QED BY <2>1, <1>5, Zenon DEF RoundUp, RIV_HEAP_ALIGN
<1>7. (y \div 4) * 4 \in Nat /\ (y \div 4) * 4 + 3 >= y OBVIOUS
<1> QED BY <1>1, <1>2, <1>4, <1>5, <1>6, <1>7 DEF RIV_HEAP_ALIGN

\* What SubSeq and \o do to a list of blocks.
LEMMA Front == ASSUME NEW s \in Seq(Block), NEW n \in Nat, n <= Len(s), NEW a, a = SubSeq(s, 1, n)
               PROVE  a \in Seq(Block) /\ Len(a) = n /\ \A k \in 1 .. n : a[k] = s[k]
OBVIOUS

\* What is behind the first n.
LEMMA Rest == ASSUME NEW s \in Seq(Block), NEW n \in Nat, n <= Len(s), NEW c, c = SubSeq(s, n + 1, Len(s))
              PROVE  c \in Seq(Block) /\ Len(c) = Len(s) - n /\ \A k \in 1 .. Len(s) - n : c[k] = s[k + n]
<1>1. PICK l \in Nat : l = Len(s) OBVIOUS
<1>2. c = SubSeq(s, n + 1, l) BY <1>1, Zenon
<1>3. \A k \in n + 1 .. l : s[k] \in Block BY <1>1
<1>4. CASE n + 1 <= l
  <2>1. c \in Seq(Block) /\ Len(c) = l - n BY <1>1, <1>2, <1>3, <1>4
  <2>2. \A k \in 1 .. l - n : c[k] = s[k + n] BY <1>1, <1>2, <1>4
  <2> QED BY <2>1, <2>2, <1>1, Zenon
<1>5. CASE n = l BY <1>1, <1>2, <1>5
<1> QED BY <1>1, <1>4, <1>5

\* Two lists joined.
LEMMA JoinedBlocks == ASSUME NEW a \in Seq(Block), NEW b \in Seq(Block), NEW u, u = a \o b
                      PROVE  /\ u \in Seq(Block) /\ Len(u) = Len(a) + Len(b)
                             /\ \A k \in 1 .. Len(a) + Len(b) : u[k] = IF k <= Len(a) THEN a[k] ELSE b[k - Len(a)]
OBVIOUS

\* A list with t in the place of its i-th block.
Splice(s, i, t) == SubSeq(s, 1, i - 1) \o t \o SubSeq(s, i + 1, Len(s))

\* A block replaced by a list.
LEMMA Spliced ==
    ASSUME NEW s \in Seq(Block), NEW t \in Seq(Block), NEW i \in 1 .. Len(s)
    PROVE  /\ Splice(s, i, t) \in Seq(Block) /\ Len(Splice(s, i, t)) = Len(s) - 1 + Len(t)
           /\ \A k \in 1 .. Len(s) - 1 + Len(t) :
                Splice(s, i, t)[k] = IF k < i THEN s[k]
                                     ELSE IF k < i + Len(t) THEN t[k - (i - 1)] ELSE s[k - Len(t) + 1]
<1> DEFINE u == Splice(s, i, t)
<1> HIDE DEF u
<1>1. PICK n \in Nat, q \in Nat, h \in Nat : n = Len(s) /\ q = Len(t) /\ h = i - 1 OBVIOUS
<1>11. i \in Nat /\ i = h + 1 /\ i <= n /\ h <= n BY <1>1
<1>2. PICK a : a = SubSeq(s, 1, h) BY Zenon
<1>3. PICK c : c = SubSeq(s, i + 1, Len(s)) BY Zenon
<1>4. a \in Seq(Block) /\ Len(a) = h /\ \A k \in 1 .. h : a[k] = s[k] BY <1>1, <1>11, <1>2, Front
<1>5. c \in Seq(Block) /\ Len(c) = n - i /\ \A k \in 1 .. n - i : c[k] = s[k + i] BY <1>1, <1>11, <1>3, Rest
<1>6. PICK d : d = a \o t BY Zenon
<1>7. /\ d \in Seq(Block) /\ Len(d) = h + q
      /\ \A k \in 1 .. h + q : d[k] = IF k <= h THEN a[k] ELSE t[k - h]
  BY <1>1, <1>4, <1>6, JoinedBlocks
<1>8. u = d \o c BY <1>1, <1>2, <1>3, <1>6, Zenon DEF u, Splice
<1>9. /\ u \in Seq(Block) /\ Len(u) = (h + q) + (n - i)
      /\ \A k \in 1 .. (h + q) + (n - i) : u[k] = IF k <= h + q THEN d[k] ELSE c[k - (h + q)]
  <2>1. /\ u \in Seq(Block) /\ Len(u) = Len(d) + Len(c)
        /\ \A k \in 1 .. Len(d) + Len(c) : u[k] = IF k <= Len(d) THEN d[k] ELSE c[k - Len(d)]
    <3>1. d \in Seq(Block) /\ c \in Seq(Block) BY <1>5, <1>7, Zenon
    <3> QED BY <3>1, <1>8, JoinedBlocks
  <2>2. Len(d) = h + q /\ Len(c) = n - i BY <1>5, <1>7, Zenon
  <2> QED BY <2>1, <2>2, Zenon
<1>10. (h + q) + (n - i) = n - 1 + q BY <1>11
<1>12. ASSUME NEW k \in 1 .. n - 1 + q PROVE u[k] = IF k < i THEN s[k] ELSE IF k < i + q THEN t[k - h] ELSE s[k - q + 1]
  <2>1. u[k] = IF k <= h + q THEN d[k] ELSE c[k - (h + q)] BY <1>9, <1>10, Zenon
  <2>2. CASE k < i
    <3>1. k <= h + q /\ k <= h /\ k \in 1 .. h /\ k \in 1 .. h + q BY <2>2, <1>11
    <3> QED BY <2>1, <2>2, <3>1, <1>4, <1>7, Zenon
  <2>3. CASE ~(k < i) /\ k < i + q
    <3>1. k <= h + q /\ ~(k <= h) /\ k \in 1 .. h + q BY <2>3, <1>11
    <3> QED BY <2>1, <2>3, <3>1, <1>7, Zenon
  <2>4. CASE ~(k < i + q)
    <3>1. ~(k <= h + q) /\ ~(k < i) /\ k - (h + q) \in 1 .. n - i /\ (k - (h + q)) + i = k - q + 1 BY <2>4, <1>11
    <3>2. c[k - (h + q)] = s[(k - (h + q)) + i] BY <3>1, <1>5, Zenon
    <3> QED BY <2>1, <2>4, <3>1, <3>2, SMTT(30)
  <2> QED BY <2>2, <2>3, <2>4, Zenon
<1> QED BY <1>1, <1>9, <1>10, <1>12, Zenon DEF u

\* What riv_heap_alloc does to the list: one more block is used, at the address
\* of a free one and large enough.
LEMMA Taken ==
    ASSUME HeapInv, NEW asked \in Nat, riv_heap_alloc(asked)
    PROVE  \E i \in 1 .. Len(blocks), e \in Block :
             /\ blocks[i].free /\ e.at = blocks[i].at /\ ~e.free
             /\ asked <= SIZE_MOD - RIV_HEAP_ALIGN => e.sz >= asked
             /\ Tiled(blocks') /\ OnePair(blocks') /\ UsedOf(blocks') = UsedOf(blocks) \cup {e}
             /\ held' = [p \in DOMAIN held \cup {e.at + RIV_HEAP_HDR} |-> IF p = e.at + RIV_HEAP_HDR THEN asked ELSE held[p]]
<1>1. PICK sz \in Nat : sz = RoundUp(asked, RIV_HEAP_ALIGN) BY Rounded, Zenon
<1>2. asked <= SIZE_MOD - RIV_HEAP_ALIGN => sz >= asked BY <1>1, Rounded, Zenon
<1>3. PICK fits : fits = {i \in DOMAIN blocks : blocks[i].free /\ blocks[i].sz >= sz} BY Zenon
<1>4. PICK i : i = Min(fits) BY Zenon
<1>5. PICK b : b = blocks[i] BY Zenon
<1>6. PICK taken : taken = IF Splits(b, sz)
                   THEN <<[at |-> b.at, sz |-> sz, free |-> FALSE],
                          [at |-> b.at + RIV_HEAP_HDR + sz, sz |-> b.sz - sz - RIV_HEAP_HDR, free |-> TRUE]>>
                   ELSE <<[b EXCEPT !.free = FALSE]>>
  BY Zenon
<1>7. /\ fits # {}
      /\ blocks' = Splice(blocks, i, taken)
      /\ held' = [p \in DOMAIN held \cup {b.at + RIV_HEAP_HDR} |-> IF p = b.at + RIV_HEAP_HDR THEN asked ELSE held[p]]
  BY <1>1, <1>3, <1>4, <1>5, <1>6, Zenon DEF riv_heap_alloc, Splice
<1>8. blocks \in Seq(Block) /\ Tiled(blocks) /\ OnePair(blocks) BY Zenon DEF HeapInv, Tiled
<1>9. i \in fits
  <2>1. fits \subseteq Nat BY <1>3, <1>8
  <2> QED BY <2>1, <1>4, <1>7, MinOfNat, Zenon
<1>10. i \in 1 .. Len(blocks) /\ b.free /\ b.sz >= sz /\ b \in Block BY <1>3, <1>5, <1>8, <1>9
<1>11. b.at \in Nat /\ b.sz \in Nat BY <1>10, Zenon DEF Block
<1>12. CASE Splits(b, sz)
  <2>1. PICK e \in Block : e = [at |-> b.at, sz |-> sz, free |-> FALSE] BY <1>11, Zenon DEF Block
  <2>2. PICK x \in Nat, y \in Nat : x = b.at + RIV_HEAP_HDR + sz /\ y = b.sz - sz - RIV_HEAP_HDR
    BY <1>11, <1>12 DEF Splits, RIV_HEAP_HDR, RIV_HEAP_ALIGN
  <2>3. PICK f \in Block : f = [at |-> x, sz |-> y, free |-> TRUE] BY Zenon DEF Block
  <2>4. taken = <<e, f>> BY <1>6, <1>12, <2>1, <2>2, <2>3, Zenon
  <2>5. taken \in Seq(Block) /\ Len(taken) = 2 /\ taken[1] = e /\ taken[2] = f BY <2>4
  <2>6. /\ blocks' \in Seq(Block) /\ Len(blocks') = Len(blocks) - 1 + 2
        /\ \A k \in 1 .. Len(blocks') :
             blocks'[k] = IF k < i THEN blocks[k] ELSE IF k < i + 2 THEN taken[k - (i - 1)] ELSE blocks[k - 2 + 1]
    <3>1. /\ blocks' \in Seq(Block) /\ Len(blocks') = Len(blocks) - 1 + Len(taken)
          /\ \A k \in 1 .. Len(blocks) - 1 + Len(taken) : blocks'[k] = IF k < i THEN blocks[k]
                 ELSE IF k < i + Len(taken) THEN taken[k - (i - 1)] ELSE blocks[k - Len(taken) + 1]
      <4>1. blocks \in Seq(Block) /\ i \in 1 .. Len(blocks) /\ taken \in Seq(Block) BY <1>8, <1>10, <2>5, Zenon
      <4>2. blocks' = Splice(blocks, i, taken) BY <1>7, Zenon
      <4> QED BY <4>1, <4>2, Spliced, Zenon
    <3> QED BY <3>1, <2>5, Zenon
  <2>7. Len(blocks') = Len(blocks) + 1 BY <1>8, <2>6
  <2>8. ASSUME NEW k \in 1 .. Len(blocks) + 1
        PROVE blocks'[k] = IF k = i THEN e ELSE IF k = i + 1 THEN f ELSE IF k < i THEN blocks[k] ELSE blocks[k - 1]
    <3>1. k \in 1 .. Len(blocks') /\ k \in Int /\ i \in Int /\ Len(blocks) \in Nat BY <1>8, <1>10, <2>7
    <3>2. blocks'[k] = IF k < i THEN blocks[k] ELSE IF k < i + 2 THEN taken[k - (i - 1)] ELSE blocks[k - 2 + 1]
      BY <2>6, <3>1, Zenon
    <3>3. CASE k < i BY <3>1, <3>2, <3>3
    <3>4. CASE k = i
      <4>1. k - (i - 1) = 1 /\ ~(k < i) /\ k < i + 2 BY <3>1, <3>4
      <4> QED BY <4>1, <3>2, <3>4, <2>5, Zenon
    <3>5. CASE k = i + 1
      <4>1. k - (i - 1) = 2 /\ ~(k < i) /\ k < i + 2 /\ k # i BY <3>1, <3>5
      <4> QED BY <4>1, <3>2, <3>5, <2>5, Zenon
    <3>6. CASE k > i + 1
      <4>1. k - 2 + 1 = k - 1 /\ ~(k < i) /\ ~(k < i + 2) /\ k # i /\ k # i + 1 BY <3>1, <3>6
      <4> QED BY <4>1, <3>2, Zenon
    <3> QED BY <3>1, <3>3, <3>4, <3>5, <3>6
  <2>9. e.at = b.at /\ e.sz = sz /\ ~e.free /\ f.free /\ f.at = x /\ f.sz = y BY <2>1, <2>3, Zenon
  <2>10. f.at = e.at + RIV_HEAP_HDR + e.sz BY <2>2, <2>9, Zenon
  <2>11. f.at + f.sz = b.at + b.sz BY <2>2, <2>9, <1>11 DEF RIV_HEAP_HDR
  <2>12. Tiled(blocks') /\ OnePair(blocks') /\ UsedOf(blocks') = UsedOf(blocks) \cup {e}
    <3>1. IsSplit(blocks, i, blocks', e, f) BY <1>5, <1>10, <2>6, <2>7, <2>8, <2>9, <2>10, <2>11, Zenon DEF IsSplit
    <3> QED BY <3>1, <1>8, TakenSplit
  <2> QED BY <1>2, <1>5, <1>7, <1>10, <2>9, <2>12, Zenon
<1>13. CASE ~Splits(b, sz)
  <2>1. PICK e \in Block : e = [b EXCEPT !.free = FALSE] BY <1>10, Zenon DEF Block
  <2>2. e.at = b.at /\ e.sz = b.sz /\ ~e.free BY <1>10, <2>1, Zenon DEF Block
  <2>4. taken = <<e>> BY <1>6, <1>13, <2>1, Zenon
  <2>5. taken \in Seq(Block) /\ Len(taken) = 1 /\ taken[1] = e BY <2>4
  <2>6. /\ blocks' \in Seq(Block) /\ Len(blocks') = Len(blocks) - 1 + 1
        /\ \A k \in 1 .. Len(blocks') :
             blocks'[k] = IF k < i THEN blocks[k] ELSE IF k < i + 1 THEN taken[k - (i - 1)] ELSE blocks[k - 1 + 1]
    <3>1. /\ blocks' \in Seq(Block) /\ Len(blocks') = Len(blocks) - 1 + Len(taken)
          /\ \A k \in 1 .. Len(blocks) - 1 + Len(taken) : blocks'[k] = IF k < i THEN blocks[k]
                 ELSE IF k < i + Len(taken) THEN taken[k - (i - 1)] ELSE blocks[k - Len(taken) + 1]
      <4>1. blocks \in Seq(Block) /\ i \in 1 .. Len(blocks) /\ taken \in Seq(Block) BY <1>8, <1>10, <2>5, Zenon
      <4>2. blocks' = Splice(blocks, i, taken) BY <1>7, Zenon
      <4> QED BY <4>1, <4>2, Spliced, Zenon
    <3> QED BY <3>1, <2>5, Zenon
  <2>7. Len(blocks') = Len(blocks) BY <1>8, <2>6
  <2>8. ASSUME NEW k \in 1 .. Len(blocks) PROVE blocks'[k] = IF k = i THEN e ELSE blocks[k]
    BY <1>8, <1>10, <2>5, <2>6, <2>7
  <2>12. Tiled(blocks') /\ OnePair(blocks') /\ UsedOf(blocks') = UsedOf(blocks) \cup {e}
    <3>1. IsTaken(blocks, i, blocks', e) BY <1>5, <1>10, <2>2, <2>6, <2>7, <2>8, Zenon DEF IsTaken
    <3> QED BY <3>1, <1>8, TakenWhole, Zenon
  <2>13. asked <= SIZE_MOD - RIV_HEAP_ALIGN => e.sz >= asked BY <1>2, <1>10, <1>11, <2>2
  <2> QED BY <1>5, <1>7, <1>10, <2>2, <2>12, <2>13, Zenon
<1> QED BY <1>12, <1>13, Zenon

\* A used block is not at the address of a free one.
LEMMA UsedElsewhere ==
    ASSUME NEW bs, Tiled(bs), NEW i \in 1 .. Len(bs), bs[i].free, NEW b \in UsedOf(bs)
    PROVE  b \in Block /\ b.at \in Nat /\ b.sz \in Nat /\ b.at # bs[i].at /\ bs[i].at \in Nat
<1>1. PICK j \in 1 .. Len(bs) : ~bs[j].free /\ b = bs[j] BY Zenon DEF UsedOf
<1>2. j # i BY <1>1, Zenon
<1>3. bs[j] \in Block /\ bs[j].at \in Nat /\ bs[j].sz \in Nat /\ bs[i].at \in Nat BY Fields, Zenon DEF Tiled
<1>4. bs[i].at # bs[j].at BY <1>2, OneAddress, Zenon
<1> QED BY <1>1, <1>3, <1>4, Zenon

\* riv_heap_alloc.
LEMMA HeapAllocStep ==
    ASSUME HeapInv, NEW asked \in Nat, riv_heap_alloc(asked)
    PROVE  HeapInv'
<1>1. PICK i \in 1 .. Len(blocks), e \in Block :
             /\ blocks[i].free /\ e.at = blocks[i].at /\ ~e.free
             /\ asked <= SIZE_MOD - RIV_HEAP_ALIGN => e.sz >= asked
             /\ Tiled(blocks') /\ OnePair(blocks') /\ UsedOf(blocks') = UsedOf(blocks) \cup {e}
             /\ held' = [p \in DOMAIN held \cup {e.at + RIV_HEAP_HDR} |-> IF p = e.at + RIV_HEAP_HDR THEN asked ELSE held[p]]
  BY Taken, Zenon
<1>2. PICK a : a = e.at + RIV_HEAP_HDR BY Zenon
<1>3. held' = [p \in DOMAIN held \cup {a} |-> IF p = a THEN asked ELSE held[p]] BY <1>1, <1>2, Zenon
<1>4. held \in [DOMAIN held -> Nat] BY Zenon DEF HeapInv
<1>5. held' \in [DOMAIN held' -> Nat] BY <1>3, <1>4, Zenon
<1>6. Tiled(blocks) BY Zenon DEF HeapInv
<1>7. ASSUME NEW b \in UsedOf(blocks) PROVE b.at + RIV_HEAP_HDR # a /\ b.at + RIV_HEAP_HDR \in DOMAIN held
  <2>1. b.at \in Nat /\ b.at # e.at /\ e.at \in Nat BY <1>1, <1>6, UsedElsewhere, Zenon
  <2>2. b.at + RIV_HEAP_HDR # a BY <2>1, <1>2 DEF RIV_HEAP_HDR
  <2>3. b.at + RIV_HEAP_HDR \in DOMAIN held BY Zenon DEF HeapInv
  <2> QED BY <2>2, <2>3, Zenon
<1>8. {b.at + RIV_HEAP_HDR : b \in UsedOf(blocks)} = DOMAIN held BY Zenon DEF HeapInv
<1>9. DOMAIN held' = DOMAIN held \cup {a} BY <1>3, Zenon
<1>10. UsedOf(blocks') = UsedOf(blocks) \cup {e} BY <1>1, Zenon
<1>11. {b.at + RIV_HEAP_HDR : b \in UsedOf(blocks')} = DOMAIN held' BY <1>2, <1>8, <1>9, <1>10, Zenon
<1>12. ASSUME NEW b \in UsedOf(blocks'), NEW p, p = b.at + RIV_HEAP_HDR, held'[p] <= SIZE_MOD - RIV_HEAP_ALIGN
       PROVE  b.sz >= held'[p]
  <2>1. CASE b = e
    <3>1. p = a /\ held'[p] = asked BY <2>1, <1>2, <1>3, <1>12, Zenon
    <3> QED BY <3>1, <2>1, <1>1, <1>12, Zenon
  <2>2. CASE b # e
    <3>1. b \in UsedOf(blocks) BY <2>2, <1>10, Zenon
    <3>2. held'[p] = held[p] BY <3>1, <1>3, <1>7, <1>12, Zenon
    <3> QED BY <3>1, <3>2, <1>12, Zenon DEF HeapInv
  <2> QED BY <2>1, <2>2, Zenon
<1> QED BY <1>1, <1>5, <1>11, <1>12, Zenon DEF HeapInv

-----------------------------------------------------------------------------
(* riv_heap_free.                                                          *)

\* How many blocks the i-th of the blocks that out has after k blocks stands for.
Width(src, i, k) == (IF i = Len(src) THEN k + 1 ELSE src[i + 1]) - src[i]
Merged(b, c) == [b EXCEPT !.sz = @ + RIV_HEAP_HDR + c.sz]

\* The i-th block of out stands for the block src[i], or for two free ones from
\* src[i] on; a block is left as it is only when it and the next are not both
\* free.
StandsFor(bs, k, out, src, i) ==
    /\ src[i] \in 1 .. k /\ Width(src, i, k) \in {1, 2}
    /\ Width(src, i, k) = 1 => out[i] = bs[src[i]]
    /\ Width(src, i, k) = 2 => bs[src[i]].free /\ bs[src[i] + 1].free /\ out[i] = Merged(bs[src[i]], bs[src[i] + 1])
    /\ i # Len(src) /\ Width(src, i, k) = 1 => ~(bs[src[i]].free /\ bs[src[i] + 1].free)

Within(src, k, i, j) == j = src[i] \/ (Width(src, i, k) = 2 /\ j = src[i] + 1)

\* After k blocks of bs: out stands for them, in their order.
Covers(bs, k, out, src) ==
    /\ out \in Seq(Block) /\ src \in Seq(Nat) /\ Len(out) = Len(src)
    /\ k > 0 => Len(src) > 0 /\ src[1] = 1
    /\ \A i, j \in 1 .. Len(src) : i < j => src[i] < src[j]
    /\ \A i \in 1 .. Len(src) : StandsFor(bs, k, out, src, i)
    /\ \A j \in 1 .. k : \E i \in 1 .. Len(src) : Within(src, k, i, j)

Fed(src, k) == Len(src) > 0 /\ Width(src, Len(src), k) = 2

\* The fields of a merged block.
LEMMA MergedBlock ==
    ASSUME NEW b \in Block, NEW c \in Block
    PROVE  Merged(b, c) \in Block /\ Merged(b, c).at = b.at /\ Merged(b, c).sz = b.sz + RIV_HEAP_HDR + c.sz
           /\ (Merged(b, c).free <=> b.free)
BY DEF Block, Merged, RIV_HEAP_HDR

\* A turn of the walk that merges.
LEMMA CoversMerge ==
    ASSUME NEW bs \in Seq(Block), NEW k \in Nat, k + 1 <= Len(bs), NEW out, NEW src, Covers(bs, k, out, src),
           NEW n \in Nat, Len(out) = n, n > 0, ~Fed(src, k), out[n].free, bs[k + 1].free,
           NEW out2 \in Seq(Block), Len(out2) = n,
           \A i \in 1 .. n : out2[i] = IF i = n THEN Merged(out[n], bs[k + 1]) ELSE out[i]
    PROVE  Covers(bs, k + 1, out2, src) /\ Fed(src, k + 1)
<1>1. src \in Seq(Nat) /\ Len(src) = n /\ n \in 1 .. n BY DEF Covers
<1>2. \A i \in 1 .. n : src[i] \in Nat BY <1>1
<1>3. \A i \in 1 .. n : StandsFor(bs, k, out, src, i) BY <1>1, Zenon DEF Covers
<1>4. Width(src, n, k) = 1
  <2>1. StandsFor(bs, k, out, src, n) BY <1>1, <1>3, Zenon
  <2>2. Width(src, n, k) # 2 BY <1>1, Zenon DEF Fed
  <2> QED BY <2>1, <2>2, Zenon DEF StandsFor
<1>5. src[n] = k
  <2>1. Width(src, n, k) = k + 1 - src[n] BY <1>1, <1>2 DEF Width
  <2> QED BY <2>1, <1>1, <1>2, <1>4
<1>6. out[n] = bs[k] /\ k \in 1 .. k
  <2>1. StandsFor(bs, k, out, src, n) BY <1>1, <1>3, Zenon
  <2> QED BY <2>1, <1>4, <1>5, Zenon DEF StandsFor
<1>7. Width(src, n, k + 1) = 2 BY <1>1, <1>5 DEF Width
<1>8. ASSUME NEW i \in 1 .. n, i # n PROVE Width(src, i, k + 1) = Width(src, i, k) BY <1>1, <1>8, Zenon DEF Width
<1>9. Fed(src, k + 1) BY <1>1, <1>7, Zenon DEF Fed
<1>10. ASSUME NEW i \in 1 .. n PROVE StandsFor(bs, k + 1, out2, src, i)
  <2>1. CASE i = n
    <3>1. out2[n] = Merged(bs[k], bs[k + 1]) BY <1>1, <1>6, Zenon
    <3>2. k \in 1 .. k + 1 BY <1>6
    <3> QED BY <2>1, <3>1, <3>2, <1>1, <1>5, <1>6, <1>7 DEF StandsFor
  <2>2. CASE i # n
    <3>1. Width(src, i, k + 1) = Width(src, i, k) /\ out2[i] = out[i] BY <2>2, <1>8, Zenon
    <3>2. StandsFor(bs, k, out, src, i) BY <1>3, Zenon
    <3>3. src[i] \in 1 .. k + 1 BY <3>2 DEF StandsFor
    <3> QED BY <3>1, <3>2, <3>3, Zenon DEF StandsFor
  <2> QED BY <2>1, <2>2, Zenon
<1>11. ASSUME NEW j \in 1 .. k + 1 PROVE \E i \in 1 .. n : Within(src, k + 1, i, j)
  <2>1. CASE j = k + 1
    <3>1. Within(src, k + 1, n, j) BY <2>1, <1>5, <1>7, Zenon DEF Within
    <3> QED BY <3>1, <1>1, Zenon
  <2>2. CASE j # k + 1
    <3>1. j \in 1 .. k BY <2>2
    <3>2. PICK i \in 1 .. n : Within(src, k, i, j) BY <3>1, <1>1, Zenon DEF Covers
    <3>3. CASE i = n BY <3>2, <3>3, <1>4 DEF Within
    <3>4. CASE i # n BY <3>2, <3>4, <1>8, Zenon DEF Within
    <3> QED BY <3>3, <3>4, Zenon
  <2> QED BY <2>1, <2>2, Zenon
<1>12. k > 0 BY <1>6
<1>13. src[1] = 1 /\ \A i, j \in 1 .. n : i < j => src[i] < src[j] BY <1>1, <1>12, Zenon DEF Covers
<1>14. Covers(bs, k + 1, out2, src) BY <1>1, <1>10, <1>11, <1>13, Zenon DEF Covers
<1> QED BY <1>9, <1>14, Zenon

IsAppended(s, u, x, m) == Len(u) = m /\ \A i \in 1 .. m : u[i] = IF i = m THEN x ELSE s[i]

\* A turn that goes on to the next block.
LEMMA CoversAppend ==
    ASSUME NEW bs \in Seq(Block), NEW k \in Nat, k + 1 <= Len(bs), NEW out, NEW src, Covers(bs, k, out, src),
           NEW n \in Nat, Len(out) = n, n > 0 /\ ~Fed(src, k) => ~(out[n].free /\ bs[k + 1].free),
           NEW m \in Nat, m = n + 1,
           NEW out2 \in Seq(Block), IsAppended(out, out2, bs[k + 1], m),
           NEW src2 \in Seq(Nat), IsAppended(src, src2, k + 1, m)
    PROVE  Covers(bs, k + 1, out2, src2) /\ ~Fed(src2, k + 1)
<1> USE DEF IsAppended
<1>1. src \in Seq(Nat) /\ Len(src) = n BY Zenon DEF Covers
<1>2. \A i \in 1 .. n : StandsFor(bs, k, out, src, i) BY <1>1, Zenon DEF Covers
<1>3. \A i \in 1 .. n : src[i] \in Nat /\ src[i] \in 1 .. k
  <2>1. ASSUME NEW i \in 1 .. n PROVE src[i] \in 1 .. k BY <1>2, Zenon DEF StandsFor
  <2> QED BY <2>1
<1>4. m \in 1 .. m /\ src2[m] = k + 1 /\ out2[m] = bs[k + 1] OBVIOUS
<1>5. ASSUME NEW i \in 1 .. n PROVE i # m /\ i \in 1 .. m /\ i + 1 \in 1 .. m /\ (i = n <=> i + 1 = m) OBVIOUS
<1>6. \A i \in 1 .. n : src2[i] = src[i] /\ out2[i] = out[i] BY <1>5, Zenon
<1>7. Width(src2, m, k + 1) = 1 BY <1>4 DEF Width
<1>8. ASSUME NEW i \in 1 .. n PROVE Width(src2, i, k + 1) = Width(src, i, k)
  <2>1. src2[i + 1] = IF i = n THEN k + 1 ELSE src[i + 1] BY <1>5, Zenon
  <2>2. Width(src2, i, k + 1) = src2[i + 1] - src2[i] BY <1>5, Zenon DEF Width
  <2>3. Width(src, i, k) = (IF i = n THEN k + 1 ELSE src[i + 1]) - src[i] BY <1>1, Zenon DEF Width
  <2> QED BY <2>1, <2>2, <2>3, <1>6, Zenon
<1>9. ~Fed(src2, k + 1) BY <1>7 DEF Fed
<1>10. ASSUME NEW i \in 1 .. m PROVE StandsFor(bs, k + 1, out2, src2, i)
  <2>1. CASE i = m
    <3>1. k + 1 \in 1 .. k + 1 OBVIOUS
    <3> QED BY <2>1, <3>1, <1>4, <1>7 DEF StandsFor
  <2>2. CASE i # m
    <3>1. i \in 1 .. n BY <2>2
    <3>2. Width(src2, i, k + 1) = Width(src, i, k) /\ out2[i] = out[i] /\ src2[i] = src[i] BY <3>1, <1>6, <1>8, Zenon
    <3>3. StandsFor(bs, k, out, src, i) BY <3>1, <1>2, Zenon
    <3>4. ASSUME i = n, Width(src, i, k) = 1 PROVE ~(bs[src[i]].free /\ bs[src[i] + 1].free)
      <4>1. n > 0 /\ ~Fed(src, k) BY <3>1, <3>4, <1>1 DEF Fed
      <4>5. n \in 1 .. n /\ src[n] \in Nat BY <3>1, <3>4, <1>3, Zenon
      <4>2. Width(src, n, k) = k + 1 - src[n] BY <4>5, <1>1 DEF Width
      <4>3. src[n] = k BY <4>2, <3>1, <3>4, <1>3
      <4>4. out[n] = bs[k] BY <3>3, <3>4, <4>3, Zenon DEF StandsFor
      <4> QED BY <4>1, <4>3, <4>4, <3>4, Zenon
    <3>5. src[i] \in 1 .. k + 1 BY <3>1, <1>3
    <3>6. Width(src, i, k) = 1 => ~(bs[src[i]].free /\ bs[src[i] + 1].free) BY <3>3, <3>4, <1>1, Zenon DEF StandsFor
    <3> QED BY <3>2, <3>3, <3>5, <3>6, Zenon DEF StandsFor
  <2> QED BY <2>1, <2>2, Zenon
<1>11. ASSUME NEW j \in 1 .. k + 1 PROVE \E i \in 1 .. m : Within(src2, k + 1, i, j)
  <2>1. CASE j = k + 1
    <3>1. Within(src2, k + 1, m, j) BY <2>1, <1>4, Zenon DEF Within
    <3> QED BY <3>1, <1>4, Zenon
  <2>2. CASE j # k + 1
    <3>1. j \in 1 .. k BY <2>2
    <3>2. PICK i \in 1 .. n : Within(src, k, i, j) BY <3>1, <1>1, Zenon DEF Covers
    <3>3. Within(src2, k + 1, i, j) BY <3>2, <1>6, <1>8, Zenon DEF Within
    <3> QED BY <3>3, <1>5, Zenon
  <2> QED BY <2>1, <2>2, Zenon
<1>12. src2[1] = 1
  <2>1. CASE k > 0
    <3>1. n > 0 /\ src[1] = 1 BY <2>1, <1>1, Zenon DEF Covers
    <3> QED BY <3>1, <1>6
  <2>2. CASE k = 0
    <3>1. n = 0
      <4> SUFFICES ASSUME n # 0 PROVE FALSE BY Zenon
      <4>1. 1 \in 1 .. n OBVIOUS
      <4>2. src[1] \in 1 .. 0 BY <4>1, <1>3, <2>2, SMTT(30)
      <4> QED BY <4>2
    <3> QED BY <3>1, <2>2, <1>4
  <2> QED BY <2>1, <2>2
<1>13. ASSUME NEW i \in 1 .. m, NEW j \in 1 .. m, i < j PROVE src2[i] < src2[j]
  <2>1. i \in 1 .. n BY <1>13
  <2>2. src2[i] = src[i] /\ src[i] \in 1 .. k BY <2>1, <1>3, <1>6, Zenon
  <2>3. CASE j = m BY <2>2, <2>3, <1>4
  <2>4. CASE j # m
    <3>1. j \in 1 .. n BY <2>4
    <3>2. src2[j] = src[j] BY <3>1, <1>6, Zenon
    <3>3. src[i] < src[j] BY <2>1, <3>1, <1>1, <1>13, Zenon DEF Covers
    <3> QED BY <2>2, <3>2, <3>3, Zenon
  <2> QED BY <2>3, <2>4, Zenon
<1>14. Covers(bs, k + 1, out2, src2) BY <1>10, <1>11, <1>12, <1>13 DEF Covers
<1> QED BY <1>9, <1>14, Zenon

\* One block of a list replaced.
LEMMA Replaced ==
    ASSUME NEW s \in Seq(Block), NEW n \in 1 .. Len(s), NEW b \in Block, NEW u, u = [s EXCEPT ![n] = b]
    PROVE  u \in Seq(Block) /\ Len(u) = Len(s) /\ \A i \in 1 .. Len(s) : u[i] = IF i = n THEN b ELSE s[i]
OBVIOUS

\* Any turn of the walk.
LEMMA CoversStep ==
    ASSUME NEW bs \in Seq(Block), NEW k \in Nat, k + 1 <= Len(bs), NEW s, NEW src,
           Covers(bs, k, s.out, src), s.fed <=> Fed(src, k),
           NEW s2, s2 = CoalesceStep(s, bs[k + 1])
    PROVE  \E src2 : Covers(bs, k + 1, s2.out, src2) /\ (s2.fed <=> Fed(src2, k + 1))
<1>1. PICK out : out = s.out BY Zenon
<1>2. PICK n : n = Len(out) BY Zenon
<1>3. out \in Seq(Block) /\ src \in Seq(Nat) /\ n \in Nat /\ Len(src) = n /\ Covers(bs, k, out, src) BY <1>1, <1>2 DEF Covers
<1>4. bs[k + 1] \in Block OBVIOUS
<1>5. CASE n > 0 /\ ~s.fed /\ Merges(out[n], bs[k + 1])
  <2>1. out[n] \in Block BY <1>2, <1>3, <1>5
  <2>2. PICK b \in Block : b = Merged(out[n], bs[k + 1]) BY <2>1, <1>4, MergedBlock, Zenon
  <2>3. PICK out2 : out2 = [out EXCEPT ![n] = b] BY Zenon
  <2>4. out2 \in Seq(Block) /\ Len(out2) = n /\ \A i \in 1 .. n : out2[i] = IF i = n THEN b ELSE out[i]
    <3>1. n \in 1 .. Len(out) BY <1>2, <1>3, <1>5
    <3> QED BY <1>2, <1>3, <2>3, <3>1, Replaced
  <2>5. s2 = [out |-> out2, fed |-> TRUE]
    BY <1>1, <1>2, <1>5, <2>2, <2>3, Zenon DEF CoalesceStep, Merged
  <2>6. Covers(bs, k + 1, out2, src) /\ Fed(src, k + 1)
    <3>1. \A i \in 1 .. n : out2[i] = IF i = n THEN Merged(out[n], bs[k + 1]) ELSE out[i] BY <2>2, <2>4, Zenon
    <3>2. n > 0 /\ ~Fed(src, k) /\ out[n].free /\ bs[k + 1].free BY <1>5, Zenon DEF Merges
    <3> QED BY <3>1, <3>2, <1>2, <1>3, <2>4, CoversMerge, ZenonT(40)
  <2> QED BY <2>5, <2>6
<1>6. CASE ~(n > 0 /\ ~s.fed /\ Merges(out[n], bs[k + 1]))
  <2>1. PICK out2 : out2 = Append(out, bs[k + 1]) BY Zenon
  <2>2. PICK src2 : src2 = Append(src, k + 1) BY Zenon
  <2>3. PICK m \in Nat : m = n + 1 BY <1>3
  <2>4. out2 \in Seq(Block) /\ Len(out2) = m /\ \A i \in 1 .. m : out2[i] = IF i = m THEN bs[k + 1] ELSE out[i]
    BY <1>2, <1>3, <1>4, <2>1, <2>3
  <2>5. src2 \in Seq(Nat) /\ Len(src2) = m /\ \A i \in 1 .. m : src2[i] = IF i = m THEN k + 1 ELSE src[i]
    BY <1>3, <2>2, <2>3
  <2>6. s2 = [out |-> out2, fed |-> FALSE]
    <3>1. ~(Len(s.out) > 0 /\ ~s.fed /\ Merges(s.out[Len(s.out)], bs[k + 1])) BY <1>1, <1>2, <1>6, Zenon
    <3>2. CoalesceStep(s, bs[k + 1]) = [out |-> Append(s.out, bs[k + 1]), fed |-> FALSE] BY <3>1, Zenon DEF CoalesceStep
    <3> QED BY <3>2, <1>1, <2>1, Zenon
  <2>7. Covers(bs, k + 1, out2, src2) /\ ~Fed(src2, k + 1)
    <3>1. n > 0 /\ ~Fed(src, k) => ~(out[n].free /\ bs[k + 1].free) BY <1>6, Zenon DEF Merges
    <3>2. out2 \in Seq(Block) /\ IsAppended(out, out2, bs[k + 1], m) BY <2>4, Zenon DEF IsAppended
    <3>3. src2 \in Seq(Nat) /\ IsAppended(src, src2, k + 1, m) BY <2>5, Zenon DEF IsAppended
    <3> QED BY <3>1, <3>2, <3>3, <1>2, <1>3, <2>3, CoversAppend, Zenon
  <2> QED BY <2>6, <2>7
<1> QED BY <1>5, <1>6, Zenon

\* The whole walk, by its least turn that fails.
LEMMA CoversAll ==
    ASSUME NEW bs \in Seq(Block)
    PROVE  \E src : Covers(bs, Len(bs), Coalesced(bs), src)
<1> DEFINE First == [out |-> <<>>, fed |-> FALSE]
           Walk(f, N) == [n \in 0 .. N |-> IF n = 0 THEN First ELSE CoalesceStep(f[n - 1], bs[n])]
           Walked == CHOOSE f : f = Walk(f, Len(bs))
<1>1. PICK N \in Nat : N = Len(bs) OBVIOUS
<1> HIDE DEF First
<1>2. \E f : f = Walk(f, N)
  <2> DEFINE T == {K \in Nat : ~\E f : f = Walk(f, K)}
  <2>1. ASSUME T # {} PROVE FALSE
    <3>1. T \subseteq Nat BY Zenon
    <3>2. PICK K \in T : \A y \in T : K <= y
      <4> HIDE DEF T
      <4> QED BY <2>1, <3>1, LeastOfNat, Zenon
    <3>3. ~\E f : f = Walk(f, K) BY Zenon
    <3>4. K # 0
      <4>1. PICK f : f = [n \in 0 .. 0 |-> First] BY Zenon
      <4>2. f = Walk(f, 0) BY <4>1
      <4>3. \E h : h = Walk(h, 0) BY <4>2, Zenon
      <4> HIDE DEF Walk
      <4> QED BY <4>3, <3>3, Zenon
    <3>5. PICK L \in Nat : K = L + 1 BY <3>4
    <3>6. L \notin T
      <4>1. ~(K <= L) /\ K \in Nat BY <3>1, <3>5
      <4> HIDE DEF T
      <4> QED BY <3>2, <4>1, Zenon
    <3>7. PICK f : f = Walk(f, L) BY <3>6, Zenon
    <3> DEFINE g == [n \in 0 .. K |-> IF n = K THEN CoalesceStep(f[L], bs[K]) ELSE f[n]]
    <3>8. ASSUME NEW n \in 0 .. K PROVE g[n] = IF n = 0 THEN First ELSE CoalesceStep(g[n - 1], bs[n])
      <4>1. CASE n = 0
        <5>1. f[0] = First BY <3>7
        <5> QED BY <5>1, <4>1, <3>5
      <4>2. CASE n = K
        <5>1. n - 1 = L /\ g[L] = f[L] BY <4>2, <3>5
        <5> QED BY <5>1, <4>2, <3>4, Zenon
      <4>3. CASE n # 0 /\ n # K
        <5>1. n \in 0 .. L /\ n - 1 \in 0 .. L /\ n - 1 # K BY <4>3, <3>5
        <5>2. f[n] = CoalesceStep(f[n - 1], bs[n]) BY <5>1, <4>3, <3>7, Zenon
        <5>3. g[n - 1] = f[n - 1] /\ g[n] = f[n] BY <5>1, <4>3, <3>5
        <5> QED BY <5>2, <5>3, <4>3, Zenon
      <4> QED BY <4>1, <4>2, <4>3, Zenon
    <3>9. g = Walk(g, K) BY <3>8, Zenon
    <3> QED BY <3>3, <3>9, Zenon
  <2> QED BY <2>1, Zenon
<1>3. PICK f : f = Walked BY Zenon
<1>4. f = Walk(f, N) BY <1>1, <1>2, <1>3, SMTT(30)
<1>5. Coalesced(bs) = f[N].out BY <1>1, <1>3, Zenon DEF Coalesced, First
<1> HIDE DEF Walked
<1>6. f[0] = First /\ \A k \in Nat : k + 1 <= N => f[k + 1] = CoalesceStep(f[k], bs[k + 1])
  <2>1. f[0] = First
    <3>1. 0 \in 0 .. N OBVIOUS
    <3>2. PICK g : g = Walk(f, N) BY Zenon
    <3>3. g[0] = First BY <3>1, <3>2, Zenon
    <3> QED BY <3>2, <3>3, <1>4, Zenon
  <2>2. ASSUME NEW k \in Nat, k + 1 <= N PROVE f[k + 1] = CoalesceStep(f[k], bs[k + 1])
    <3>1. k + 1 \in 0 .. N /\ k + 1 # 0 /\ (k + 1) - 1 = k BY <2>2
    <3> QED BY <3>1, <1>4, Zenon
  <2> QED BY <2>1, <2>2, Zenon
<1> HIDE DEF Walk
<1> DEFINE Good(k) == \E src : Covers(bs, k, f[k].out, src) /\ (f[k].fed <=> Fed(src, k))
           Bad == {k \in 0 .. N : ~Good(k)}
<1>7. Good(0)
  <2>1. f[0].out = <<>> /\ f[0].fed = FALSE BY <1>6 DEF First
  <2>2. Covers(bs, 0, <<>>, <<>>) /\ ~Fed(<<>>, 0) BY DEF Covers, Fed
  <2> QED BY <2>1, <2>2, Zenon
<1>8. ASSUME NEW k \in Nat, k + 1 <= N, Good(k) PROVE Good(k + 1)
  <2>1. PICK src : Covers(bs, k, f[k].out, src) /\ (f[k].fed <=> Fed(src, k)) BY <1>8, Zenon
  <2>2. f[k + 1] = CoalesceStep(f[k], bs[k + 1]) BY <1>6, <1>8, Zenon
  <2> QED BY <2>1, <2>2, <1>1, <1>8, CoversStep, Zenon
<1> HIDE DEF Good
<1>9. Bad = {}
  <2>1. ASSUME Bad # {} PROVE FALSE
    <3>1. Bad \subseteq Nat OBVIOUS
    <3>2. PICK K \in Bad : \A y \in Bad : K <= y
      <4> HIDE DEF Bad
      <4> QED BY <2>1, <3>1, LeastOfNat, Zenon
    <3>3. K # 0 BY <3>2, <1>7, Zenon
    <3>4. PICK L \in Nat : K = L + 1 BY <3>3
    <3>5. L \notin Bad /\ L \in 0 .. N BY <3>2, <3>4
    <3> QED BY <3>2, <3>4, <3>5, <1>8
  <2> QED BY <2>1, Zenon
<1>10. Good(N) BY <1>9
<1> QED BY <1>1, <1>5, <1>10, Zenon DEF Good

\* What one walk makes of a list that tiles the memory.
LEMMA CoalescedIs ==
    ASSUME NEW bs, Tiled(bs), NEW k \in Nat, k = Len(bs), NEW out, NEW src, Covers(bs, k, out, src)
    PROVE  Tiled(out) /\ UsedOf(out) = UsedOf(bs)
<1>1. bs \in Seq(Block) /\ k >= 1 /\ bs[1].at = 0 BY Zenon DEF Tiled
<1>2. \A j \in 1 .. k : bs[j] \in Block /\ bs[j].at \in Nat /\ bs[j].sz \in Nat BY <1>1, Fields, Zenon
<1>3. PICK n \in Nat : n = Len(src) BY DEF Covers
<1>4. /\ out \in Seq(Block) /\ src \in Seq(Nat) /\ Len(out) = n /\ n > 0 /\ src[1] = 1 /\ Len(src) = n
  BY <1>1, <1>3 DEF Covers
<1>5. \A i \in 1 .. n : StandsFor(bs, k, out, src, i) BY <1>3, Zenon DEF Covers
<1>6. ASSUME NEW i \in 1 .. n
      PROVE  /\ src[i] \in 1 .. k /\ out[i].at = bs[src[i]].at
             /\ out[i].at + RIV_HEAP_HDR + out[i].sz = IF i = n THEN HEAP_SIZE ELSE bs[src[i + 1]].at
             /\ ~out[i].free => out[i] = bs[src[i]]
  <2>1. StandsFor(bs, k, out, src, i) BY <1>5, Zenon
  <2>2. src[i] \in 1 .. k BY <2>1, Zenon DEF StandsFor
  <2>3. PICK s \in 1 .. k : s = src[i] BY <2>2, Zenon
  <2>4. PICK e \in Int : e = IF i = n THEN k + 1 ELSE src[i + 1]
    <3>1. i # n => i + 1 \in 1 .. n BY <1>3
    <3>2. i # n => src[i + 1] \in Nat BY <3>1, <1>4
    <3> QED BY <3>2
  <2>5. Width(src, i, k) = e - s BY <2>3, <2>4, <1>3, Zenon DEF Width
  <2>6. \A j \in 1 .. k : bs[j].at + RIV_HEAP_HDR + bs[j].sz = IF j = k THEN HEAP_SIZE ELSE bs[j + 1].at BY Zenon DEF Tiled
  <2>7. CASE Width(src, i, k) = 1
    <3>1. out[i] = bs[s] BY <2>1, <2>3, <2>7, Zenon DEF StandsFor
    <3>2. e = s + 1 BY <2>5, <2>7
    <3>3. s = k <=> i = n
      <4>1. i = n => s = k BY <3>2, <2>4
      <4>2. ASSUME i # n PROVE s # k
        <5>1. i + 1 \in 1 .. n BY <4>2, <1>3
        <5>2. src[i + 1] \in 1 .. k BY <5>1, <1>5, Zenon DEF StandsFor
        <5> QED BY <4>2, <5>2, <3>2, <2>4
      <4> QED BY <4>1, <4>2, Zenon
    <3> QED BY <3>1, <3>2, <3>3, <2>3, <2>4, <2>6, Zenon
  <2>8. CASE Width(src, i, k) = 2
    <3>1. e = s + 2 BY <2>5, <2>8
    <3>2. e <= k + 1 /\ (e = k + 1 <=> i = n)
      <4>1. ASSUME i # n PROVE e <= k
        <5>1. i + 1 \in 1 .. n BY <4>1, <1>3
        <5>2. src[i + 1] \in 1 .. k BY <5>1, <1>5, Zenon DEF StandsFor
        <5> QED BY <4>1, <5>2, <2>4
      <4> QED BY <4>1, <2>4
    <3>3. PICK r \in 1 .. k : r = s + 1 BY <3>1, <3>2
    <3>4. bs[s].free /\ out[i] = Merged(bs[s], bs[r]) BY <2>1, <2>3, <2>8, <3>3, Zenon DEF StandsFor
    <3>5. out[i].at = bs[s].at /\ out[i].sz = bs[s].sz + RIV_HEAP_HDR + bs[r].sz /\ out[i].free
      BY <3>4, <1>2, MergedBlock
    <3>6. bs[s].at + RIV_HEAP_HDR + bs[s].sz = bs[r].at BY <2>6, <3>3
    <3>7. bs[r].at + RIV_HEAP_HDR + bs[r].sz = IF i = n THEN HEAP_SIZE ELSE bs[e].at BY <2>6, <3>1, <3>2, <3>3
    <3>8. out[i].at + RIV_HEAP_HDR + out[i].sz = bs[r].at + RIV_HEAP_HDR + bs[r].sz
      <4>1. PICK a \in Nat, z \in Nat : a = bs[s].at /\ z = bs[s].sz BY <1>2, Zenon
      <4>2. PICK b \in Nat, y \in Nat : b = bs[r].at /\ y = bs[r].sz BY <1>2, Zenon
      <4>3. a + RIV_HEAP_HDR + z = b BY <3>6, <4>1, <4>2, Zenon
      <4>4. a + RIV_HEAP_HDR + (z + RIV_HEAP_HDR + y) = b + RIV_HEAP_HDR + y BY <4>3 DEF RIV_HEAP_HDR
      <4> QED BY <3>5, <4>1, <4>2, <4>4, Zenon
    <3> QED BY <3>5, <3>7, <3>8, <2>3, <2>4, Zenon
  <2> QED BY <2>1, <2>7, <2>8, Zenon DEF StandsFor
<1>7. out[1].at = 0 BY <1>1, <1>4, <1>6
<1>8. ASSUME NEW i \in 1 .. n
      PROVE  out[i].at + RIV_HEAP_HDR + out[i].sz = IF i = n THEN HEAP_SIZE ELSE out[i + 1].at
  <2>1. i # n => i + 1 \in 1 .. n BY <1>3
  <2> QED BY <2>1, <1>6, Zenon
<1>9. Tiled(out) BY <1>4, <1>7, <1>8, SMTT(30) DEF Tiled
<1>10. ASSUME NEW b \in UsedOf(out) PROVE b \in UsedOf(bs)
  <2>1. PICK i \in 1 .. n : ~out[i].free /\ b = out[i] BY <1>4, Zenon DEF UsedOf
  <2>2. src[i] \in 1 .. k /\ b = bs[src[i]] BY <2>1, <1>6, Zenon
  <2> QED BY <2>1, <2>2, Zenon DEF UsedOf
<1>11. ASSUME NEW b \in UsedOf(bs) PROVE b \in UsedOf(out)
  <2>1. PICK j \in 1 .. k : ~bs[j].free /\ b = bs[j] BY Zenon DEF UsedOf
  <2>2. PICK i \in 1 .. n : Within(src, k, i, j) BY <1>3, Zenon DEF Covers
  <2>3. StandsFor(bs, k, out, src, i) BY <1>5, Zenon
  <2>4. Width(src, i, k) # 2 BY <2>1, <2>2, <2>3, Zenon DEF Within, StandsFor
  <2>5. b = out[i] /\ ~out[i].free BY <2>1, <2>2, <2>3, <2>4, Zenon DEF Within, StandsFor
  <2> QED BY <2>5, <1>4, Zenon DEF UsedOf
<1> QED BY <1>9, <1>10, <1>11, Zenon

\* Two free neighbours that the walk leaves stand behind three free ones in a
\* row.
LEMMA LeftBehind ==
    ASSUME NEW bs \in Seq(Block), NEW k \in Nat, k = Len(bs), NEW out, NEW src, Covers(bs, k, out, src),
           NEW i \in Int, FreePair(out, i)
    PROVE  /\ i \in 1 .. Len(src) /\ i + 1 \in 1 .. Len(src) /\ src[i] \in Nat /\ src[i + 1] = src[i] + 2
           /\ FreePair(bs, src[i]) /\ FreePair(bs, src[i] + 1)
<1>1. PICK n \in Nat : n = Len(src) BY DEF Covers
<1>2. /\ out \in Seq(Block) /\ src \in Seq(Nat) /\ Len(out) = n /\ Len(src) = n BY <1>1, Zenon DEF Covers
<1>3. i \in 1 .. n /\ i + 1 \in 1 .. n /\ i # n BY <1>2 DEF FreePair
<1>4. StandsFor(bs, k, out, src, i) /\ StandsFor(bs, k, out, src, i + 1) BY <1>1, <1>3, Zenon DEF Covers
<1>5. PICK s \in 1 .. k, r \in 1 .. k : s = src[i] /\ r = src[i + 1] BY <1>4, Zenon DEF StandsFor
<1>6. bs[s].free /\ bs[r].free
  <2>1. out[i].free /\ out[i + 1].free BY SMTT(30) DEF FreePair
  <2>2. bs[s].free BY <1>4, <1>5, <2>1, SMTT(30) DEF StandsFor
  <2>3. bs[r].free BY <1>4, <1>5, <2>1, Zenon DEF StandsFor
  <2> QED BY <2>2, <2>3, Zenon
<1>7. Width(src, i, k) = r - s BY <1>2, <1>3, <1>5, SMTT(30) DEF Width
<1>8. Width(src, i, k) # 1
  <2> SUFFICES ASSUME Width(src, i, k) = 1 PROVE FALSE BY Zenon
  <2>1. r = s + 1 BY <1>7
  <2> QED BY <2>1, <1>2, <1>3, <1>4, <1>5, <1>6, Zenon DEF StandsFor
<1>9. Width(src, i, k) = 2 BY <1>4, <1>8, Zenon DEF StandsFor
<1>10. r = s + 2 BY <1>7, <1>9, SMTT(30)
<1>11. bs[s + 1].free BY <1>4, <1>5, <1>9, Zenon DEF StandsFor
<1>12. s \in 1 .. k - 1 /\ s + 1 \in 1 .. k - 1 /\ s \in Nat /\ (s + 1) + 1 = r BY <1>10
<1>13. FreePair(bs, s) /\ FreePair(bs, s + 1) BY <1>6, <1>11, <1>12, Zenon DEF FreePair
<1> QED BY <1>2, <1>3, <1>5, <1>10, <1>12, <1>13, Zenon

\* A block is given back: the list before the walk.
IsFreed(bs, cs, m) ==
    /\ m \in 1 .. Len(bs) /\ ~bs[m].free
    /\ cs \in Seq(Block) /\ Len(cs) = Len(bs)
    /\ \A i \in 1 .. Len(bs) : cs[i].at = bs[i].at /\ cs[i].sz = bs[i].sz
    /\ \A i \in 1 .. Len(bs) : i # m => cs[i] = bs[i]
    /\ cs[m].free

\* The list with one more free block, before the walk.
LEMMA FreedIs ==
    ASSUME NEW bs, Tiled(bs), NEW cs, NEW m, IsFreed(bs, cs, m)
    PROVE  Tiled(cs) /\ UsedOf(cs) = UsedOf(bs) \ {bs[m]}
<1> USE DEF IsFreed
<1>1. Len(bs) \in Nat BY DEF Tiled
<1>2. Tiled(cs) BY <1>1 DEF Tiled
<1>3. ASSUME NEW b \in UsedOf(cs) PROVE b \in UsedOf(bs) \ {bs[m]}
  <2>1. PICK i \in 1 .. Len(bs) : ~cs[i].free /\ b = cs[i] BY Zenon DEF UsedOf
  <2>2. i # m /\ b = bs[i] /\ ~bs[i].free BY <2>1, Zenon
  <2>3. bs[i].at # bs[m].at BY <2>2, OneAddress, Zenon
  <2> QED BY <2>2, <2>3, Zenon DEF UsedOf
<1>4. ASSUME NEW b \in UsedOf(bs), b # bs[m] PROVE b \in UsedOf(cs)
  <2>1. PICK i \in 1 .. Len(bs) : ~bs[i].free /\ b = bs[i] BY Zenon DEF UsedOf
  <2>2. i # m /\ b = cs[i] /\ ~cs[i].free BY <2>1, <1>4, Zenon
  <2> QED BY <2>2, Zenon DEF UsedOf
<1> QED BY <1>2, <1>3, <1>4, Zenon

\* Freeing a block makes at most two pairs of free neighbours, and there was at
\* most one: too few for the walk to leave two.
LEMMA OnePairLeft ==
    ASSUME NEW bs, Tiled(bs), OnePair(bs), NEW cs, NEW m, IsFreed(bs, cs, m),
           NEW k \in Nat, k = Len(cs), NEW out, NEW src, Covers(cs, k, out, src)
    PROVE  OnePair(out)
<1>1. cs \in Seq(Block) /\ Len(bs) = k /\ m \in 1 .. k BY Zenon DEF IsFreed
<1>2. ASSUME NEW p \in Int, FreePair(cs, p), p # m, p + 1 # m PROVE FreePair(bs, p)
  <2>1. p \in 1 .. k /\ p + 1 \in 1 .. k /\ cs[p].free /\ cs[p + 1].free /\ p \in 1 .. k - 1 BY <1>2 DEF FreePair
  <2>2. cs[p] = bs[p] /\ cs[p + 1] = bs[p + 1] BY <2>1, <1>1, <1>2, Zenon DEF IsFreed
  <2> QED BY <2>1, <2>2, <1>1, Zenon DEF FreePair
<1>3. ASSUME NEW p \in Int, NEW q \in Int, FreePair(cs, p), FreePair(cs, q), p # m, p + 1 # m, q # m, q + 1 # m
      PROVE  p = q
  BY <1>2, <1>3, Zenon DEF OnePair
<1>4. ASSUME NEW i \in Int, NEW j \in Int, FreePair(out, i), FreePair(out, j), i < j PROVE FALSE
  <2>1. /\ i \in 1 .. Len(src) /\ i + 1 \in 1 .. Len(src) /\ src[i] \in Nat /\ src[i + 1] = src[i] + 2
        /\ FreePair(cs, src[i]) /\ FreePair(cs, src[i] + 1)
    BY <1>1, <1>4, LeftBehind, Zenon
  <2>2. /\ j \in 1 .. Len(src) /\ src[j] \in Nat /\ FreePair(cs, src[j]) /\ FreePair(cs, src[j] + 1)
    BY <1>1, <1>4, LeftBehind, Zenon
  <2>3. src[j] >= src[i] + 2
    <3>1. CASE j = i + 1 BY <3>1, <2>1, <2>2
    <3>2. CASE j # i + 1
      <4>1. i + 1 < j BY <3>2, <1>4
      <4>2. src[i + 1] < src[j] BY <4>1, <2>1, <2>2, Zenon DEF Covers
      <4> QED BY <4>2, <2>1, <2>2
    <3> QED BY <3>1, <3>2, Zenon
  <2>4. PICK s \in Nat, r \in Nat : s = src[i] /\ r = src[j] BY <2>1, <2>2, Zenon
  <2>5. FreePair(cs, s) /\ FreePair(cs, s + 1) /\ FreePair(cs, r) /\ FreePair(cs, r + 1) /\ r >= s + 2
    BY <2>1, <2>2, <2>3, <2>4, Zenon
  <2>6. m \in Nat BY <1>1
  <2>7. CASE s # m /\ s + 1 # m
    <3>1. r = m \/ r + 1 = m BY <2>5, <2>6, <2>7, <1>3
    <3>3. r + 1 = m \/ (r + 1) + 1 = m BY <2>5, <2>6, <2>7, <1>3
    <3>4. s + 1 # m /\ (s + 1) + 1 # m BY <3>1, <3>3, <2>5, <2>6, <2>7
    <3> QED BY <3>4, <2>5, <2>6, <2>7, <1>3
  <2>8. CASE s = m \/ s + 1 = m
    <3>1. r # m /\ r + 1 # m /\ (r + 1) + 1 # m BY <2>8, <2>5, <2>6
    <3> QED BY <3>1, <2>5, <2>6, <1>3
  <2> QED BY <2>7, <2>8, Zenon
<1> QED BY <1>4 DEF OnePair

\* What riv_heap_free does to the flag of each block.
LEMMA Flagged ==
    ASSUME NEW b \in Block, NEW p, NEW c, c = [b EXCEPT !.free = @ \/ b.at + RIV_HEAP_HDR = p]
    PROVE  /\ c \in Block /\ c.at = b.at /\ c.sz = b.sz
           /\ b.at + RIV_HEAP_HDR = p => c.free
           /\ b.at + RIV_HEAP_HDR # p => c = b
<1>1. CASE b.at + RIV_HEAP_HDR = p
  <2>1. c = [b EXCEPT !.free = TRUE] BY <1>1, Zenon
  <2> QED BY <2>1, <1>1, Zenon DEF Block
<1>2. CASE b.at + RIV_HEAP_HDR # p
  <2>1. CASE b.free = TRUE
    <3>1. c = [b EXCEPT !.free = TRUE] BY <1>2, <2>1, Zenon
    <3> QED BY <3>1, <1>2, <2>1, Zenon DEF Block
  <2>2. CASE b.free = FALSE
    <3>1. c = [b EXCEPT !.free = FALSE] BY <1>2, <2>2, Zenon
    <3> QED BY <3>1, <1>2, <2>2, Zenon DEF Block
  <2> QED BY <2>1, <2>2, Zenon DEF Block
<1> QED BY <1>1, <1>2, Zenon

\* What riv_heap_free does to the list: the one block at the address is used no
\* more.
LEMMA GivenBack ==
    ASSUME HeapInv, NEW p, riv_heap_free(p)
    PROVE  \E b \in UsedOf(blocks) :
             /\ b.at + RIV_HEAP_HDR = p
             /\ \A c \in UsedOf(blocks) : c.at + RIV_HEAP_HDR = p => c = b
             /\ Tiled(blocks') /\ OnePair(blocks') /\ UsedOf(blocks') = UsedOf(blocks) \ {b}
<1>1. Tiled(blocks) /\ OnePair(blocks) /\ blocks \in Seq(Block) BY Zenon DEF HeapInv, Tiled
<1>2. PICK b \in UsedOf(blocks) : b.at + RIV_HEAP_HDR = p BY Zenon DEF HeapInv, riv_heap_free
<1>3. PICK m \in 1 .. Len(blocks) : ~blocks[m].free /\ b = blocks[m] BY <1>2, Zenon DEF UsedOf
<1>4. PICK cs : cs = [i \in DOMAIN blocks |-> [blocks[i] EXCEPT !.free = @ \/ blocks[i].at + RIV_HEAP_HDR = p]] BY Zenon
<1>5. blocks' = Coalesced(cs) BY <1>4, Zenon DEF riv_heap_free
<1>6. DOMAIN blocks = 1 .. Len(blocks) /\ Len(blocks) \in Nat BY <1>1
<1>7. ASSUME NEW i \in 1 .. Len(blocks)
      PROVE  /\ cs[i] \in Block /\ cs[i].at = blocks[i].at /\ cs[i].sz = blocks[i].sz
             /\ i = m => cs[i].free
             /\ i # m => cs[i] = blocks[i]
  <2>1. blocks[i] \in Block /\ blocks[i].at \in Nat /\ blocks[m].at \in Nat BY <1>1, Fields, Zenon
  <2>2. cs[i] = [blocks[i] EXCEPT !.free = @ \/ blocks[i].at + RIV_HEAP_HDR = p] BY <1>4, <1>6, Zenon
  <2>3. /\ cs[i] \in Block /\ cs[i].at = blocks[i].at /\ cs[i].sz = blocks[i].sz
        /\ blocks[i].at + RIV_HEAP_HDR = p => cs[i].free
        /\ blocks[i].at + RIV_HEAP_HDR # p => cs[i] = blocks[i]
    <3>1. PICK d \in Block : d = blocks[i] BY <2>1, Zenon
    <3>2. PICK c : c = cs[i] BY Zenon
    <3>3. c = [d EXCEPT !.free = @ \/ d.at + RIV_HEAP_HDR = p] BY <2>2, <3>1, <3>2, Zenon
    <3>4. /\ c \in Block /\ c.at = d.at /\ c.sz = d.sz
          /\ d.at + RIV_HEAP_HDR = p => c.free
          /\ d.at + RIV_HEAP_HDR # p => c = d
      BY <3>3, Flagged, ZenonT(40)
    <3> QED BY <3>1, <3>2, <3>4, Zenon
  <2>4. i # m => blocks[i].at # blocks[m].at BY <1>1, OneAddress, Zenon
  <2>5. i # m => blocks[i].at + RIV_HEAP_HDR # p BY <2>1, <2>4, <1>2, <1>3 DEF RIV_HEAP_HDR
  <2>6. i = m => blocks[i].at + RIV_HEAP_HDR = p BY <1>2, <1>3, Zenon
  <2> QED BY <2>3, <2>5, <2>6, Zenon
<1>8. cs \in Seq(Block) /\ Len(cs) = Len(blocks)
  <2>1. cs \in [1 .. Len(blocks) -> Block] BY <1>4, <1>6, <1>7, Zenon
  <2> QED BY <2>1, <1>6
<1>9. IsFreed(blocks, cs, m) BY <1>3, <1>7, <1>8, Zenon DEF IsFreed
<1>10. Tiled(cs) /\ UsedOf(cs) = UsedOf(blocks) \ {b} BY <1>1, <1>3, <1>9, FreedIs, Zenon
<1>11. PICK src : Covers(cs, Len(cs), blocks', src) BY <1>5, <1>8, CoversAll, Zenon
<1>12. Len(cs) \in Nat BY <1>8, <1>6, Zenon
<1>13. Tiled(blocks') /\ UsedOf(blocks') = UsedOf(cs) BY <1>10, <1>11, <1>12, CoalescedIs, Zenon
<1>14. OnePair(blocks') BY <1>1, <1>9, <1>11, <1>12, OnePairLeft, Zenon
<1>15. ASSUME NEW c \in UsedOf(blocks), c.at + RIV_HEAP_HDR = p PROVE c = b
  <2>1. PICK i \in 1 .. Len(blocks) : ~blocks[i].free /\ c = blocks[i] BY Zenon DEF UsedOf
  <2>2. blocks[i].at \in Nat /\ blocks[m].at \in Nat BY <1>1, Fields, Zenon
  <2>3. blocks[i].at = blocks[m].at BY <2>1, <2>2, <1>2, <1>3, <1>15 DEF RIV_HEAP_HDR
  <2> QED BY <2>1, <2>3, <1>1, <1>3, OneAddress
<1> QED BY <1>2, <1>10, <1>13, <1>14, <1>15, Zenon

\* riv_heap_free.
LEMMA HeapFreeStep == ASSUME HeapInv, NEW p, riv_heap_free(p) PROVE HeapInv'
<1>1. PICK b \in UsedOf(blocks) :
             /\ b.at + RIV_HEAP_HDR = p
             /\ \A c \in UsedOf(blocks) : c.at + RIV_HEAP_HDR = p => c = b
             /\ Tiled(blocks') /\ OnePair(blocks') /\ UsedOf(blocks') = UsedOf(blocks) \ {b}
  BY GivenBack, Zenon
<1>2. held' = [q \in DOMAIN held \ {p} |-> held[q]] BY Zenon DEF riv_heap_free
<1>3. held' \in [DOMAIN held' -> Nat] /\ DOMAIN held' = DOMAIN held \ {p} BY <1>2, Zenon DEF HeapInv
<1>4. {c.at + RIV_HEAP_HDR : c \in UsedOf(blocks)} = DOMAIN held BY Zenon DEF HeapInv
<1>5. UsedOf(blocks') = UsedOf(blocks) \ {b} BY <1>1, Zenon
<1>6. {c.at + RIV_HEAP_HDR : c \in UsedOf(blocks')} = DOMAIN held' BY <1>1, <1>3, <1>4, <1>5, Zenon
<1>7. ASSUME NEW c \in UsedOf(blocks'), NEW q, q = c.at + RIV_HEAP_HDR, held'[q] <= SIZE_MOD - RIV_HEAP_ALIGN
      PROVE  c.sz >= held'[q]
  <2>1. c \in UsedOf(blocks) /\ q # p /\ q \in DOMAIN held BY <1>1, <1>4, <1>5, <1>7, Zenon
  <2>2. held'[q] = held[q] BY <2>1, <1>2, Zenon
  <2> QED BY <2>1, <2>2, <1>7, Zenon DEF HeapInv
<1> QED BY <1>1, <1>3, <1>6, <1>7, Zenon DEF HeapInv

\* riv_heap_init.
LEMMA HeapInitial == HeapInit => HeapInv
<1> SUFFICES ASSUME HeapInit PROVE HeapInv BY Zenon
<1>1. PICK s \in Nat : s = HEAP_SIZE - RIV_HEAP_HDR BY HeapAssumption DEF RIV_HEAP_HDR
<1>2. PICK b \in Block : b = [at |-> 0, sz |-> s, free |-> TRUE] BY Zenon DEF Block
<1>3. blocks = <<b>> BY <1>1, <1>2, Zenon DEF HeapInit
<1>4. blocks \in Seq(Block) /\ Len(blocks) = 1 /\ blocks[1] = b BY <1>3
<1>5. b.at = 0 /\ b.sz = s /\ b.free BY <1>2, Zenon
<1>6. 0 + RIV_HEAP_HDR + s = HEAP_SIZE BY <1>1, HeapAssumption DEF RIV_HEAP_HDR
<1>7. Tiled(blocks) BY <1>4, <1>5, <1>6 DEF Tiled
<1>8. OnePair(blocks) BY <1>4 DEF OnePair, FreePair
<1>9. UsedOf(blocks) = {} BY <1>4, <1>5 DEF UsedOf
<1>10. held \in [DOMAIN held -> Nat] /\ DOMAIN held = {} BY DEF HeapInit
<1> QED BY <1>7, <1>8, <1>9, <1>10, Zenon DEF HeapInv

\* HeapInv is all that HeapIntact says.
LEMMA HeapIsIntact == HeapInv => HeapIntact
<1> SUFFICES ASSUME HeapInv PROVE HeapIntact BY Zenon
<1>1. Tiled(blocks) /\ OnePair(blocks) /\ blocks \in Seq(Block) BY Zenon DEF HeapInv, Tiled
<1>2. DOMAIN blocks = 1 .. Len(blocks) /\ Len(blocks) \in Nat BY <1>1
<1>3. \A i \in 1 .. Len(blocks) : blocks[i].sz >= 0 BY <1>1, Fields
<1>4. {blocks[i].at + RIV_HEAP_HDR : i \in {j \in DOMAIN blocks : ~blocks[j].free}} = DOMAIN held
  <2>1. {b.at + RIV_HEAP_HDR : b \in UsedOf(blocks)} = DOMAIN held BY Zenon DEF HeapInv
  <2> QED BY <2>1, <1>2, Zenon DEF UsedOf
<1>5. HeapTiles BY <1>1, <1>2, <1>3, <1>4, Zenon DEF HeapTiles, Tiled
<1>6. \A i \in 1 .. Len(blocks) : ~blocks[i].free => blocks[i] \in UsedOf(blocks) BY Zenon DEF UsedOf
<1>7. GrantedEnough BY <1>2, <1>6, Zenon DEF GrantedEnough, HeapInv
<1>8. OnePairUnmerged BY <1>1, <1>2 DEF OnePairUnmerged, OnePair, FreePair
<1> QED BY <1>5, <1>7, <1>8, Zenon DEF HeapIntact

-----------------------------------------------------------------------------
(* The heap grants extents.                                                *)

\* The extents that Payloads speaks of, by the blocks.
Extent(b) == [at |-> b.at + RIV_HEAP_HDR, len |-> b.sz]
ExtentsOf(bs) == {[at |-> bs[i].at + RIV_HEAP_HDR, len |-> bs[i].sz] : i \in {j \in DOMAIN bs : ~bs[j].free}}

\* The extents granted are the used blocks.
LEMMA ExtentsAre ==
    ASSUME NEW bs \in Seq(Block)
    PROVE  ExtentsOf(bs) = {Extent(b) : b \in UsedOf(bs)}
<1>1. DOMAIN bs = 1 .. Len(bs) OBVIOUS
<1>2. ASSUME NEW e \in ExtentsOf(bs) PROVE e \in {Extent(b) : b \in UsedOf(bs)}
  <2>1. PICK i \in 1 .. Len(bs) : ~bs[i].free /\ e = Extent(bs[i]) BY <1>1, Zenon DEF ExtentsOf, Extent
  <2>2. bs[i] \in UsedOf(bs) BY <2>1, Zenon DEF UsedOf
  <2> QED BY <2>1, <2>2, Zenon
<1>3. ASSUME NEW b \in UsedOf(bs) PROVE Extent(b) \in ExtentsOf(bs)
  <2>1. PICK i \in 1 .. Len(bs) : ~bs[i].free /\ b = bs[i] BY Zenon DEF UsedOf
  <2>2. i \in {j \in DOMAIN bs : ~bs[j].free} BY <2>1, <1>1, Zenon
  <2>3. Extent(b) = [at |-> bs[i].at + RIV_HEAP_HDR, len |-> bs[i].sz] BY <2>1, Zenon DEF Extent
  <2> QED BY <2>2, <2>3, Zenon DEF ExtentsOf
<1> QED BY <1>2, <1>3, Zenon

\* The fields of an extent.
LEMMA ExtentFields ==
    ASSUME NEW b \in Block
    PROVE  Extent(b).at = b.at + RIV_HEAP_HDR /\ Extent(b).len = b.sz /\ b.at \in Nat /\ b.sz \in Nat
BY Zenon DEF Extent, Block

\* riv_heap_alloc grants one extent, apart from all others.
LEMMA HeapGrants ==
    ASSUME HeapInv, NEW asked \in Nat, riv_heap_alloc(asked)
    PROVE  \E e \in ExtentsOf(blocks)' \ ExtentsOf(blocks) :
             /\ ExtentsOf(blocks)' = ExtentsOf(blocks) \cup {e}
             /\ 0 <= e.at /\ e.len >= 0 /\ e.at + e.len <= HEAP_SIZE
             /\ \A f \in ExtentsOf(blocks) : e.at + e.len <= f.at \/ f.at + f.len <= e.at
<1>1. PICK i \in 1 .. Len(blocks), b \in Block :
             /\ blocks[i].free /\ b.at = blocks[i].at
             /\ Tiled(blocks') /\ UsedOf(blocks') = UsedOf(blocks) \cup {b}
  BY Taken, Zenon
<1>2. Tiled(blocks) /\ blocks \in Seq(Block) /\ blocks' \in Seq(Block) BY <1>1, Zenon DEF HeapInv, Tiled
<1>3. ExtentsOf(blocks) = {Extent(c) : c \in UsedOf(blocks)} BY <1>2, ExtentsAre, Zenon
<1>4. ExtentsOf(blocks') = {Extent(c) : c \in UsedOf(blocks')} BY <1>2, ExtentsAre, Zenon
<1>5. PICK e : e = Extent(b) BY Zenon
<1>6. e.at = b.at + RIV_HEAP_HDR /\ e.len = b.sz /\ b.at \in Nat /\ b.sz \in Nat BY <1>5, ExtentFields, Zenon
<1>7. ExtentsOf(blocks') = ExtentsOf(blocks) \cup {e} BY <1>1, <1>3, <1>4, <1>5
<1>8. PICK m \in 1 .. Len(blocks') : ~blocks'[m].free /\ b = blocks'[m] BY <1>1, Zenon DEF UsedOf
<1>9. b.at + RIV_HEAP_HDR + b.sz <= HEAP_SIZE BY <1>1, <1>8, InMemory, Zenon
<1>10. 0 <= e.at /\ e.len >= 0 /\ e.at + e.len <= HEAP_SIZE BY <1>6, <1>9 DEF RIV_HEAP_HDR
<1>11. ASSUME NEW f \in ExtentsOf(blocks)
       PROVE  f # e /\ (e.at + e.len <= f.at \/ f.at + f.len <= e.at)
  <2>1. PICK c \in UsedOf(blocks) : f = Extent(c) BY <1>3, Zenon
  <2>2. c \in Block /\ c.at # b.at BY <1>1, <1>2, UsedElsewhere, Zenon
  <2>3. f.at = c.at + RIV_HEAP_HDR /\ f.len = c.sz /\ c.at \in Nat /\ c.sz \in Nat BY <2>1, <2>2, ExtentFields, Zenon
  <2>4. PICK n \in 1 .. Len(blocks') : ~blocks'[n].free /\ c = blocks'[n] BY <1>1, Zenon DEF UsedOf
  <2>5. m # n BY <1>8, <2>2, <2>4, Zenon
  <2>6. m < n => b.at + RIV_HEAP_HDR + b.sz <= c.at BY <1>1, <1>8, <2>4, Ordered, Zenon
  <2>7. n < m => c.at + RIV_HEAP_HDR + c.sz <= b.at BY <1>1, <1>8, <2>4, Ordered, Zenon
  <2>8. m < n \/ n < m BY <2>5, <1>2
  <2>9. e.at # f.at BY <2>2, <2>3, <1>6, SMTT(30) DEF RIV_HEAP_HDR
  <2>10. f # e BY <2>9, Zenon
  <2>11. PICK x \in Nat, y \in Nat : x = b.at /\ y = b.sz BY <1>6, Zenon
  <2>12. PICK v \in Nat, w \in Nat : v = c.at /\ w = c.sz BY <2>3, SMTT(30)
  <2>13. x + RIV_HEAP_HDR + y <= v \/ v + RIV_HEAP_HDR + w <= x BY <2>6, <2>7, <2>8, <2>11, <2>12, SMTT(30)
  <2>14. x + RIV_HEAP_HDR + y <= v + RIV_HEAP_HDR \/ v + RIV_HEAP_HDR + w <= x + RIV_HEAP_HDR
    BY <2>13 DEF RIV_HEAP_HDR
  <2>15. e.at + e.len <= f.at \/ f.at + f.len <= e.at BY <2>14, <2>11, <2>12, <2>3, <1>6
  <2> QED BY <2>10, <2>15, Zenon
<1>12. e \in ExtentsOf(blocks') \ ExtentsOf(blocks) BY <1>7, <1>11, Zenon
<1> QED BY <1>7, <1>10, <1>11, <1>12, Zenon

\* riv_heap_free releases one.
LEMMA HeapReleases ==
    ASSUME HeapInv, NEW p, riv_heap_free(p)
    PROVE  \E e \in ExtentsOf(blocks) : ExtentsOf(blocks)' = ExtentsOf(blocks) \ {e}
<1>1. PICK b \in UsedOf(blocks) :
             /\ b.at + RIV_HEAP_HDR = p
             /\ \A c \in UsedOf(blocks) : c.at + RIV_HEAP_HDR = p => c = b
             /\ Tiled(blocks') /\ OnePair(blocks') /\ UsedOf(blocks') = UsedOf(blocks) \ {b}
  BY GivenBack, Zenon
<1>2. blocks \in Seq(Block) /\ blocks' \in Seq(Block) BY <1>1, Zenon DEF HeapInv, Tiled
<1>3. ExtentsOf(blocks) = {Extent(c) : c \in UsedOf(blocks)} BY <1>2, ExtentsAre, Zenon
<1>4. ExtentsOf(blocks') = {Extent(c) : c \in UsedOf(blocks')} BY <1>2, ExtentsAre, Zenon
<1>5. ASSUME NEW c \in UsedOf(blocks), Extent(c) = Extent(b) PROVE c = b
  <2>1. c \in Block /\ b \in Block BY <1>2 DEF UsedOf
  <2>2. Extent(c).at = c.at + RIV_HEAP_HDR /\ Extent(b).at = b.at + RIV_HEAP_HDR BY <2>1, ExtentFields, Zenon
  <2>3. c.at + RIV_HEAP_HDR = p BY <2>2, <1>1, <1>5, Zenon
  <2> QED BY <2>3, <1>1, Zenon
<1> QED BY <1>1, <1>3, <1>4, <1>5, SMTT(30)

-----------------------------------------------------------------------------
(* riv_bump.                                                               *)

BumpInv ==
    /\ cur \in Nat /\ BumpBase <= cur /\ cur <= BumpBase + BUMP_SIZE
    /\ \A e \in bumped : e.at \in Nat /\ e.len \in Nat /\ e.at + e.len <= cur

\* Sizes that do not carry riv_bump.cur round the end of the address space.
BumpSizes == 0 .. SIZE_MOD - (BumpBase + BUMP_SIZE + RIV_HEAP_ALIGN)

\* Rounding up short of the end of the address space.
LEMMA RoundedFor ==
    ASSUME NEW n \in Nat, n + RIV_HEAP_ALIGN <= SIZE_MOD, NEW align \in {1, 2, 4}
    PROVE  RoundUp(n, align) \in Nat /\ n <= RoundUp(n, align) /\ RoundUp(n, align) < n + align
<1>1. SIZE_MOD \in Nat /\ n + align - 1 \in Nat /\ n + align - 1 < SIZE_MOD BY HeapAssumption DEF RIV_HEAP_ALIGN
<1>2. PICK x \in Nat : x = n + align - 1 BY <1>1, Zenon
<1>3. x % SIZE_MOD = x BY <1>1, <1>2
<1>4. RoundUp(n, align) = (x \div align) * align BY <1>2, <1>3, Zenon DEF RoundUp
<1>5. CASE align = 1 BY <1>2, <1>4, <1>5
<1>6. CASE align = 2 BY <1>2, <1>4, <1>6
<1>7. CASE align = 4 BY <1>2, <1>4, <1>7, SMTT(30)
<1> QED BY <1>5, <1>6, <1>7, Zenon

\* riv_bump_alloc grants one extent behind all others.
LEMMA BumpStep ==
    ASSUME BumpInv, NEW size \in BumpSizes, NEW align \in {1, 2, 4}, riv_bump_alloc(size, align)
    PROVE  /\ BumpInv'
           /\ bumped' = bumped \/ \E e \in bumped' \ bumped :
                /\ bumped' = bumped \cup {e}
                /\ BumpBase <= e.at /\ e.len >= 0 /\ e.at + e.len <= BumpBase + BUMP_SIZE
                /\ \A f \in bumped : e.at + e.len <= f.at \/ f.at + f.len <= e.at
<1> USE DEF BumpBase, RIV_HEAP_ALIGN
<1>1. SIZE_MOD \in Nat /\ BUMP_SIZE \in Nat /\ size \in Nat BY HeapAssumption DEF BumpSizes
<1>2. cur \in Nat /\ BumpBase <= cur /\ cur <= BumpBase + BUMP_SIZE BY Zenon DEF BumpInv
<1>3. cur + RIV_HEAP_ALIGN <= SIZE_MOD BY <1>1, <1>2, HeapAssumption
<1>4. PICK a \in Nat : a = RoundUp(cur, align) BY <1>2, <1>3, RoundedFor, Zenon
<1>5. cur <= a /\ a < cur + 4 BY <1>2, <1>3, <1>4, RoundedFor
<1>6. a + size \in Nat /\ a + size < SIZE_MOD BY <1>1, <1>2, <1>5 DEF BumpSizes
<1>7. (a + size) % SIZE_MOD = a + size BY <1>1, <1>6
<1>8. a + size <= BumpBase + BUMP_SIZE /\ cur' = a + size /\ bumped' = bumped \cup {[at |-> a, len |-> size]}
  BY <1>4, <1>7, Zenon DEF riv_bump_alloc
<1>9. PICK e : e = [at |-> a, len |-> size] BY Zenon
<1>10. e.at = a /\ e.len = size /\ bumped' = bumped \cup {e} BY <1>8, <1>9, Zenon
<1>11. ASSUME NEW f \in bumped PROVE f.at \in Nat /\ f.len \in Nat /\ f.at + f.len <= cur BY Zenon DEF BumpInv
<1>12. BumpInv' BY <1>1, <1>2, <1>5, <1>6, <1>8, <1>10, <1>11 DEF BumpInv
<1>13. \A f \in bumped : f.at + f.len <= e.at BY <1>2, <1>5, <1>10, <1>11
<1> QED BY <1>1, <1>2, <1>5, <1>8, <1>10, <1>12, <1>13

-----------------------------------------------------------------------------
\* What heap.h keeps.
AllocInv == HeapInv /\ BumpInv

\* riv_heap_init and riv_bump_init.
LEMMA AllocInitial == HeapInit => AllocInv
<1> SUFFICES ASSUME HeapInit PROVE BumpInv BY HeapInitial, Zenon DEF AllocInv
<1> QED BY HeapAssumption DEF HeapInit, BumpInv, BumpBase

\* A step that is not the heap's.
LEMMA HeapKept == HeapInv /\ UNCHANGED <<blocks, held>> => HeapInv'
BY Zenon DEF HeapInv

\* Every step of heap.h keeps AllocInv and is a step of Extents.
LEMMA HeapMoves ==
    ASSUME NEW CONSTANT sizes, sizes \subseteq Nat, NEW CONSTANT bumps, bumps \subseteq BumpSizes,
           AllocInv, [HeapNext(sizes) \/ BumpNext(bumps)]_heap_vars
    PROVE  AllocInv' /\ [Payloads!Grant \/ Payloads!Release \/ Payloads!Reset]_(ExtentsOf(blocks))
                     /\ [Bumps!Grant \/ Bumps!Release \/ Bumps!Reset]_bumped
<1> USE DEF AllocInv
<1>1. ASSUME NEW n \in sizes, riv_heap_alloc(n)
      PROVE  HeapInv' /\ UNCHANGED <<cur, bumped>> /\ Payloads!Grant
  <2>1. n \in Nat BY Zenon
  <2>2. HeapInv' BY <2>1, <1>1, HeapAllocStep, SMTT(30)
  <2>3. Payloads!Grant BY <2>1, <1>1, HeapGrants, Zenon DEF Payloads!Grant, Payloads!Apart, ExtentsOf
  <2> QED BY <2>2, <2>3, <1>1, Zenon DEF riv_heap_alloc
<1>2. ASSUME NEW p, riv_heap_free(p)
      PROVE  HeapInv' /\ UNCHANGED <<cur, bumped>> /\ Payloads!Release
  <2>1. HeapInv' BY <1>2, HeapFreeStep, SMTT(30)
  <2>2. Payloads!Release BY <1>2, HeapReleases, Zenon DEF Payloads!Release, ExtentsOf
  <2> QED BY <2>1, <2>2, <1>2, Zenon DEF riv_heap_free
<1>3. ASSUME NEW n \in bumps, NEW align \in {1, 2, 4}, riv_bump_alloc(n, align)
      PROVE  BumpInv' /\ UNCHANGED <<blocks, held>> /\ (bumped' = bumped \/ Bumps!Grant)
  <2>1. n \in BumpSizes BY Zenon
  <2>2. BumpInv' /\ (bumped' = bumped \/ Bumps!Grant) BY <2>1, <1>3, BumpStep, Zenon DEF Bumps!Grant, Bumps!Apart
  <2> QED BY <2>2, <1>3, Zenon DEF riv_bump_alloc
<1>4. ASSUME riv_bump_reset PROVE BumpInv' /\ UNCHANGED <<blocks, held>> /\ Bumps!Reset
  BY <1>4, HeapAssumption DEF riv_bump_reset, BumpInv, BumpBase, Bumps!Reset
<1>5. UNCHANGED <<cur, bumped>> => BumpInv' BY Zenon DEF BumpInv
<1>6. UNCHANGED <<blocks, held>> => HeapInv' /\ UNCHANGED ExtentsOf(blocks) BY HeapKept, Zenon DEF ExtentsOf
<1>7. CASE HeapNext(sizes) BY <1>1, <1>2, <1>5, <1>7 DEF HeapNext
<1>8. CASE BumpNext(bumps) BY <1>3, <1>4, <1>6, <1>8 DEF BumpNext
<1>9. CASE UNCHANGED heap_vars BY <1>5, <1>6, <1>9, Zenon DEF heap_vars
<1> QED BY <1>7, <1>8, <1>9, SMTT(30)

-----------------------------------------------------------------------------
(* The slab.                                                               *)

\* L is the free list from its head: the objects nobody holds, each once, each
\* linked to the next.
Threads(L) ==
    /\ L \in [1 .. free_count -> Objects]
    /\ \A i, j \in 1 .. free_count : L[i] = L[j] => i = j
    /\ \A o \in Objects : o \notin slab_held <=> \E i \in 1 .. free_count : L[i] = o
    /\ free_list = IF free_count = 0 THEN NULL ELSE L[1]
    /\ \A i \in 1 .. free_count : link[L[i]] = IF i = free_count THEN NULL ELSE L[i + 1]

SlabInv ==
    /\ link \in [Objects -> Objects \cup {NULL}]
    /\ slab_held \subseteq Objects
    /\ free_count \in Nat /\ free_count = OBJ_COUNT - Cardinality(slab_held)
    /\ \E L : Threads(L)

\* riv_slab_init.
LEMMA SlabInitial == SlabInit => SlabInv
<1> SUFFICES ASSUME SlabInit PROVE SlabInv BY Zenon
<1>1. Cardinality({}) = 0 BY FS_EmptySet, Zenon
<1>2. link \in [Objects -> Objects \cup {NULL}] BY SlabAssumption DEF SlabInit, Objects, NULL
<1> DEFINE L == [i \in 1 .. OBJ_COUNT |-> OBJ_COUNT + 1 - i]
<1>3. Threads(L)
  <2>1. L \in [1 .. free_count -> Objects] BY SlabAssumption DEF SlabInit, Objects
  <2>2. \A i, j \in 1 .. free_count : L[i] = L[j] => i = j BY SlabAssumption DEF SlabInit
  <2>3. ASSUME NEW o \in Objects PROVE o \notin slab_held <=> \E i \in 1 .. free_count : L[i] = o
    <3>1. OBJ_COUNT + 1 - o \in 1 .. free_count BY SlabAssumption DEF SlabInit, Objects
    <3>2. L[OBJ_COUNT + 1 - o] = o BY <3>1, SlabAssumption DEF Objects, SlabInit
    <3> QED BY <3>1, <3>2, Zenon DEF SlabInit
  <2>4. free_list = IF free_count = 0 THEN NULL ELSE L[1] BY SlabAssumption DEF SlabInit, NULL
  <2>5. ASSUME NEW i \in 1 .. free_count PROVE link[L[i]] = IF i = free_count THEN NULL ELSE L[i + 1]
    <3>1. L[i] = OBJ_COUNT + 1 - i /\ L[i] \in Objects BY SlabAssumption DEF SlabInit, Objects
    <3>2. link[L[i]] = OBJ_COUNT - i BY <3>1, SlabAssumption DEF SlabInit, Objects
    <3> QED BY <3>2, SlabAssumption DEF SlabInit, NULL
  <2> QED BY <2>1, <2>2, <2>3, <2>4, <2>5, Zenon DEF Threads
<1> QED BY <1>1, <1>2, <1>3, SlabAssumption DEF SlabInv, SlabInit

\* The objects held can be counted.
LEMMA HeldIsFinite == ASSUME SlabInv PROVE IsFiniteSet(slab_held)
<1>1. IsFiniteSet(Objects) BY FS_Interval, SlabAssumption DEF Objects
<1> QED BY <1>1, FS_Subset, Zenon DEF SlabInv

\* riv_slab_alloc.
LEMMA AllocStep == ASSUME SlabInv, riv_slab_alloc PROVE SlabInv'
<1>1. PICK L : Threads(L) BY Zenon DEF SlabInv
<1>2. free_count \in Nat /\ free_count # 0 /\ free_list = L[1] /\ free_list \in Objects
  BY <1>1 DEF SlabInv, riv_slab_alloc, Threads
<1>3. free_list \notin slab_held BY <1>1, <1>2, SMTT(30) DEF Threads
<1>4. Cardinality(slab_held') = Cardinality(slab_held) + 1
  BY <1>3, HeldIsFinite, FS_AddElement, Zenon DEF riv_slab_alloc
<1>5. Cardinality(slab_held) \in Nat BY HeldIsFinite, FS_CardinalityType, Zenon
<1>6. PICK c \in Nat : c = free_count - 1 BY <1>2
<1>7. free_count' = c BY <1>6, Zenon DEF riv_slab_alloc
<1> DEFINE M == [i \in 1 .. c |-> L[i + 1]]
<1>8. \A i \in 1 .. c : i + 1 \in 1 .. free_count BY <1>6, <1>2
<1>9. M \in [1 .. c -> Objects] BY <1>8, <1>1, Zenon DEF Threads
<1>10. \A i, j \in 1 .. c : M[i] = M[j] => i = j BY <1>8, <1>1 DEF Threads
<1>11. ASSUME NEW o \in Objects PROVE o \notin slab_held' <=> \E i \in 1 .. c : M[i] = o
  <2>1. ASSUME o \notin slab_held' PROVE \E i \in 1 .. c : M[i] = o
    <3>1. o \notin slab_held /\ o # L[1] BY <2>1, <1>2, Zenon DEF riv_slab_alloc
    <3>2. PICK i \in 1 .. free_count : L[i] = o BY <3>1, <1>1, Zenon DEF Threads
    <3>3. i # 1 BY <3>1, <3>2, Zenon
    <3>4. i - 1 \in 1 .. c /\ (i - 1) + 1 = i BY <3>2, <3>3, <1>2, <1>6
    <3>5. M[i - 1] = o BY <3>4, <3>2, Zenon
    <3> QED BY <3>4, <3>5, Zenon
  <2>2. ASSUME NEW i \in 1 .. c, M[i] = o PROVE o \notin slab_held'
    <3>1. L[i + 1] = o /\ i + 1 \in 1 .. free_count /\ i + 1 # 1 /\ 1 \in 1 .. free_count
      BY <2>2, <1>8, <1>2, SMTT(30)
    <3>2. o \notin slab_held BY <3>1, <1>1, SMTT(30) DEF Threads
    <3>3. o # L[1] BY <3>1, <1>1, Zenon DEF Threads
    <3> QED BY <3>2, <3>3, <1>2, Zenon DEF riv_slab_alloc
  <2> QED BY <2>1, <2>2, Zenon
<1>12. free_list' = IF c = 0 THEN NULL ELSE M[1]
  BY <1>1, <1>2, <1>6, SMTT(30) DEF Threads, riv_slab_alloc
<1>13. ASSUME NEW i \in 1 .. c PROVE link'[M[i]] = IF i = c THEN NULL ELSE M[i + 1]
  <2>1. link[L[i + 1]] = IF i + 1 = free_count THEN NULL ELSE L[(i + 1) + 1] BY <1>8, <1>1, Zenon DEF Threads
  <2>2. i + 1 = free_count <=> i = c BY <1>6, <1>2
  <2>3. i # c => M[i + 1] = L[(i + 1) + 1] BY <1>6
  <2> QED BY <2>1, <2>2, <2>3, Zenon DEF riv_slab_alloc
<1>14. \E N : Threads(N)'
  <2>1. PICK N : N = M BY Zenon
  <2>2. /\ N \in [1 .. c -> Objects] /\ \A i, j \in 1 .. c : N[i] = N[j] => i = j
        /\ \A o \in Objects : o \notin slab_held' <=> \E i \in 1 .. c : N[i] = o
        /\ free_list' = IF c = 0 THEN NULL ELSE N[1]
        /\ \A i \in 1 .. c : link'[N[i]] = IF i = c THEN NULL ELSE N[i + 1]
    <3> HIDE DEF M
    <3> QED BY <2>1, <1>9, <1>10, <1>11, <1>12, <1>13, Zenon
  <2> QED BY <2>2, <1>7, Zenon DEF Threads
<1>15. link' = link BY Zenon DEF riv_slab_alloc
<1> QED BY <1>2, <1>4, <1>5, <1>6, <1>7, <1>14, <1>15, SlabAssumption, SMTT(30) DEF SlabInv, riv_slab_alloc

\* riv_slab_free.
LEMMA FreeStep ==
    ASSUME SlabInv, NEW o \in Objects, riv_slab_free(o)
    PROVE  SlabInv'
<1>1. PICK L : Threads(L) BY Zenon DEF SlabInv
<1>2. o \in slab_held BY Zenon DEF riv_slab_free
<1>3. Cardinality(slab_held') = Cardinality(slab_held) - 1
  BY <1>2, HeldIsFinite, FS_RemoveElement, Zenon DEF riv_slab_free
<1>4. Cardinality(slab_held) \in Nat BY HeldIsFinite, FS_CardinalityType, Zenon
<1>5. PICK c \in Nat : c = free_count + 1 BY DEF SlabInv
<1>6. free_count' = c BY <1>5, Zenon DEF riv_slab_free
<1>7. free_count \in Nat BY Zenon DEF SlabInv
<1>8. \A i \in 1 .. free_count : L[i] # o BY <1>1, <1>2, Zenon DEF Threads
<1> DEFINE M == [i \in 1 .. c |-> IF i = 1 THEN o ELSE L[i - 1]]
<1>9. \A i \in 1 .. c : i # 1 => i - 1 \in 1 .. free_count /\ i = (i - 1) + 1 BY <1>5, <1>7
<1>10. M \in [1 .. c -> Objects] BY <1>9, <1>1, Zenon DEF Threads
<1>11. ASSUME NEW i \in 1 .. c, NEW j \in 1 .. c, M[i] = M[j] PROVE i = j
  <2>1. CASE i = 1 BY <2>1, <1>8, <1>9, <1>11
  <2>2. CASE j = 1 BY <2>2, <1>8, <1>9, <1>11
  <2>3. CASE i # 1 /\ j # 1
    <3>1. L[i - 1] = L[j - 1] BY <2>3, <1>11, Zenon
    <3>2. i - 1 = j - 1 BY <3>1, <2>3, <1>9, <1>1, Zenon DEF Threads
    <3> QED BY <3>2, <2>3, <1>9, Zenon
  <2> QED BY <2>1, <2>2, <2>3, Zenon
<1>12. ASSUME NEW x \in Objects PROVE x \notin slab_held' <=> \E i \in 1 .. c : M[i] = x
  <2>1. ASSUME x \notin slab_held' PROVE \E i \in 1 .. c : M[i] = x
    <3>1. CASE x = o
      <4>1. 1 \in 1 .. c BY <1>5, <1>7
      <4>2. M[1] = o BY <4>1, Zenon
      <4> QED BY <3>1, <4>1, <4>2, Zenon
    <3>2. CASE x # o
      <4>1. x \notin slab_held BY <2>1, <3>2, Zenon DEF riv_slab_free
      <4>2. PICK i \in 1 .. free_count : L[i] = x BY <4>1, <1>1, Zenon DEF Threads
      <4>3. i + 1 \in 1 .. c /\ i + 1 # 1 /\ (i + 1) - 1 = i BY <1>5, <1>7
      <4>4. M[i + 1] = x BY <4>2, <4>3, Zenon
      <4> QED BY <4>3, <4>4, Zenon
    <3> QED BY <3>1, <3>2, Zenon
  <2>2. ASSUME NEW i \in 1 .. c, M[i] = x PROVE x \notin slab_held'
    <3>1. CASE i = 1 BY <3>1, <2>2, Zenon DEF riv_slab_free
    <3>2. CASE i # 1
      <4>1. L[i - 1] = x /\ i - 1 \in 1 .. free_count BY <3>2, <2>2, <1>9, Zenon
      <4> QED BY <4>1, <1>1, Zenon DEF Threads, riv_slab_free
    <3> QED BY <3>1, <3>2, Zenon
  <2> QED BY <2>1, <2>2, Zenon
<1>13. free_list' = IF c = 0 THEN NULL ELSE M[1] BY <1>5, <1>7 DEF riv_slab_free
<1>14. ASSUME NEW i \in 1 .. c PROVE link'[M[i]] = IF i = c THEN NULL ELSE M[i + 1]
  <2>1. CASE i = 1
    <3>1. link'[o] = free_list BY Zenon DEF riv_slab_free, SlabInv
    <3>2. i = c <=> free_count = 0 BY <2>1, <1>5, <1>7
    <3>3. i # c => M[i + 1] = L[1] BY <2>1, <1>5, <1>7, SMTT(30)
    <3> QED BY <2>1, <3>1, <3>2, <3>3, <1>1 DEF Threads
  <2>2. CASE i # 1
    <3>1. M[i] = L[i - 1] /\ i - 1 \in 1 .. free_count BY <2>2, <1>9, SMTT(30)
    <3>2. link'[L[i - 1]] = link[L[i - 1]] BY <3>1, <1>8, <1>1, SMTT(30) DEF riv_slab_free, Threads, SlabInv
    <3>3. link[L[i - 1]] = IF i - 1 = free_count THEN NULL ELSE L[(i - 1) + 1] BY <3>1, <1>1, Zenon DEF Threads
    <3>4. i - 1 = free_count <=> i = c BY <1>5, <1>7
    <3>5. i # c => M[i + 1] = L[(i - 1) + 1] BY <1>5, <1>7, <2>2, SMTT(30)
    <3> QED BY <3>1, <3>2, <3>3, <3>4, <3>5, SMTT(30)
  <2> QED BY <2>1, <2>2, SMTT(30)
<1>15. \E N : Threads(N)'
  <2>1. PICK N : N = M BY Zenon
  <2>2. /\ N \in [1 .. c -> Objects] /\ \A i, j \in 1 .. c : N[i] = N[j] => i = j
        /\ \A x \in Objects : x \notin slab_held' <=> \E i \in 1 .. c : N[i] = x
        /\ free_list' = IF c = 0 THEN NULL ELSE N[1]
        /\ \A i \in 1 .. c : link'[N[i]] = IF i = c THEN NULL ELSE N[i + 1]
    <3> HIDE DEF M
    <3> QED BY <2>1, <1>10, <1>11, <1>12, <1>13, <1>14, Zenon
  <2> QED BY <2>2, <1>6, Zenon DEF Threads
<1>16. link' \in [Objects -> Objects \cup {NULL}]
  <2>1. free_list \in Objects \cup {NULL} BY <1>1, <1>7 DEF Threads
  <2> QED BY <2>1, Zenon DEF SlabInv, riv_slab_free
<1> QED BY <1>3, <1>4, <1>5, <1>6, <1>7, <1>15, <1>16, SlabAssumption DEF SlabInv, riv_slab_free

\* A holder overwrites the link in its object.
LEMMA UseStep == ASSUME SlabInv, NEW o \in Objects, SlabUse(o) PROVE SlabInv'
<1>1. PICK L : Threads(L) BY Zenon DEF SlabInv
<1>2. PICK w \in Objects \cup {NULL} : link' = [link EXCEPT ![o] = w] BY Zenon DEF SlabUse
<1>3. o \in slab_held BY Zenon DEF SlabUse
<1>4. \A i \in 1 .. free_count : L[i] \in Objects /\ L[i] # o BY <1>1, <1>3, Zenon DEF Threads
<1>5. \A i \in 1 .. free_count : link'[L[i]] = link[L[i]] BY <1>2, <1>4, Zenon DEF SlabInv
<1>6. Threads(L)' BY <1>1, <1>5, Zenon DEF Threads, SlabUse
<1>7. link' \in [Objects -> Objects \cup {NULL}] BY <1>2, Zenon DEF SlabInv
<1> QED BY <1>6, <1>7, Zenon DEF SlabInv, SlabUse

\* Every step of the slab.
LEMMA SlabStep == SlabInv /\ [SlabNext]_slab_vars => SlabInv'
<1> SUFFICES ASSUME SlabInv, [SlabNext]_slab_vars PROVE SlabInv' BY Zenon
<1>1. CASE UNCHANGED slab_vars BY <1>1 DEF slab_vars, SlabInv, Threads
<1> QED BY <1>1, AllocStep, FreeStep, UseStep, Zenon DEF SlabNext

\* The walk along the links meets the free objects, once each, and ends.
LEMMA WalkEnds == SlabInv => FreeListWhole
<1> SUFFICES ASSUME SlabInv PROVE FreeListWhole BY Zenon
<1>1. PICK L : Threads(L) BY Zenon DEF SlabInv
<1> DEFINE Step(f) == [n \in 0 .. OBJ_COUNT |->
                         IF n = 0 THEN free_list ELSE IF f[n - 1] = NULL THEN NULL ELSE link[f[n - 1]]]
           W == CHOOSE f : f = Step(f)
           G == [n \in 0 .. OBJ_COUNT |-> IF n < free_count THEN L[n + 1] ELSE NULL]
<1>2. OBJ_COUNT \in Nat /\ free_count \in Nat /\ free_count <= OBJ_COUNT /\ free_count = OBJ_COUNT - Cardinality(slab_held)
  BY HeldIsFinite, FS_CardinalityType, SlabAssumption DEF SlabInv
<1>3. \A i \in 1 .. free_count : L[i] \in Objects /\ L[i] # NULL
  BY <1>1, SlabAssumption, SMTT(30) DEF Threads, Objects, NULL
<1>4. G = Step(G)
  <2>1. ASSUME NEW n \in 0 .. OBJ_COUNT
        PROVE G[n] = IF n = 0 THEN free_list ELSE IF G[n - 1] = NULL THEN NULL ELSE link[G[n - 1]]
    <3>1. CASE n = 0 BY <3>1, <1>1, <1>2, SMTT(30) DEF Threads
    <3>2. CASE n # 0 /\ n <= free_count
      <4>1. n - 1 \in 0 .. OBJ_COUNT /\ n - 1 < free_count /\ (n - 1) + 1 = n /\ n \in 1 .. free_count
        BY <3>2, <1>2
      <4>3. G[n - 1] = L[n] BY <4>1, Zenon
      <4>2. link[L[n]] = IF n = free_count THEN NULL ELSE L[n + 1] BY <4>1, <1>1, Zenon DEF Threads
      <4> QED BY <3>2, <4>1, <4>2, <4>3, <1>2, <1>3
    <3>3. CASE n # 0 /\ n > free_count
      <4>1. n - 1 \in 0 .. OBJ_COUNT /\ ~(n - 1 < free_count) /\ ~(n < free_count) BY <3>3, <1>2, SMTT(30)
      <4> QED BY <3>3, <4>1, Zenon
    <3> QED BY <3>1, <3>2, <3>3, <1>2, SMTT(30)
  <2> QED BY <2>1, SMTT(30)
<1>5. W = Step(W) BY <1>4, Zenon
<1> DEFINE From(f, n) == IF n = 0 THEN free_list ELSE IF f[n - 1] = NULL THEN NULL ELSE link[f[n - 1]]
<1>9. \A n \in 0 .. OBJ_COUNT : G[n] = From(G, n) BY <1>4, Zenon
<1> HIDE DEF W
<1>10. \A n \in 0 .. OBJ_COUNT : W[n] = From(W, n) BY <1>5, Zenon
<1>6. W = G
  <2>1. ASSUME NEW m \in 0 .. OBJ_COUNT, W[m] # G[m] PROVE FALSE
    <3> DEFINE T == {n \in 0 .. OBJ_COUNT : W[n] # G[n]}
    <3>1. PICK n \in T : \A y \in T : n <= y
      <4>1. T \subseteq Nat /\ T # {} BY <2>1, <1>2
      <4> HIDE DEF T
      <4> QED BY <4>1, LeastOfNat, Zenon
    <3>2. n # 0
      <4>1. 0 \in 0 .. OBJ_COUNT BY <1>2
      <4>2. W[0] = free_list BY <1>5, <4>1, Zenon
      <4>3. G[0] = free_list BY <1>4, <4>1, Zenon
      <4> QED BY <3>1, <4>2, <4>3, Zenon
    <3>3. n - 1 \in 0 .. OBJ_COUNT /\ n - 1 \notin T BY <3>1, <3>2, SlabAssumption
    <3>4. W[n - 1] = G[n - 1] BY <3>3, Zenon
    <3>5. From(W, n) = From(G, n) BY <3>2, <3>4, Zenon
    <3>6. W[n] = G[n] BY <3>1, <3>5, <1>9, <1>10, Zenon
    <3> QED BY <3>1, <3>6, Zenon
  <2>2. W = [n \in 0 .. OBJ_COUNT |-> W[n]] BY <1>5, Zenon
  <2> QED BY <2>1, <2>2, Zenon
<1>7. G[free_count] = NULL BY <1>2
<1>8. {G[n] : n \in 0 .. OBJ_COUNT} \ {NULL} = Objects \ slab_held
  <2>1. ASSUME NEW o \in Objects \ slab_held PROVE o \in {G[n] : n \in 0 .. OBJ_COUNT} \ {NULL}
    <3>1. PICK i \in 1 .. free_count : L[i] = o BY <1>1, Zenon DEF Threads
    <3>2. i - 1 \in 0 .. OBJ_COUNT /\ i - 1 < free_count /\ (i - 1) + 1 = i BY <1>2, SlabAssumption
    <3>3. G[i - 1] = o BY <3>1, <3>2, Zenon
    <3> QED BY <3>1, <3>2, <3>3, <1>3
  <2>2. ASSUME NEW n \in 0 .. OBJ_COUNT, G[n] # NULL PROVE G[n] \in Objects \ slab_held
    <3>1. n < free_count /\ G[n] = L[n + 1] BY <2>2, Zenon
    <3>2. n + 1 \in 1 .. free_count BY <3>1, <1>2
    <3> QED BY <3>1, <3>2, <1>1, <1>3, Zenon DEF Threads
  <2> QED BY <2>1, <2>2, Zenon
<1> HIDE DEF G
<1>11. W[free_count] = NULL BY <1>6, <1>7, Zenon
<1>12. {W[n] : n \in 0 .. OBJ_COUNT} \ {NULL} = Objects \ slab_held BY <1>6, <1>8, Zenon
<1> QED BY <1>2, <1>11, <1>12, Zenon DEF FreeListWhole, W

-----------------------------------------------------------------------------
(* The allocators together.                                                *)

\* Whatever sizes are asked of heap.h and slab.h, in any order and with any
\* memory: the block list of riv_heap tiles its memory, gives each caller its
\* bytes and keeps at most one pair of free neighbours unmerged, and the free
\* list of a slab holds each free object once.
THEOREM AllocatorsAreIntact ==
    ASSUME NEW CONSTANT sizes, sizes \subseteq Nat, NEW CONSTANT bumps, bumps \subseteq BumpSizes
    PROVE  AllocSpec(sizes, bumps) => []AllocatorsIntact
<1>1. HeapInit /\ SlabInit => AllocInv /\ SlabInv BY AllocInitial, SlabInitial, Zenon
<1>2. AllocInv /\ SlabInv /\ [AllocNext(sizes, bumps)]_<<heap_vars, slab_vars>> => AllocInv' /\ SlabInv'
  BY HeapMoves, SlabStep, Zenon DEF AllocNext
<1>3. AllocInv /\ SlabInv => AllocatorsIntact BY HeapIsIntact, WalkEnds, Zenon DEF AllocInv, AllocatorsIntact
<1> QED BY <1>1, <1>2, <1>3, PTL DEF AllocSpec

\* riv_heap and riv_bump implement the allocator of Extents: every step that
\* changes what callers hold grants one extent inside the memory and apart from
\* all others, releases one, or (riv_bump_reset) releases all.
THEOREM AllocatorsDoGrant ==
    ASSUME NEW CONSTANT sizes, sizes \subseteq Nat, NEW CONSTANT bumps, bumps \subseteq BumpSizes
    PROVE  AllocSpec(sizes, bumps) => AllocatorsGrant
<1>1. HeapInit => AllocInv BY AllocInitial, Zenon
<1>2. AllocInv /\ [AllocNext(sizes, bumps)]_<<heap_vars, slab_vars>> => AllocInv'
  BY HeapMoves, Zenon DEF AllocNext
<1>3. HeapInit => Payloads!Init /\ Bumps!Init
  <2> SUFFICES ASSUME HeapInit PROVE Payloads!Init /\ Bumps!Init BY Zenon
  <2>1. blocks = <<[at |-> 0, sz |-> HEAP_SIZE - RIV_HEAP_HDR, free |-> TRUE]>> BY Zenon DEF HeapInit
  <2>2. \A j \in DOMAIN blocks : blocks[j].free BY <2>1
  <2> QED BY <2>2, Zenon DEF HeapInit, Payloads!Init, Bumps!Init
<1>4. AllocInv /\ [AllocNext(sizes, bumps)]_<<heap_vars, slab_vars>> =>
        /\ [Payloads!Grant \/ Payloads!Release \/ Payloads!Reset]_(ExtentsOf(blocks))
        /\ [Bumps!Grant \/ Bumps!Release \/ Bumps!Reset]_bumped
  BY HeapMoves, Zenon DEF AllocNext
<1> QED BY <1>1, <1>2, <1>3, <1>4, PTL DEF AllocSpec, AllocatorsGrant, Payloads!Spec, Bumps!Spec, ExtentsOf
=============================================================================
