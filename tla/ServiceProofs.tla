--------------------------- MODULE ServiceProofs ----------------------------
(***************************************************************************)
(* Proofs about the device tree that dt.h walks, the block cache of buf.h, *)
(* the ARP cache of arp.h and the signals of signal.h.                     *)
(***************************************************************************)
EXTENDS Tree, Buf, Arp, Signal, FiniteSetTheorems, TLAPS

\* A set of natural numbers that is not empty has a least element.
LEMMA LeastOfNat ==
    ASSUME NEW T, T \subseteq Nat, T # {}
    PROVE  \E x \in T : \A y \in T : x <= y
<1> DEFINE R == {p \in Nat \X Nat : p[1] < p[2]}
<1>1. IsWellFoundedOn(R, Nat) BY NatLessThanWellFounded, Zenon DEF OpToRel
<1> HIDE DEF R
<1>2. PICK x \in T : \A y \in T : ~(<<y, x>> \in R) BY <1>1, WFMin, Zenon
<1>3. ASSUME NEW y \in T PROVE x <= y
  <2>1. ~(<<y, x>> \in R) BY <1>2, Zenon
  <2>2. y < x => <<y, x>> \in R BY Zenon DEF R
  <2> QED BY <2>1, <2>2
<1> QED BY <1>3, Zenon

\* Min is that element.
LEMMA MinOfNat ==
    ASSUME NEW T, T \subseteq Nat, T # {}
    PROVE  Min(T) \in T /\ \A y \in T : Min(T) <= y
BY LeastOfNat, Zenon DEF Min

-----------------------------------------------------------------------------
\* A mark is the place of a tag in the blob, with the depth it is at and the
\* number of nodes before it; Follows(bl, ns, a, b): the mark b comes behind a.
Mark == [at : Nat, depth : Nat, seen : Nat]

Follows(bl, ns, a, b) ==
    /\ a.at \in 1 .. Len(bl) /\ b.at \in a.at + 1 .. Len(bl) + 1 /\ b.seen <= Len(ns)
    /\ \/ /\ bl[a.at] \in {RIV_FDT_NOP, FDT_OTHER}
          /\ b.at = a.at + 1 /\ b.depth = a.depth /\ b.seen = a.seen
       \/ /\ bl[a.at] = RIV_FDT_END_NODE
          /\ b.at = a.at + 1 /\ b.depth = a.depth - 1 /\ b.seen = a.seen
       \/ /\ bl[a.at] = RIV_FDT_PROP /\ a.at + 1 <= Len(bl)
          /\ b.at = a.at + 3 + ((bl[a.at + 1] + 3) \div 4) /\ b.depth = a.depth /\ b.seen = a.seen
       \/ /\ bl[a.at] = RIV_FDT_BEGIN_NODE /\ a.at + 1 <= Len(bl)
          /\ b.at = a.at + 1 + ((bl[a.at + 1] + 4) \div 4) /\ b.depth = a.depth + 1 /\ b.seen = a.seen + 1
          /\ ns[a.seen + 1] = <<bl[a.at + 1], a.depth>>

Marked(bl, ns, T, last) ==
    /\ T \in Seq(Mark) /\ T # <<>> /\ T[1] = [at |-> 1, depth |-> 0, seen |-> 0] /\ T[Len(T)] = last
    /\ \A j \in 1 .. Len(T) - 1 : Follows(bl, ns, T[j], T[j + 1])

\* The marks of a longer blob and of more nodes.
LEMMA StillMarked == ASSUME NEW bl \in Seq(Nat), NEW ns \in Seq(Nat \X Nat), NEW words \in Seq(Nat), NEW more \in Seq(Nat \X Nat),
                            NEW T, NEW last, Marked(bl, ns, T, last)
                     PROVE  Marked(bl \o words, ns \o more, T, last)
<1> DEFINE bl2 == bl \o words
           ns2 == ns \o more
<1>1. Len(bl2) = Len(bl) + Len(words) /\ \A i \in 1 .. Len(bl) : bl2[i] = bl[i] OBVIOUS
<1>2. Len(ns2) = Len(ns) + Len(more) /\ \A i \in 1 .. Len(ns) : ns2[i] = ns[i] OBVIOUS
<1>3. Len(bl) \in Nat /\ Len(words) \in Nat /\ Len(ns) \in Nat /\ Len(more) \in Nat OBVIOUS
<1> HIDE DEF bl2, ns2
<1>4. ASSUME NEW j \in 1 .. Len(T) - 1 PROVE Follows(bl2, ns2, T[j], T[j + 1])
  <2>1. PICK a, b : a = T[j] /\ b = T[j + 1] BY Zenon
  <2>2. a \in Mark /\ b \in Mark /\ Follows(bl, ns, a, b) BY <2>1 DEF Marked
  <2>3. a.at \in 1 .. Len(bl) /\ b.at \in a.at + 1 .. Len(bl) + 1 /\ b.seen <= Len(ns) BY <2>2, Zenon DEF Follows
  <2>7. PICK x \in Nat : x = a.at BY <2>2, Zenon DEF Mark
  <2>8. PICK y \in Nat : y = b.at BY <2>2, Zenon DEF Mark
  <2>9. PICK n \in Nat, m \in Nat : n = Len(bl) /\ m = Len(bl2) /\ n <= m BY <1>1, <1>3
  <2>10. PICK k \in Nat, q \in Nat : k = Len(ns) /\ q = Len(ns2) /\ k <= q BY <1>2, <1>3
  <2>11. x \in 1 .. n /\ y \in x + 1 .. n + 1 BY <2>3, <2>7, <2>8, <2>9, Zenon
  <2>4. a.at \in 1 .. Len(bl2) /\ b.at \in a.at + 1 .. Len(bl2) + 1 /\ b.seen <= Len(ns2) /\ bl2[a.at] = bl[a.at]
    <3>1. x \in 1 .. m /\ y \in x + 1 .. m + 1 BY <2>9, <2>11, SMTT(30)
    <3>2. b.seen \in Nat BY <2>2, Zenon DEF Mark
    <3>3. b.seen <= Len(ns2) BY <2>3, <2>10, <3>2
    <3>4. bl2[x] = bl[x] BY <1>1, <2>9, <2>11, Zenon
    <3> QED BY <2>7, <2>8, <2>9, <3>1, <3>3, <3>4, Zenon
  <2>5. a.at + 1 <= Len(bl) => a.at + 1 <= Len(bl2) /\ bl2[a.at + 1] = bl[a.at + 1]
    <3>1. x + 1 <= n => x + 1 <= m /\ x + 1 \in 1 .. n BY <2>9
    <3> QED BY <1>1, <2>7, <2>9, <3>1, SMTT(30)
  <2>6. b.seen = a.seen + 1 => ns2[a.seen + 1] = ns[a.seen + 1]
    <3>1. PICK s \in Nat : s = a.seen BY <2>2, Zenon DEF Mark
    <3>2. b.seen = s + 1 => s + 1 \in 1 .. k BY <2>3, <2>10
    <3> QED BY <1>2, <2>10, <3>1, <3>2, SMTT(30)
  <2> QED BY <2>1, <2>2, <2>4, <2>5, <2>6, Zenon DEF Follows
<1> QED BY <1>4, Zenon DEF Marked, bl2, ns2

\* One more mark behind the last.
LEMMA OneMoreMark == ASSUME NEW bl, NEW ns, NEW T, NEW last, Marked(bl, ns, T, last), NEW b \in Mark, Follows(bl, ns, last, b)
                     PROVE  Marked(bl, ns, Append(T, b), b)
<1> DEFINE U == Append(T, b)
<1>1. T \in Seq(Mark) /\ Len(T) \in Nat \ {0} /\ T[Len(T)] = last BY DEF Marked
<1>2. U \in Seq(Mark) /\ U # <<>> /\ Len(U) = Len(T) + 1 /\ U[Len(U)] = b /\ \A j \in 1 .. Len(T) : U[j] = T[j] BY <1>1
<1> HIDE DEF U
<1>3. U[1] = [at |-> 1, depth |-> 0, seen |-> 0] BY <1>1, <1>2 DEF Marked
<1>4. ASSUME NEW j \in 1 .. Len(U) - 1 PROVE Follows(bl, ns, U[j], U[j + 1])
  <2>1. CASE j = Len(T) BY <1>1, <1>2, <2>1
  <2>2. CASE j # Len(T)
    <3>1. j \in 1 .. Len(T) - 1 /\ U[j] = T[j] /\ U[j + 1] = T[j + 1] BY <1>1, <1>2, <2>2
    <3> QED BY <3>1, Zenon DEF Marked
  <2> QED BY <2>1, <2>2, Zenon
<1> QED BY <1>2, <1>3, <1>4, Zenon DEF Marked, U

-----------------------------------------------------------------------------
WalkType == [phase : {"building", "walking", "done"}, p : Nat, depth : Int, visits : Seq(Nat \X Nat), ret : Int, stop : Nat]

\* Where the words of the tags end.
Behind == IF walk.phase = "building" THEN Len(blob) + 1 ELSE Len(blob)
End == [at |-> Behind, depth |-> open, seen |-> Len(nodes)]

\* The walk stands at the mark m.
StandsAt(m) == walk.p = m.at /\ walk.depth = m.depth /\ m.seen <= Len(nodes) /\ walk.visits = SubSeq(nodes, 1, m.seen)

TreeInv ==
    /\ blob \in Seq(Nat) /\ nodes \in Seq(Nat \X Nat) /\ open \in Nat /\ walk \in WalkType
    /\ walk.phase = "building" => walk.p = 1 /\ walk.depth = 0 /\ walk.visits = <<>> /\ walk.ret = 0
    /\ walk.phase = "walking" => open = 0 /\ walk.ret = 0 /\ blob # <<>> /\ blob[Len(blob)] = RIV_FDT_END
    /\ walk.phase # "done" =>
         \E T : /\ Marked(blob, nodes, T, End)
                /\ walk.phase = "walking" => \E j \in 1 .. Len(T) : StandsAt(T[j])
    /\ TreeWalked

\* A blob that begins.
LEMMA TreeInitInv == ASSUME TreeInit PROVE TreeInv
<1>1. <<>> \in Seq(Nat) /\ <<>> \in Seq(Nat \X Nat) /\ Len(<<>>) = 0 OBVIOUS
<1>2. walk \in WalkType BY <1>1 DEF TreeInit, WalkType
<1>3. walk.phase = "building" /\ walk.p = 1 /\ walk.depth = 0 /\ walk.visits = <<>> /\ walk.ret = 0 BY Zenon DEF TreeInit
<1>4. End = [at |-> 1, depth |-> 0, seen |-> 0] BY <1>1, <1>3 DEF End, Behind, TreeInit
<1>5. Marked(blob, nodes, <<End>>, End)
  <2>1. End \in Mark BY <1>4, Zenon DEF Mark
  <2>2. <<End>> \in Seq(Mark) /\ <<End>> # <<>> /\ Len(<<End>>) = 1 /\ <<End>>[1] = End BY <2>1
  <2> QED BY <1>4, <2>2 DEF Marked
<1>6. TreeWalked
  <2>1. Len(walk.visits) = 0 /\ Len(nodes) = 0 /\ walk.visits = SubSeq(nodes, 1, 0) BY <1>1, <1>3 DEF TreeInit
  <2> QED BY <1>3, <2>1 DEF TreeWalked
<1> QED BY <1>1, <1>2, <1>3, <1>5, <1>6, Zenon DEF TreeInv, TreeInit

\* Words laid behind the blob that end at a mark.
LEMMA LayInv == ASSUME TreeInv, NEW words \in Seq(Nat), Lay(words), NEW more \in Seq(Nat \X Nat), nodes' = nodes \o more,
                       open' \in Nat, Follows(blob', nodes', End, End')
                PROVE  TreeInv'
<1>1. walk.phase = "building" /\ walk' = walk /\ blob' = blob \o words BY Zenon DEF Lay
<1>2. blob \in Seq(Nat) /\ nodes \in Seq(Nat \X Nat) BY Zenon DEF TreeInv
<1>3. blob' \in Seq(Nat) /\ nodes' \in Seq(Nat \X Nat) BY <1>1, <1>2
<1>4. PICK T : Marked(blob, nodes, T, End) BY <1>1, Zenon DEF TreeInv
<1>5. Marked(blob', nodes', T, End) BY <1>1, <1>2, <1>4, StillMarked, Zenon
<1>6. End' \in Mark
  <2>1. Len(blob') + 1 \in Nat /\ Len(nodes') \in Nat BY <1>3
  <2>2. End' = [at |-> Len(blob') + 1, depth |-> open', seen |-> Len(nodes')] BY <1>1, Zenon DEF End, Behind
  <2> QED BY <2>1, <2>2, Zenon DEF Mark
<1>7. PICK e : e = End' BY Zenon
<1>8. Marked(blob', nodes', Append(T, e), e) BY <1>5, <1>6, <1>7, OneMoreMark, Zenon
<1>9. TreeWalked'
  <2>1. walk'.visits = <<>> /\ walk'.phase = "building" BY <1>1, Zenon DEF TreeInv
  <2>2. Len(walk'.visits) = 0 /\ Len(nodes') \in Nat /\ SubSeq(nodes', 1, 0) = <<>> BY <1>3, <2>1
  <2> QED BY <2>1, <2>2 DEF TreeWalked
<1>10. \E U : Marked(blob', nodes', U, End') BY <1>7, <1>8, Zenon
<1>11. walk'.phase = "building" /\ walk' \in WalkType /\ walk'.p = 1 /\ walk'.depth = 0 /\ walk'.visits = <<>> /\ walk'.ret = 0
  BY <1>1, Zenon DEF TreeInv
<1> QED BY <1>3, <1>9, <1>10, <1>11, Zenon DEF TreeInv

\* Two sequences of words joined: their length,
LEMMA JoinedIs ==
    ASSUME NEW a \in Seq(Nat), NEW b \in Seq(Nat)
    PROVE  a \o b \in Seq(Nat) /\ Len(a \o b) = Len(a) + Len(b)
OBVIOUS

\* the words of the first,
LEMMA JoinedHead ==
    ASSUME NEW a \in Seq(Nat), NEW b \in Seq(Nat), NEW i \in 1 .. Len(a)
    PROVE  (a \o b)[i] = a[i]
OBVIOUS

\* and those of the second.
LEMMA JoinedTail ==
    ASSUME NEW a \in Seq(Nat), NEW b \in Seq(Nat), NEW i \in 1 .. Len(b)
    PROVE  (a \o b)[Len(a) + i] = b[i]
OBVIOUS

\* Sequences of two words
LEMMA TwoWords == ASSUME NEW x \in Nat, NEW y \in Nat
                  PROVE  <<x, y>> \in Seq(Nat) /\ Len(<<x, y>>) = 2 /\ <<x, y>>[1] = x /\ <<x, y>>[2] = y
OBVIOUS

\* and of three.
LEMMA ThreeWords == ASSUME NEW x \in Nat, NEW y \in Nat, NEW z \in Nat
                    PROVE  <<x, y, z>> \in Seq(Nat) /\ Len(<<x, y, z>>) = 3 /\ <<x, y, z>>[1] = x /\ <<x, y, z>>[2] = y
OBVIOUS

\* A tag and its argument, with the rest of the words, laid behind a blob.
LEMMA TagLaid == ASSUME NEW bl \in Seq(Nat), NEW w \in Seq(Nat), NEW f \in Seq(Nat), NEW tag \in Nat, NEW l \in Nat,
                        Len(w) \in {2, 3}, w[1] = tag, w[2] = l
                 PROVE  /\ w \o f \in Seq(Nat) /\ Len(bl \o (w \o f)) = Len(bl) + Len(w) + Len(f)
                        /\ (bl \o (w \o f))[Len(bl) + 1] = tag /\ (bl \o (w \o f))[Len(bl) + 1 + 1] = l
<1>1. PICK u : u = w \o f BY Zenon
<1>2. Len(w) \in Nat /\ Len(f) \in Nat /\ Len(bl) \in Nat OBVIOUS
<1>3. u \in Seq(Nat) /\ Len(u) = Len(w) + Len(f) BY <1>1, JoinedIs, Zenon
<1>4. 1 \in 1 .. Len(w) /\ 2 \in 1 .. Len(w) OBVIOUS
<1>5. u[1] = tag /\ u[2] = l BY <1>1, <1>4, JoinedHead, Zenon
<1>6. 1 \in 1 .. Len(u) /\ 2 \in 1 .. Len(u) /\ Len(bl) + 2 = Len(bl) + 1 + 1 BY <1>2, <1>3, SMTT(30)
<1>7. Len(bl \o u) = Len(bl) + Len(u) BY <1>3, JoinedIs, Zenon
<1>8. (bl \o u)[Len(bl) + 1] = tag BY <1>3, <1>5, <1>6, JoinedTail, Zenon
<1>9. (bl \o u)[Len(bl) + 2] = l BY <1>3, <1>5, <1>6, JoinedTail, Zenon
<1> QED BY <1>1, <1>2, <1>3, <1>6, <1>7, <1>8, <1>9

\* One node more.
LEMMA OneMoreNode == ASSUME NEW s \in Seq(Nat \X Nat), NEW e \in Nat \X Nat
                     PROVE  /\ <<e>> \in Seq(Nat \X Nat) /\ Append(s, e) = s \o <<e>> /\ Append(s, e) \in Seq(Nat \X Nat)
                            /\ Len(Append(s, e)) = Len(s) + 1 /\ Append(s, e)[Len(s) + 1] = e
BY SMTT(30)

\* One word more.
LEMMA OneMoreWord == ASSUME NEW s \in Seq(Nat), NEW e \in Nat
                     PROVE  /\ <<e>> \in Seq(Nat) /\ Append(s, e) = s \o <<e>> /\ Append(s, e) \in Seq(Nat)
                            /\ Len(Append(s, e)) = Len(s) + 1 /\ Append(s, e)[Len(s) + 1] = e
OBVIOUS

\* The firmware lays a tag behind the blob.
LEMMA BuildStep ==
    ASSUME TreeInv, LayBegin \/ LayProp \/ LayNop \/ LayOther \/ LayEnd
    PROVE  TreeInv'
<1>1. blob \in Seq(Nat) /\ nodes \in Seq(Nat \X Nat) /\ open \in Nat BY Zenon DEF TreeInv
<1>2. PICK n \in Nat : n = Len(blob) BY <1>1
<1>3. PICK s \in Nat : s = Len(nodes) BY <1>1
<1>4. walk.phase = "building" /\ walk' = walk BY Zenon DEF LayBegin, LayProp, LayNop, LayOther, LayEnd, Lay
<1>5. End = [at |-> n + 1, depth |-> open, seen |-> s] /\ End' = [at |-> Len(blob') + 1, depth |-> open', seen |-> Len(nodes')]
  BY <1>2, <1>3, <1>4, Zenon DEF End, Behind
<1>6. <<>> \in Seq(Nat \X Nat) /\ nodes = nodes \o <<>> BY <1>1
\* A tag of one word.
<1>7. ASSUME NEW tag \in Nat, Lay(<<tag>>), nodes' = nodes, open' \in Nat,
             (tag \in {RIV_FDT_NOP, FDT_OTHER} /\ open' = open) \/ (tag = RIV_FDT_END_NODE /\ open' = open - 1)
      PROVE  TreeInv'
  <2>1. <<tag>> \in Seq(Nat) /\ blob' = blob \o <<tag>> BY <1>7 DEF Lay
  <2>2. Len(blob') = n + 1 /\ blob'[n + 1] = tag BY <1>1, <1>2, <2>1
  <2>3. Follows(blob', nodes', End, End') BY <1>2, <1>3, <1>5, <1>7, <2>2 DEF Follows
  <2>4. nodes' = nodes \o <<>> BY <1>6, <1>7, Zenon
  <2> QED BY <1>6, <1>7, <2>1, <2>3, <2>4, LayInv, Zenon
<1>8. CASE LayNop BY <1>1, <1>7, <1>8, Zenon DEF LayNop, RIV_FDT_NOP
<1>9. CASE LayOther BY <1>1, <1>7, <1>9, Zenon DEF LayOther, FDT_OTHER
<1>10. CASE LayEnd
  <2>1. open - 1 \in Nat BY <1>1, <1>10 DEF LayEnd
  <2> QED BY <1>7, <1>10, <2>1, Zenon DEF LayEnd, RIV_FDT_END_NODE
<1>11. ASSUME NEW k \in Nat, NEW v \in Nat PROVE Filler(k, v) \in Seq(Nat) /\ Len(Filler(k, v)) = k
  BY DEF Filler
<1>12. CASE LayProp
  <2>1. PICK l \in PropLengths, v \in Noise : Lay(<<RIV_FDT_PROP, l, v>> \o Filler((l + 3) \div 4, v)) /\ UNCHANGED <<open, nodes>>
    BY <1>12, Zenon DEF LayProp
  <2>2. l \in Nat /\ v \in Nat BY TreeAssumption, Zenon
  <2>3. PICK k \in Nat : k = (l + 3) \div 4 BY <2>2
  <2>4. PICK f \in Seq(Nat) : f = Filler(k, v) /\ Len(f) = k BY <1>11, <2>2, Zenon
  <2>5. PICK w \in Seq(Nat) : w = <<RIV_FDT_PROP, l, v>> /\ Len(w) = 3 /\ w[1] = RIV_FDT_PROP /\ w[2] = l
    <3>1. PICK tag \in Nat : tag = RIV_FDT_PROP BY Zenon DEF RIV_FDT_PROP
    <3>2. PICK w : w = <<tag, l, v>> BY Zenon
    <3>3. w \in Seq(Nat) /\ Len(w) = 3 /\ w[1] = tag /\ w[2] = l BY <2>2, <3>2, ThreeWords, Zenon
    <3> QED BY <3>1, <3>2, <3>3, Zenon
  <2>6. PICK u : u = w \o f BY Zenon
  <2>7. u \in Seq(Nat) /\ Lay(u) /\ blob' = blob \o u
    <3>1. u \in Seq(Nat) BY <2>6, JoinedIs, Zenon
    <3>2. Lay(u) BY <2>1, <2>3, <2>4, <2>5, <2>6, Zenon
    <3> QED BY <3>1, <3>2, Zenon DEF Lay
  <2>9. Len(blob') = n + 3 + k /\ blob'[n + 1] = RIV_FDT_PROP /\ blob'[n + 1 + 1] = l
    <3>1. RIV_FDT_PROP \in Nat BY Zenon DEF RIV_FDT_PROP
    <3>2. Len(w) \in {2, 3} BY <2>5, Zenon
    <3>3. Len(blob') = Len(blob) + Len(w) + Len(f) /\ blob'[Len(blob) + 1] = RIV_FDT_PROP /\ blob'[Len(blob) + 1 + 1] = l
      BY <1>1, <2>2, <2>5, <2>6, <2>7, <3>1, <3>2, TagLaid
    <3> QED BY <1>2, <2>4, <2>5, <3>3, Zenon
  <2>10. Follows(blob', nodes', End, End')
    <3>1. End.at = n + 1 /\ End.depth = open /\ End.seen = s BY <1>5, Zenon
    <3>2. End'.at = n + 3 + k + 1 /\ End'.depth = open /\ End'.seen = s /\ Len(nodes') = s BY <1>3, <1>5, <2>1, <2>9, Zenon
    <3>3. n + 1 \in 1 .. n + 3 + k /\ n + 3 + k + 1 \in n + 1 + 1 .. n + 3 + k + 1 /\ n + 1 + 1 <= n + 3 + k
      BY <1>2, <2>3
    <3>4. n + 3 + k + 1 = n + 1 + 3 + ((blob'[n + 1 + 1] + 3) \div 4) BY <1>2, <2>3, <2>9
    <3> QED BY <2>9, <3>1, <3>2, <3>3, <3>4 DEF Follows
  <2>11. nodes' = nodes \o <<>> /\ open' \in Nat BY <1>1, <1>6, <2>1, Zenon
  <2> QED BY <1>6, <2>7, <2>10, <2>11, LayInv, Zenon
<1>13. CASE LayBegin
  <2>1. PICK l \in NameLengths, v \in Noise : /\ Lay(<<RIV_FDT_BEGIN_NODE, l>> \o Filler(l \div 4, v))
                                               /\ nodes' = Append(nodes, <<l, open>>) /\ open' = open + 1
    BY <1>13, Zenon DEF LayBegin
  <2>2. l \in Nat /\ v \in Nat BY TreeAssumption, Zenon
  <2>3. PICK k \in Nat : k = l \div 4 /\ (l + 4) \div 4 = k + 1 BY <2>2
  <2>4. PICK f \in Seq(Nat) : f = Filler(k, v) /\ Len(f) = k BY <1>11, <2>2, Zenon
  <2>5. PICK w \in Seq(Nat) : w = <<RIV_FDT_BEGIN_NODE, l>> /\ Len(w) = 2 /\ w[1] = RIV_FDT_BEGIN_NODE /\ w[2] = l
    <3>1. PICK tag \in Nat : tag = RIV_FDT_BEGIN_NODE BY Zenon DEF RIV_FDT_BEGIN_NODE
    <3>2. PICK w : w = <<tag, l>> BY Zenon
    <3>3. w \in Seq(Nat) /\ Len(w) = 2 /\ w[1] = tag /\ w[2] = l BY <2>2, <3>2, TwoWords, Zenon
    <3> QED BY <3>1, <3>2, <3>3, Zenon
  <2>6. PICK u : u = w \o f BY Zenon
  <2>7. u \in Seq(Nat) /\ Lay(u) /\ blob' = blob \o u
    <3>1. u \in Seq(Nat) BY <2>6, JoinedIs, Zenon
    <3>2. Lay(u) BY <2>1, <2>3, <2>4, <2>5, <2>6, Zenon
    <3> QED BY <3>1, <3>2, Zenon DEF Lay
  <2>9. Len(blob') = n + 2 + k /\ blob'[n + 1] = RIV_FDT_BEGIN_NODE /\ blob'[n + 1 + 1] = l
    <3>1. RIV_FDT_BEGIN_NODE \in Nat BY Zenon DEF RIV_FDT_BEGIN_NODE
    <3>2. Len(w) \in {2, 3} BY <2>5, Zenon
    <3>3. Len(blob') = Len(blob) + Len(w) + Len(f) /\ blob'[Len(blob) + 1] = RIV_FDT_BEGIN_NODE /\ blob'[Len(blob) + 1 + 1] = l
      BY <1>1, <2>2, <2>5, <2>6, <2>7, <3>1, <3>2, TagLaid
    <3> QED BY <1>2, <2>4, <2>5, <3>3, Zenon
  <2>10. PICK node \in Nat \X Nat : node = <<l, open>> BY <1>1, <2>2, Zenon
  <2>11. <<node>> \in Seq(Nat \X Nat) /\ nodes' = nodes \o <<node>> /\ Len(nodes') = s + 1 /\ nodes'[s + 1] = node
    <3>1. nodes' = Append(nodes, node) BY <2>1, <2>10, Zenon
    <3> QED BY <1>1, <1>3, <2>10, <3>1, OneMoreNode, Zenon
  <2>12. Follows(blob', nodes', End, End')
    <3>1. End.at = n + 1 /\ End.depth = open /\ End.seen = s BY <1>5, Zenon
    <3>2. End'.at = n + 2 + k + 1 /\ End'.depth = open + 1 /\ End'.seen = s + 1 /\ Len(nodes') = s + 1
      BY <1>5, <2>1, <2>9, <2>11, Zenon
    <3>3. n + 1 \in 1 .. n + 2 + k /\ n + 2 + k + 1 \in n + 1 + 1 .. n + 2 + k + 1 /\ n + 1 + 1 <= n + 2 + k
      BY <1>2, <2>3, SMTT(30)
    <3>4. n + 2 + k + 1 = n + 1 + 1 + ((blob'[n + 1 + 1] + 4) \div 4) BY <1>2, <2>3, <2>9
    <3>5. nodes'[s + 1] = <<blob'[n + 1 + 1], open>> BY <2>9, <2>10, <2>11, Zenon
    <3>6. s + 1 <= s + 1 BY <1>3
    <3> QED BY <2>9, <3>1, <3>2, <3>3, <3>4, <3>5, <3>6, Zenon DEF Follows
  <2>13. open' \in Nat BY <1>1, <2>1
  <2> QED BY <2>7, <2>11, <2>12, <2>13, LayInv, Zenon
<1> QED BY <1>8, <1>9, <1>10, <1>12, <1>13, Zenon

-----------------------------------------------------------------------------

\* riv_fdt_walk begins.
LEMMA WalkBegins == ASSUME TreeInv, riv_fdt_walk PROVE TreeInv'
<1>1. PICK stop \in 0 .. Len(nodes), valid \in BOOLEAN :
        /\ walk.phase = "building" /\ open = 0 /\ nodes # <<>>
        /\ blob' = Append(blob, RIV_FDT_END)
        /\ walk' = [walk EXCEPT !.phase = IF valid THEN "walking" ELSE "done", !.ret = IF valid THEN 0 ELSE -1, !.stop = stop]
        /\ UNCHANGED <<open, nodes>>
  BY Zenon DEF riv_fdt_walk
<1>2. blob \in Seq(Nat) /\ nodes \in Seq(Nat \X Nat) /\ walk \in WalkType /\ walk.p = 1 /\ walk.depth = 0 /\ walk.visits = <<>>
  BY <1>1, Zenon DEF TreeInv
<1>3. RIV_FDT_END \in Nat BY Zenon DEF RIV_FDT_END
<1>4. /\ blob' \in Seq(Nat) /\ blob' = blob \o <<RIV_FDT_END>> /\ <<RIV_FDT_END>> \in Seq(Nat)
      /\ Len(blob') = Len(blob) + 1 /\ blob'[Len(blob) + 1] = RIV_FDT_END
  BY <1>1, <1>2, <1>3, OneMoreWord, Zenon
<1>5. blob' # <<>> /\ blob'[Len(blob')] = RIV_FDT_END BY <1>2, <1>4
<1>6. /\ walk' \in WalkType /\ walk'.p = 1 /\ walk'.depth = 0 /\ walk'.visits = <<>>
      /\ walk'.phase = (IF valid THEN "walking" ELSE "done") /\ walk'.ret = (IF valid THEN 0 ELSE -1)
  <2>1. PICK next_phase \in {"walking", "done"}, r \in Int : next_phase = (IF valid THEN "walking" ELSE "done") /\ r = (IF valid THEN 0 ELSE -1)
    <3>1. CASE valid = TRUE BY <3>1
    <3>2. CASE valid = FALSE BY <3>2
    <3> QED BY <3>1, <3>2, Zenon
  <2>2. walk' = [walk EXCEPT !.phase = next_phase, !.ret = r, !.stop = stop] BY <1>1, <2>1, Zenon
  <2>3. walk' \in WalkType
    <3>1. stop \in Nat /\ next_phase \in {"building", "walking", "done"} OBVIOUS
    <3> QED BY <1>2, <2>2, <3>1, Zenon DEF WalkType
  <2>4. walk'.p = walk.p /\ walk'.depth = walk.depth /\ walk'.visits = walk.visits /\ walk'.phase = next_phase /\ walk'.ret = r
    BY <1>2, <2>2, Zenon DEF WalkType
  <2> QED BY <1>2, <2>1, <2>3, <2>4, Zenon
<1>7. PICK T : Marked(blob, nodes, T, End) BY <1>1, Zenon DEF TreeInv
<1>8. nodes = nodes \o <<>> /\ <<>> \in Seq(Nat \X Nat) /\ SubSeq(nodes, 1, 0) = <<>> /\ Len(nodes) \in Nat /\ Len(<<>>) = 0 BY <1>2
<1>9. Marked(blob', nodes', T, End')
  <2>1. walk'.phase # "building" BY <1>6, Zenon
  <2>2. End' = End BY <1>1, <1>4, <2>1, Zenon DEF End, Behind
  <2>3. Marked(blob', nodes \o <<>>, T, End) BY <1>2, <1>4, <1>7, <1>8, StillMarked, Zenon
  <2> QED BY <1>1, <1>8, <2>2, <2>3, Zenon
<1>10. 1 \in 1 .. Len(T) /\ StandsAt(T[1])'
  <2>1. T[1] = [at |-> 1, depth |-> 0, seen |-> 0] /\ T \in Seq(Mark) /\ T # <<>> BY <1>7, Zenon DEF Marked
  <2>2. 1 \in 1 .. Len(T) BY <2>1
  <2>3. T[1].at = 1 /\ T[1].depth = 0 /\ T[1].seen = 0 BY <2>1
  <2>4. nodes' = nodes /\ 0 <= Len(nodes) BY <1>1, <1>8
  <2> QED BY <1>6, <1>8, <2>2, <2>3, <2>4, Zenon DEF StandsAt
<1>11. Len(walk'.visits) <= Len(nodes') /\ walk'.visits = SubSeq(nodes', 1, Len(walk'.visits))
  <2>1. nodes' = nodes /\ 0 <= Len(nodes) BY <1>1, <1>8
  <2>2. Len(walk'.visits) = 0 BY <1>6, <1>8, Zenon
  <2> QED BY <1>6, <1>8, <2>1, <2>2, Zenon
<1>12. CASE valid = TRUE
  <2>1. walk'.phase = "walking" /\ walk'.ret = 0 BY <1>6, <1>12, Zenon
  <2>2. TreeWalked' BY <1>11, <2>1, Zenon DEF TreeWalked
  <2> QED BY <1>1, <1>2, <1>4, <1>5, <1>6, <1>9, <1>10, <2>1, <2>2, Zenon DEF TreeInv
<1>13. CASE valid = FALSE
  <2>1. walk'.phase = "done" /\ walk'.ret = -1 BY <1>6, <1>13, Zenon
  <2>2. TreeWalked' BY <1>6, <1>11, <2>1, Zenon DEF TreeWalked
  <2> QED BY <1>1, <1>2, <1>4, <1>6, <2>1, <2>2, Zenon DEF TreeInv
<1> QED BY <1>12, <1>13, Zenon

\* What a turn of the loop may rely on.
LEMMA Standing == ASSUME TreeInv, walk.phase = "walking"
                  PROVE  /\ blob \in Seq(Nat) /\ nodes \in Seq(Nat \X Nat) /\ walk \in WalkType /\ open = 0
                         /\ \E T \in Seq(Mark) : \E j \in 1 .. Len(T) :
                              /\ Marked(blob, nodes, T, End) /\ StandsAt(T[j])
                              /\ \/ j + 1 \in 1 .. Len(T) /\ Follows(blob, nodes, T[j], T[j + 1])
                                 \/ walk.p = Len(blob) /\ walk.depth = 0 /\ walk.visits = nodes /\ blob[walk.p] = RIV_FDT_END
<1>1. blob \in Seq(Nat) /\ nodes \in Seq(Nat \X Nat) /\ walk \in WalkType /\ open = 0 /\ blob[Len(blob)] = RIV_FDT_END BY Zenon DEF TreeInv
<1>2. PICK T : Marked(blob, nodes, T, End) /\ \E j \in 1 .. Len(T) : StandsAt(T[j]) BY Zenon DEF TreeInv
<1>3. PICK j \in 1 .. Len(T) : StandsAt(T[j]) BY <1>2, Zenon
<1>4. T \in Seq(Mark) /\ Len(T) \in Nat /\ T[Len(T)] = End BY <1>2 DEF Marked
<1>5. CASE j = Len(T)
  <2>1. End.at = Len(blob) /\ End.depth = 0 /\ End.seen = Len(nodes) BY <1>1, Zenon DEF End, Behind
  <2>2. walk.p = Len(blob) /\ walk.depth = 0 /\ walk.visits = SubSeq(nodes, 1, Len(nodes)) BY <1>3, <1>4, <1>5, <2>1, Zenon DEF StandsAt
  <2>3. SubSeq(nodes, 1, Len(nodes)) = nodes BY <1>1
  <2> QED BY <1>1, <1>2, <1>3, <1>4, <2>2, <2>3, Zenon
<1>6. CASE j # Len(T)
  <2>1. j \in 1 .. Len(T) - 1 /\ j + 1 \in 1 .. Len(T) BY <1>4, <1>6
  <2>2. Follows(blob, nodes, T[j], T[j + 1]) BY <1>2, <2>1, Zenon DEF Marked
  <2> QED BY <1>1, <1>2, <1>3, <1>4, <2>1, <2>2, Zenon
<1> QED BY <1>5, <1>6, Zenon

\* The first nodes of a tree,
LEMMA FirstNodes == ASSUME NEW s \in Seq(Nat \X Nat), NEW n \in Nat, n <= Len(s)
                    PROVE  SubSeq(s, 1, n) \in Seq(Nat \X Nat) /\ Len(SubSeq(s, 1, n)) = n
OBVIOUS

\* and the next of them.
LEMMA NextNode == ASSUME NEW s \in Seq(Nat \X Nat), NEW n \in Nat, n + 1 <= Len(s)
                  PROVE  Append(SubSeq(s, 1, n), s[n + 1]) = SubSeq(s, 1, n + 1)
OBVIOUS

\* A turn that goes on to the next mark.
LEMMA GoesOn == ASSUME TreeInv, walk.phase = "walking", UNCHANGED <<blob, open, nodes>>, NEW T, Marked(blob, nodes, T, End),
                       NEW j \in 1 .. Len(T), StandsAt(T[j])', walk' \in WalkType, walk'.phase = "walking", walk'.ret = 0
                PROVE  TreeInv'
<1>1. End' = End BY Zenon DEF End, Behind
<1>2. \E U : Marked(blob', nodes', U, End') /\ \E i \in 1 .. Len(U) : StandsAt(U[i])' BY <1>1, Zenon
<1>3. T[j] \in Mark BY DEF Marked
<1>4. PICK n \in Nat : n = T[j].seen BY <1>3, Zenon DEF Mark
<1>5. TreeWalked'
  <2>1. nodes \in Seq(Nat \X Nat) BY Zenon DEF TreeInv
  <2>2. n <= Len(nodes) /\ walk'.visits = SubSeq(nodes, 1, n) BY <1>4, Zenon DEF StandsAt
  <2>3. Len(SubSeq(nodes, 1, n)) = n BY <2>1, <2>2
  <2> QED BY <2>1, <2>2, <2>3, Zenon DEF TreeWalked
<1> QED BY <1>2, <1>5, Zenon DEF TreeInv

\* The tags are told apart.
LEMMA Tags == /\ RIV_FDT_BEGIN_NODE # RIV_FDT_END_NODE /\ RIV_FDT_BEGIN_NODE # RIV_FDT_PROP /\ RIV_FDT_BEGIN_NODE # RIV_FDT_NOP
              /\ RIV_FDT_BEGIN_NODE # RIV_FDT_END /\ RIV_FDT_BEGIN_NODE # FDT_OTHER
              /\ RIV_FDT_END_NODE # RIV_FDT_PROP /\ RIV_FDT_END_NODE # RIV_FDT_NOP /\ RIV_FDT_END_NODE # RIV_FDT_END
              /\ RIV_FDT_END_NODE # FDT_OTHER /\ RIV_FDT_PROP # RIV_FDT_NOP /\ RIV_FDT_PROP # RIV_FDT_END
              /\ RIV_FDT_PROP # FDT_OTHER /\ RIV_FDT_NOP # RIV_FDT_END /\ RIV_FDT_NOP # FDT_OTHER /\ RIV_FDT_END # FDT_OTHER
BY DEF RIV_FDT_BEGIN_NODE, RIV_FDT_END_NODE, RIV_FDT_PROP, RIV_FDT_NOP, RIV_FDT_END, FDT_OTHER

\* A turn that ends the walk.
LEMMA EndsAt == ASSUME TreeInv, walk.phase = "walking", UNCHANGED <<blob, open, nodes>>, walk' \in WalkType, walk'.phase = "done", TreeWalked'
                PROVE  TreeInv'
BY Zenon DEF TreeInv

\* A turn that shows a node to the callback.
LEMMA VisitStep == ASSUME TreeInv, walk.phase = "walking", UNCHANGED <<blob, open, nodes>>,
                          VisitEnd \/ VisitNop \/ VisitBegin \/ VisitEndNode \/ VisitProp \/ VisitOther
                   PROVE  TreeInv'
<1>1. blob \in Seq(Nat) /\ nodes \in Seq(Nat \X Nat) /\ walk \in WalkType /\ open = 0 BY Standing, Zenon
<1>16. PICK T \in Seq(Mark) : \E j \in 1 .. Len(T) :
         /\ Marked(blob, nodes, T, End) /\ StandsAt(T[j])
         /\ \/ j + 1 \in 1 .. Len(T) /\ Follows(blob, nodes, T[j], T[j + 1])
            \/ walk.p = Len(blob) /\ walk.depth = 0 /\ walk.visits = nodes /\ blob[walk.p] = RIV_FDT_END
  BY Standing, Zenon
<1>2. PICK j \in 1 .. Len(T) :
        /\ Marked(blob, nodes, T, End) /\ StandsAt(T[j])
        /\ \/ j + 1 \in 1 .. Len(T) /\ Follows(blob, nodes, T[j], T[j + 1])
           \/ walk.p = Len(blob) /\ walk.depth = 0 /\ walk.visits = nodes /\ blob[walk.p] = RIV_FDT_END
  BY <1>16, Zenon
<1>3. PICK a : a = T[j] BY Zenon
<1>4. a \in Mark BY <1>2, <1>3
<1>5. PICK n \in Nat : n = a.seen BY <1>4, Zenon DEF Mark
<1>6. /\ walk.p = a.at /\ walk.depth = a.depth /\ n <= Len(nodes) /\ walk.visits = SubSeq(nodes, 1, n)
      /\ Len(walk.visits) = n /\ Len(nodes) \in Nat
  BY <1>1, <1>2, <1>3, <1>5, FirstNodes, SMTT(30) DEF StandsAt
<1>7. walk.ret = 0 /\ walk.p \in Nat /\ walk.depth \in Int BY <1>1, Zenon DEF TreeInv, WalkType
<1>8. CASE VisitEnd
  <2>1. blob[a.at] = RIV_FDT_END /\ walk' = [walk EXCEPT !.phase = "done"] BY <1>6, <1>8, Zenon DEF VisitEnd, Turn
  <2>2. walk.p = Len(blob) /\ walk.depth = 0 /\ walk.visits = nodes BY <1>2, <1>3, <2>1, Tags, Zenon DEF Follows
  <2>3. /\ walk' \in WalkType /\ walk'.phase = "done" /\ walk'.ret = 0 /\ walk'.p = walk.p /\ walk'.depth = walk.depth
        /\ walk'.visits = walk.visits
    BY <1>1, <1>7, <2>1, Zenon DEF WalkType
  <2>4. TreeWalked' BY <1>6, <2>2, <2>3, Zenon DEF TreeWalked
  <2> QED BY <2>3, <2>4, EndsAt, Zenon
<1>9. CASE VisitOther
  <2>1. /\ blob[a.at] \notin {RIV_FDT_BEGIN_NODE, RIV_FDT_END_NODE, RIV_FDT_PROP, RIV_FDT_NOP, RIV_FDT_END}
        /\ walk' = [walk EXCEPT !.phase = "done", !.ret = -1]
    BY <1>6, <1>9, Zenon DEF VisitOther
  <2>2. blob[walk.p] = FDT_OTHER BY <1>2, <1>3, <1>6, <2>1, Zenon DEF Follows
  <2>3. walk' \in WalkType /\ walk'.phase = "done" /\ walk'.ret = -1 /\ walk'.p = walk.p /\ walk'.visits = walk.visits
    <3>1. PICK r \in Int : r = -1 OBVIOUS
    <3>2. walk' = [walk EXCEPT !.phase = "done", !.ret = r] BY <2>1, <3>1, Zenon
    <3> QED BY <1>1, <3>1, <3>2, Zenon DEF WalkType
  <2>4. TreeWalked' BY <1>6, <2>2, <2>3, Zenon DEF TreeWalked
  <2> QED BY <2>3, <2>4, EndsAt, Zenon
\* The other tags have a mark behind them.
<1>10. PICK b : b = T[j + 1] BY Zenon
<1>11. ASSUME blob[a.at] # RIV_FDT_END PROVE j + 1 \in 1 .. Len(T) /\ b \in Mark /\ Follows(blob, nodes, a, b)
  <2>1. j + 1 \in 1 .. Len(T) /\ Follows(blob, nodes, T[j], T[j + 1]) BY <1>2, <1>3, <1>6, <1>11, Zenon
  <2> QED BY <1>2, <1>3, <1>10, <2>1
<1>12. CASE VisitNop
  <2>1. blob[a.at] = RIV_FDT_NOP /\ walk' = [walk EXCEPT !.p = @ + 1] BY <1>6, <1>12, Zenon DEF VisitNop, Turn
  <2>2. j + 1 \in 1 .. Len(T) /\ b \in Mark /\ b.at = a.at + 1 /\ b.depth = a.depth /\ b.seen = a.seen BY <1>11, <2>1, Tags, Zenon DEF Follows
  <2>3. /\ walk' \in WalkType /\ walk'.phase = "walking" /\ walk'.ret = 0 /\ walk'.p = walk.p + 1 /\ walk'.depth = walk.depth
        /\ walk'.visits = walk.visits
    <3>1. PICK q \in Nat : q = walk.p + 1 BY <1>7
    <3>2. walk' = [walk EXCEPT !.p = q] BY <2>1, <3>1, Zenon
    <3> QED BY <1>1, <1>7, <3>1, <3>2, Zenon DEF WalkType
  <2>4. StandsAt(T[j + 1])' BY <1>5, <1>6, <1>10, <2>2, <2>3, Zenon DEF StandsAt
  <2> QED BY <1>2, <2>2, <2>3, <2>4, GoesOn, Zenon
<1>13. CASE VisitEndNode
  <2>1. blob[a.at] = RIV_FDT_END_NODE /\ walk' = [walk EXCEPT !.p = @ + 1, !.depth = @ - 1] BY <1>6, <1>13, Zenon DEF VisitEndNode, Turn
  <2>2. j + 1 \in 1 .. Len(T) /\ b \in Mark /\ b.at = a.at + 1 /\ b.depth = a.depth - 1 /\ b.seen = a.seen
    BY <1>11, <2>1, Tags, Zenon DEF Follows
  <2>3. /\ walk' \in WalkType /\ walk'.phase = "walking" /\ walk'.ret = 0 /\ walk'.p = walk.p + 1 /\ walk'.depth = walk.depth - 1
        /\ walk'.visits = walk.visits
    <3>1. PICK q \in Nat, d \in Int : q = walk.p + 1 /\ d = walk.depth - 1 BY <1>7
    <3>2. walk' = [walk EXCEPT !.p = q, !.depth = d] BY <2>1, <3>1, Zenon
    <3> QED BY <1>1, <1>7, <3>1, <3>2, Zenon DEF WalkType
  <2>4. StandsAt(T[j + 1])' BY <1>5, <1>6, <1>10, <2>2, <2>3, Zenon DEF StandsAt
  <2> QED BY <1>2, <2>2, <2>3, <2>4, GoesOn, Zenon
<1>14. CASE VisitProp
  <2>1. blob[a.at] = RIV_FDT_PROP /\ walk' = [walk EXCEPT !.p = @ + 3 + ((blob[walk.p + 1] + 3) \div 4)]
    BY <1>6, <1>14, Zenon DEF VisitProp, Turn
  <2>2. /\ j + 1 \in 1 .. Len(T) /\ b \in Mark /\ b.at = a.at + 3 + ((blob[a.at + 1] + 3) \div 4) /\ b.depth = a.depth /\ b.seen = a.seen
    BY <1>11, <2>1, Tags, Zenon DEF Follows
  <2>3. PICK q \in Nat : q = walk.p + 3 + ((blob[walk.p + 1] + 3) \div 4)
    <3>1. b.at \in Nat BY <2>2, Zenon DEF Mark
    <3> QED BY <1>6, <2>2, <3>1, Zenon
  <2>4. walk' = [walk EXCEPT !.p = q] BY <2>1, <2>3, Zenon
  <2>5. /\ walk' \in WalkType /\ walk'.phase = "walking" /\ walk'.ret = 0 /\ walk'.p = q /\ walk'.depth = walk.depth
        /\ walk'.visits = walk.visits
    BY <1>1, <1>7, <2>4, Zenon DEF WalkType
  <2>6. b.at = q BY <1>6, <2>2, <2>3, Zenon
  <2>7. StandsAt(T[j + 1])' BY <1>5, <1>6, <1>10, <2>2, <2>5, <2>6, Zenon DEF StandsAt
  <2> QED BY <1>2, <2>2, <2>5, <2>7, GoesOn, Zenon
<1>15. CASE VisitBegin
  <2>1. PICK l : l = blob[walk.p + 1] BY Zenon
  <2>2. PICK visits : visits = Append(walk.visits, <<l, walk.depth>>) BY Zenon
  <2>3. /\ blob[a.at] = RIV_FDT_BEGIN_NODE
        /\ walk' = IF Len([walk EXCEPT !.visits = visits].visits) = walk.stop
                   THEN [[walk EXCEPT !.visits = visits] EXCEPT !.phase = "done", !.ret = 1]
                   ELSE [[walk EXCEPT !.visits = visits] EXCEPT !.depth = @ + 1, !.p = @ + 1 + ((l + 4) \div 4)]
    BY <1>6, <1>15, <2>1, <2>2, Zenon DEF VisitBegin, Turn
  <2>4. /\ j + 1 \in 1 .. Len(T) /\ b \in Mark /\ b.at = a.at + 1 + ((blob[a.at + 1] + 4) \div 4) /\ b.depth = a.depth + 1
        /\ b.seen = a.seen + 1 /\ b.seen <= Len(nodes) /\ nodes[a.seen + 1] = <<blob[a.at + 1], a.depth>>
    BY <1>11, <2>3, Tags, Zenon DEF Follows
  <2>5. n + 1 \in Nat /\ n + 1 <= Len(nodes) /\ visits = Append(SubSeq(nodes, 1, n), nodes[n + 1]) BY <1>5, <1>6, <2>1, <2>2, <2>4
  <2>6. visits = SubSeq(nodes, 1, n + 1) /\ visits \in Seq(Nat \X Nat) /\ Len(visits) = n + 1
    <3>1. visits = SubSeq(nodes, 1, n + 1) BY <1>1, <2>5, NextNode, Zenon
    <3> QED BY <1>1, <2>5, <3>1, FirstNodes, SMTT(30)
  <2>7. PICK q \in Nat : q = walk.p + 1 + ((l + 4) \div 4) /\ b.at = q
    <3>1. b.at \in Nat BY <2>4, Zenon DEF Mark
    <3> QED BY <1>6, <2>1, <2>4, <3>1, Zenon
  <2>8. walk.depth + 1 \in Int BY <1>7
  <2>9. [walk EXCEPT !.visits = visits].visits = visits /\ walk.stop \in Nat BY <1>1, Zenon DEF WalkType
  <2>10. CASE Len(visits) = walk.stop
    <3>1. walk' = [[walk EXCEPT !.visits = visits] EXCEPT !.phase = "done", !.ret = 1] BY <2>3, <2>9, <2>10, Zenon
    <3>2. walk' \in WalkType /\ walk'.phase = "done" /\ walk'.ret = 1 /\ walk'.visits = visits /\ walk'.stop = walk.stop
      <4>1. PICK w : w = [walk EXCEPT !.visits = visits] BY Zenon
      <4>2. w \in WalkType /\ w.visits = visits /\ w.stop = walk.stop BY <1>1, <2>6, <4>1, Zenon DEF WalkType
      <4>3. PICK r \in Int : r = 1 OBVIOUS
      <4>4. walk' = [w EXCEPT !.phase = "done", !.ret = r] BY <3>1, <4>1, <4>3, Zenon
      <4> QED BY <4>2, <4>3, <4>4, Zenon DEF WalkType
    <3>3. TreeWalked' BY <2>5, <2>6, <2>10, <3>2, Zenon DEF TreeWalked
    <3> QED BY <3>2, <3>3, EndsAt, Zenon
  <2>11. CASE Len(visits) # walk.stop
    <3>1. walk' = [walk EXCEPT !.visits = visits, !.depth = walk.depth + 1, !.p = q]
      <4>1. walk' = [[walk EXCEPT !.visits = visits] EXCEPT !.depth = @ + 1, !.p = @ + 1 + ((l + 4) \div 4)] BY <2>3, <2>9, <2>11, Zenon
      <4> QED BY <1>1, <2>7, <4>1, Zenon DEF WalkType
    <3>2. walk' \in WalkType BY <1>1, <2>6, <2>8, <3>1, Zenon DEF WalkType
    <3>3. walk'.phase = "walking" /\ walk'.ret = 0 /\ walk'.p = q /\ walk'.depth = walk.depth + 1 /\ walk'.visits = visits
      BY <1>1, <1>7, <3>1, Zenon DEF WalkType
    <3>4. StandsAt(T[j + 1])' BY <1>5, <1>6, <1>10, <2>4, <2>6, <2>7, <3>3, Zenon DEF StandsAt
    <3> QED BY <1>2, <2>4, <3>2, <3>3, <3>4, GoesOn, Zenon
  <2> QED BY <2>10, <2>11, Zenon
<1> QED BY <1>8, <1>9, <1>12, <1>13, <1>14, <1>15, Zenon

\* For any tree that a firmware lays out, of any depth and size and with any words
\* for names and data: riv_fdt_walk shows the callback the nodes of the tree, in
\* order and with their depths, until the callback or a malformed tag ends it.
THEOREM TreeIsWalked == TreeSpec => []TreeWalked
<1>1. TreeInit => TreeInv BY TreeInitInv, Zenon
<1>2. TreeInv /\ [TreeNext]_tree_vars => TreeInv'
  <2>1. TreeInv /\ TreeNext => TreeInv'
    <3> SUFFICES ASSUME TreeInv, TreeNext PROVE TreeInv' BY Zenon
    <3>1. CASE LayBegin \/ LayProp \/ LayNop \/ LayOther \/ LayEnd BY <3>1, BuildStep, Zenon
    <3>2. CASE riv_fdt_walk BY <3>2, WalkBegins, Zenon
    <3>3. CASE VisitEnd \/ VisitNop \/ VisitBegin \/ VisitEndNode \/ VisitProp \/ VisitOther
      <4>1. walk.phase = "walking" /\ UNCHANGED <<blob, open, nodes>>
        BY <3>3, Zenon DEF VisitEnd, VisitNop, VisitBegin, VisitEndNode, VisitProp, VisitOther, Turn
      <4> QED BY <3>3, <4>1, VisitStep, Zenon
    <3> QED BY <3>1, <3>2, <3>3, Zenon DEF TreeNext
  <2>2. TreeInv /\ UNCHANGED tree_vars => TreeInv' BY Zenon DEF TreeInv, TreeWalked, End, Behind, StandsAt, tree_vars
  <2> QED BY <2>1, <2>2, Zenon
<1>3. TreeInv => TreeWalked BY Zenon DEF TreeInv
<1> QED BY <1>1, <1>2, <1>3, PTL DEF TreeSpec

-----------------------------------------------------------------------------
(* The block cache.                                                        *)

Holders(i) == {c \in Cpus : hold[c].b = i}

\* A holder has written to block i and not yet marked it dirty.
Changing(i) == \E c \in Cpus : hold[c].b = i /\ hold[c].changed

\* riv_buf_sync has written block pos.i and is about to clear its dirty flag.
Written(i) == lock \in Cpus /\ pos.wrote /\ pos.i = i

BufTypeOK ==
    /\ cache \in [Slots -> [lba : Lbas \cup {0}, data : 0 .. Garbage, refs : Nat, valid : BOOLEAN, dirty : BOOLEAN]]
    /\ disk \in [Lbas -> 0 .. Garbage] /\ last_write \in [Lbas -> 0 .. Garbage]
    /\ lock \in Cpus \cup {"free", "leaked"}
    /\ pos \in [i : 1 .. RIV_BUF_BLOCKS + 1, wrote : BOOLEAN]
    /\ hold \in [Cpus -> [b : Slots \cup {0}, lba : Lbas \cup {0}, changed : BOOLEAN]]
    /\ torn \subseteq Slots /\ late \subseteq Lbas

\* Who holds what, and what the loop of riv_buf_sync stands on.
HoldInv ==
    /\ \A i, j \in Slots : cache[i].valid /\ cache[j].valid /\ cache[i].lba = cache[j].lba => i = j
    /\ \A i \in Slots : cache[i].valid => cache[i].lba \in Lbas
    /\ \A c \in Cpus : hold[c].b # 0 => cache[hold[c].b].valid /\ cache[hold[c].b].lba = hold[c].lba
    /\ \A c \in Cpus : hold[c].b = 0 => hold[c] = Nothing
    /\ \A i \in Slots : cache[i].refs = Cardinality(Holders(i))
    /\ Written(pos.i) => pos.i \in Slots /\ cache[pos.i].valid /\ cache[pos.i].dirty

\* What is lost when block i goes without being written: nothing that was marked.
CleanInv ==
    \A i \in Slots : cache[i].valid /\ (~cache[i].dirty \/ Written(i)) =>
        disk[cache[i].lba] = last_write[cache[i].lba] \/ Changing(i) \/ cache[i].lba \in late

DataInv ==
    \A i \in Slots : cache[i].valid =>
        \/ cache[i].data = last_write[cache[i].lba]
        \/ Changing(i)
        \/ i \in torn /\ ~cache[i].dirty
        \/ cache[i].lba \in late

UncachedInv == \A l \in Lbas \ late : (\A i \in Slots : ~(cache[i].valid /\ cache[i].lba = l)) => disk[l] = last_write[l]

SurviveInv == CleanInv /\ DataInv /\ UncachedInv

BufInv == BufTypeOK /\ HoldInv /\ SurviveInv

\* Blocks are numbered from 1.
LEMMA SlotFacts == Slots \subseteq Nat /\ 0 \notin Slots /\ Garbage \in 0 .. Garbage /\ 0 \in 0 .. Garbage
                   /\ 1 .. DATA_MAX \subseteq 0 .. Garbage
BY BufAssumption DEF Slots, Garbage

\* The holders of a block can be counted.
LEMMA HoldersFinite == \A i : IsFiniteSet(Holders(i)) /\ Cardinality(Holders(i)) \in Nat
<1> TAKE i
<1>1. Holders(i) \subseteq Cpus BY Zenon DEF Holders
<1> QED BY <1>1, BufAssumption, FS_Subset, FS_CardinalityType, Zenon

\* riv_buf_init.
LEMMA BufInitInv == ASSUME BufInit PROVE BufInv
<1>1. BufTypeOK
  <2>1. cache \in [Slots -> [lba : Lbas \cup {0}, data : 0 .. Garbage, refs : Nat, valid : BOOLEAN, dirty : BOOLEAN]]
    BY SlotFacts, Zenon DEF BufInit
  <2>2. pos \in [i : 1 .. RIV_BUF_BLOCKS + 1, wrote : BOOLEAN] BY BufAssumption DEF BufInit
  <2>3. hold \in [Cpus -> [b : Slots \cup {0}, lba : Lbas \cup {0}, changed : BOOLEAN]] BY Zenon DEF BufInit, Nothing
  <2> QED BY <2>1, <2>2, <2>3, SlotFacts, Zenon DEF BufInit, BufTypeOK
<1>2. HoldInv
  <2>1. \A i \in Slots : Holders(i) = {} BY SlotFacts, Zenon DEF BufInit, Holders, Nothing
  <2>2. \A i \in Slots : Cardinality(Holders(i)) = 0 BY <2>1, FS_EmptySet, Zenon
  <2> QED BY <2>2, BufAssumption, SlotFacts, Zenon DEF BufInit, HoldInv, Nothing, Written
<1>3. SurviveInv BY Zenon DEF BufInit, SurviveInv, CleanInv, DataInv, UncachedInv
<1> QED BY <1>1, <1>2, <1>3, Zenon DEF BufInv

\* A block nobody holds is being changed by nobody.
LEMMA UnheldIsQuiet ==
    ASSUME BufInv, NEW i \in Slots, cache[i].refs = 0
    PROVE  \A c \in Cpus : hold[c].b # i
<1>1. Cardinality(Holders(i)) = 0 BY Zenon DEF BufInv, HoldInv
<1>2. Holders(i) = {} BY <1>1, HoldersFinite, FS_EmptySet, Zenon
<1> QED BY <1>2, Zenon DEF Holders

\* The step of a CPU that gets block i: the holders of the blocks.
LEMMA GotHolders == ASSUME BufInv, NEW c \in Cpus, hold[c] = Nothing, NEW i \in Slots, NEW lba \in Lbas, Got(c, i, lba)
                    PROVE  /\ Cardinality(Holders(i)') = Cardinality(Holders(i)) + 1
                           /\ \A j \in Slots : j # i => Holders(j)' = Holders(j)
                           /\ \A j \in Slots : Changing(j)' <=> Changing(j)
<1> USE SlotFacts DEF Got, Nothing
<1>1. Holders(i)' = Holders(i) \cup {c} /\ c \notin Holders(i) BY DEF BufInv, BufTypeOK, Holders
<1>2. Cardinality(Holders(i)') = Cardinality(Holders(i)) + 1 BY <1>1, HoldersFinite, FS_AddElement, Zenon
<1>3. \A j \in Slots : j # i => Holders(j)' = Holders(j) BY DEF BufInv, BufTypeOK, Holders
<1>4. \A j \in Slots : Changing(j)' <=> Changing(j) BY DEF BufInv, BufTypeOK, Changing
<1> QED BY <1>2, <1>3, <1>4, Zenon

\* riv_buf_get of a cached block.
LEMMA GetHitInv ==
    ASSUME BufInv, NEW c \in Cpus, NEW lba \in Lbas, GetHit(c, lba)
    PROVE  BufInv'
<1> DEFINE hits == {i \in Slots : cache[i].valid /\ cache[i].lba = lba}
<1>1. PICK i \in Slots : /\ i = Min(hits) /\ cache[i].valid /\ cache[i].lba = lba
  BY SlotFacts, MinOfNat, SMTT(30) DEF GetHit
<1>2. /\ lock = "free" /\ hold[c] = Nothing /\ lock' = "leaked"
      /\ cache' = [cache EXCEPT ![i].refs = @ + 1] /\ Got(c, i, lba)
      /\ UNCHANGED <<disk, pos, last_write, torn, late>>
  BY <1>1, Zenon DEF GetHit
<1> HIDE DEF hits
<1>3. BufTypeOK' BY <1>1, <1>2 DEF BufInv, BufTypeOK, Got
<1>4. /\ Cardinality(Holders(i)') = Cardinality(Holders(i)) + 1
      /\ \A j \in Slots : j # i => Holders(j)' = Holders(j)
      /\ \A j \in Slots : Changing(j)' <=> Changing(j)
  BY <1>1, <1>2, GotHolders, Zenon
<1>5. \A j \in Slots : /\ cache'[j].valid = cache[j].valid /\ cache'[j].lba = cache[j].lba
                       /\ cache'[j].dirty = cache[j].dirty /\ cache'[j].data = cache[j].data
                       /\ cache'[j].refs = IF j = i THEN cache[j].refs + 1 ELSE cache[j].refs
  BY <1>1, <1>2 DEF BufInv, BufTypeOK
<1>6. \A j : ~Written(j) /\ ~Written(j)' BY <1>2, BufAssumption, Zenon DEF Written
<1>7. HoldInv'
  <2>1. \A j \in Slots : cache'[j].refs = Cardinality(Holders(j)') BY <1>4, <1>5, HoldersFinite DEF BufInv, HoldInv
  <2>2. \A d \in Cpus : hold'[d].b # 0 => cache'[hold'[d].b].valid /\ cache'[hold'[d].b].lba = hold'[d].lba
    BY <1>1, <1>2, <1>5 DEF BufInv, BufTypeOK, HoldInv, Got
  <2>3. \A d \in Cpus : hold'[d].b = 0 => hold'[d] = Nothing BY <1>1, <1>2, SlotFacts DEF BufInv, BufTypeOK, HoldInv, Got
  <2> QED BY <2>1, <2>2, <2>3, <1>5, <1>6, SMTT(30) DEF BufInv, HoldInv
<1>8. SurviveInv' BY <1>2, <1>4, <1>5, <1>6 DEF BufInv, SurviveInv, CleanInv, DataInv, UncachedInv
<1> QED BY <1>3, <1>7, <1>8, Zenon DEF BufInv

\* riv_buf_get that evicts and reads.
LEMMA GetMissInv ==
    ASSUME BufInv, NEW c \in Cpus, NEW lba \in Lbas, GetMiss(c, lba)
    PROVE  BufInv'
<1> DEFINE victims == {i \in Slots : Evictable(i)}
<1>1. PICK i \in Slots : i = Min(victims) /\ cache[i].refs = 0 /\ ~cache[i].dirty
  BY SlotFacts, MinOfNat, Zenon DEF GetMiss, Evictable
<1> DEFINE Read == /\ cache' = [cache EXCEPT ![i] = [lba |-> lba, data |-> disk[lba], refs |-> 1, valid |-> TRUE, dirty |-> FALSE]]
                   /\ Got(c, i, lba) /\ torn' = torn \ {i}
           Failed == /\ cache' = [cache EXCEPT ![i].data = Garbage]
                     /\ torn' = torn \cup {i} /\ UNCHANGED hold
<1>2. /\ lock = "free" /\ hold[c] = Nothing /\ ~\E j \in Slots : cache[j].valid /\ cache[j].lba = lba
      /\ Read \/ Failed
      /\ UNCHANGED <<disk, lock, pos, last_write, late>>
  BY <1>1, Zenon DEF GetMiss
<1> HIDE DEF victims, Read, Failed
<1>3. \A d \in Cpus : hold[d].b # i BY <1>1, UnheldIsQuiet, Zenon
<1>4. \A j : ~Written(j) /\ ~Written(j)' BY <1>2, BufAssumption, Zenon DEF Written
<1>5. CASE Read
  <2> USE <1>5 DEF Read
  <2>1. BufTypeOK' BY <1>2, Zenon DEF BufInv, BufTypeOK, Got
  <2>2. /\ Cardinality(Holders(i)') = Cardinality(Holders(i)) + 1
        /\ \A j \in Slots : j # i => Holders(j)' = Holders(j)
        /\ \A j \in Slots : Changing(j)' <=> Changing(j)
    BY <1>2, GotHolders, Zenon
  <2>3. \A j \in Slots : j # i => cache'[j] = cache[j] BY Zenon DEF BufInv, BufTypeOK
  <2>4. cache'[i] = [lba |-> lba, data |-> disk[lba], refs |-> 1, valid |-> TRUE, dirty |-> FALSE] BY Zenon DEF BufInv, BufTypeOK
  <2>5. HoldInv'
    <3>1. \A j \in Slots : cache'[j].refs = Cardinality(Holders(j)') BY <1>1, <2>2, <2>3, <2>4 DEF BufInv, HoldInv
    <3>2. \A d \in Cpus : hold'[d].b # 0 => cache'[hold'[d].b].valid /\ cache'[hold'[d].b].lba = hold'[d].lba
      BY <1>3, <2>3, <2>4 DEF BufInv, BufTypeOK, HoldInv, Got
    <3>3. \A d \in Cpus : hold'[d].b = 0 => hold'[d] = Nothing BY SlotFacts, SMTT(30) DEF BufInv, BufTypeOK, HoldInv, Got
    <3>4. \A j, k \in Slots : cache'[j].valid /\ cache'[k].valid /\ cache'[j].lba = cache'[k].lba => j = k
      BY <1>2, <2>3, <2>4, SMTT(30) DEF BufInv, HoldInv
    <3>5. \A j \in Slots : cache'[j].valid => cache'[j].lba \in Lbas BY <2>3, <2>4 DEF BufInv, HoldInv
    <3> QED BY <3>1, <3>2, <3>3, <3>4, <3>5, <1>4, Zenon DEF HoldInv
  <2>6. SurviveInv'
    <3>2. CleanInv /\ DataInv /\ UncachedInv BY Zenon DEF BufInv, SurviveInv
    <3>3. disk[lba] = last_write[lba] \/ lba \in late BY <1>2, <3>2, Zenon DEF UncachedInv
    <3>4. ~Changing(i) BY <1>3, Zenon DEF Changing
    <3>5. CleanInv'
      <4> SUFFICES ASSUME NEW j \in Slots, cache'[j].valid, ~cache'[j].dirty \/ Written(j)'
                   PROVE  disk'[cache'[j].lba] = last_write'[cache'[j].lba] \/ Changing(j)' \/ cache'[j].lba \in late'
        BY Zenon DEF CleanInv
      <4>1. CASE j = i BY <4>1, <1>2, <2>4, <3>3
      <4>2. CASE j # i
        <5>1. cache'[j] = cache[j] /\ (Changing(j)' <=> Changing(j)) /\ ~Written(j)'
          BY <4>2, <1>2, <1>4, <2>2, <2>3, Zenon
        <5>2. cache[j].valid /\ ~cache[j].dirty BY <5>1, Zenon
        <5>3. disk[cache[j].lba] = last_write[cache[j].lba] \/ Changing(j) \/ cache[j].lba \in late BY <3>2, <5>2, Zenon DEF CleanInv
        <5>4. disk' = disk /\ last_write' = last_write /\ late' = late BY <1>2, Zenon
        <5> QED BY <5>1, <5>3, <5>4, SMT
      <4> QED BY <4>1, <4>2, Zenon
    <3>6. DataInv'
      <4> SUFFICES ASSUME NEW j \in Slots, cache'[j].valid
                   PROVE  \/ cache'[j].data = last_write'[cache'[j].lba]
                          \/ Changing(j)'
                          \/ j \in torn' /\ ~cache'[j].dirty
                          \/ cache'[j].lba \in late'
        BY Zenon DEF DataInv
      <4>1. CASE j = i BY <4>1, <1>2, <2>4, <3>3, SMTT(30)
      <4>2. CASE j # i BY <4>2, <1>2, <2>2, <2>3, <3>2 DEF DataInv
      <4> QED BY <4>1, <4>2, Zenon
    <3>7. UncachedInv'
      <4>1. SUFFICES ASSUME NEW l \in Lbas \ late, \A j \in Slots : ~(cache'[j].valid /\ cache'[j].lba = l) PROVE disk[l] = last_write[l]
        BY <1>2, Zenon DEF UncachedInv
      <4>2. CASE cache[i].valid /\ cache[i].lba = l BY <4>2, <1>1, <3>2, <3>4, Zenon DEF CleanInv
      <4>3. CASE ~(cache[i].valid /\ cache[i].lba = l) BY <4>1, <4>3, <2>3, <3>2 DEF UncachedInv
      <4> QED BY <4>2, <4>3, Zenon
    <3> QED BY <3>5, <3>6, <3>7, Zenon DEF SurviveInv
  <2> QED BY <2>1, <2>5, <2>6, Zenon DEF BufInv
<1>6. CASE Failed
  <2> USE <1>6 DEF Failed
  <2>1. BufTypeOK' BY <1>2, SlotFacts DEF BufInv, BufTypeOK
  <2>2. \A j : Holders(j)' = Holders(j) /\ (Changing(j)' <=> Changing(j)) BY Zenon DEF Holders, Changing
  <2>3. \A j \in Slots : /\ cache'[j].valid = cache[j].valid /\ cache'[j].lba = cache[j].lba
                         /\ cache'[j].dirty = cache[j].dirty /\ cache'[j].refs = cache[j].refs
                         /\ (j # i => cache'[j].data = cache[j].data)
    BY DEF BufInv, BufTypeOK
  <2>4. HoldInv'
    <3>1. \A d \in Cpus : hold'[d].b # 0 => cache'[hold'[d].b].valid /\ cache'[hold'[d].b].lba = hold'[d].lba
      BY <2>3 DEF BufInv, BufTypeOK, HoldInv
    <3> QED BY <3>1, <1>4, <2>2, <2>3 DEF BufInv, HoldInv
  <2>5. SurviveInv' BY <1>1, <1>2, <1>4, <2>2, <2>3 DEF BufInv, SurviveInv, CleanInv, DataInv, UncachedInv
  <2> QED BY <2>1, <2>4, <2>5, Zenon DEF BufInv
<1> QED BY <1>2, <1>5, <1>6, Zenon

\* riv_buf_release.
LEMMA ReleaseInv ==
    ASSUME BufInv, NEW c \in Cpus, riv_buf_release(c)
    PROVE  BufInv'
<1>1. PICK i \in Slots : i = hold[c].b BY Zenon DEF BufInv, BufTypeOK, riv_buf_release
<1>2. /\ lock = "free" /\ ~hold[c].changed
      /\ cache' = [cache EXCEPT ![i].refs = IF @ > 0 THEN @ - 1 ELSE @]
      /\ hold' = [hold EXCEPT ![c] = Nothing]
      /\ UNCHANGED <<disk, lock, pos, last_write, torn, late>>
  BY <1>1, Zenon DEF riv_buf_release
<1>3. Holders(i)' = Holders(i) \ {c} /\ c \in Holders(i) BY <1>1, <1>2, SlotFacts, Zenon DEF BufInv, BufTypeOK, Holders, Nothing
<1>4. Cardinality(Holders(i)') = Cardinality(Holders(i)) - 1 BY <1>3, HoldersFinite, FS_RemoveElement, SMTT(30)
<1>5. Cardinality(Holders(i)) # 0 BY <1>3, HoldersFinite, FS_EmptySet, Zenon
<1>6. \A j \in Slots : j # i => Holders(j)' = Holders(j) BY <1>1, <1>2, SlotFacts, Zenon DEF BufInv, BufTypeOK, Holders, Nothing
<1>7. \A j \in Slots : Changing(j)' <=> Changing(j) BY <1>1, <1>2, SlotFacts, Zenon DEF BufInv, BufTypeOK, Changing, Nothing
<1>8. \A j \in Slots : /\ cache'[j].valid = cache[j].valid /\ cache'[j].lba = cache[j].lba
                       /\ cache'[j].dirty = cache[j].dirty /\ cache'[j].data = cache[j].data
                       /\ cache'[j].refs = IF j = i /\ cache[j].refs > 0 THEN cache[j].refs - 1 ELSE cache[j].refs
  BY <1>2 DEF BufInv, BufTypeOK
<1>9. \A j : ~Written(j) /\ ~Written(j)' BY <1>2, BufAssumption, Zenon DEF Written
<1>10. BufTypeOK' BY <1>2, SlotFacts, SMTT(30) DEF BufInv, BufTypeOK, Nothing
<1>11. HoldInv'
  <2>1. \A j \in Slots : cache'[j].refs = Cardinality(Holders(j)')
    BY <1>4, <1>5, <1>6, <1>8, HoldersFinite DEF BufInv, BufTypeOK, HoldInv
  <2>2. \A d \in Cpus : hold'[d].b # 0 => cache'[hold'[d].b].valid /\ cache'[hold'[d].b].lba = hold'[d].lba
    BY <1>2, <1>8 DEF BufInv, BufTypeOK, HoldInv, Nothing
  <2>3. \A d \in Cpus : hold'[d].b = 0 => hold'[d] = Nothing BY <1>2 DEF BufInv, BufTypeOK, HoldInv
  <2> QED BY <2>1, <2>2, <2>3, <1>8, <1>9, SMTT(30) DEF BufInv, HoldInv
<1>12. SurviveInv' BY <1>2, <1>7, <1>8, <1>9 DEF BufInv, SurviveInv, CleanInv, DataInv, UncachedInv
<1> QED BY <1>10, <1>11, <1>12, Zenon DEF BufInv

\* A holder writes to its block.
LEMMA ChangeInv ==
    ASSUME BufInv, NEW c \in Cpus, NEW d \in 1 .. DATA_MAX, Change(c, d)
    PROVE  BufInv'
<1>1. PICK i \in Slots : i = hold[c].b BY Zenon DEF BufInv, BufTypeOK, Change
<1>2. /\ cache' = [cache EXCEPT ![i].data = d] /\ hold' = [hold EXCEPT ![c].changed = TRUE]
      /\ UNCHANGED <<disk, lock, pos, last_write, torn, late>>
  BY <1>1, Zenon DEF Change
<1>3. /\ \A j : Holders(j)' = Holders(j) /\ (Written(j)' <=> Written(j))
      /\ \A j \in Slots : Changing(j)' <=> (Changing(j) \/ j = i)
  BY <1>1, <1>2 DEF BufInv, BufTypeOK, Holders, Written, Changing
<1>4. \A j \in Slots : /\ cache'[j].valid = cache[j].valid /\ cache'[j].lba = cache[j].lba
                       /\ cache'[j].dirty = cache[j].dirty /\ cache'[j].refs = cache[j].refs
                       /\ (j # i => cache'[j].data = cache[j].data)
  BY <1>2 DEF BufInv, BufTypeOK
<1>5. BufTypeOK' BY <1>2, SlotFacts, ZenonT(40) DEF BufInv, BufTypeOK
<1>6. HoldInv'
  <2>1. \A e \in Cpus : hold'[e].b # 0 => cache'[hold'[e].b].valid /\ cache'[hold'[e].b].lba = hold'[e].lba
    BY <1>2, <1>4 DEF BufInv, BufTypeOK, HoldInv
  <2>2. \A e \in Cpus : hold'[e].b = 0 => hold'[e] = Nothing BY <1>1, <1>2, SlotFacts DEF BufInv, BufTypeOK, HoldInv
  <2>3. Written(pos.i)' => pos'.i \in Slots /\ cache'[pos'.i].valid /\ cache'[pos'.i].dirty
    BY <1>2, <1>4 DEF BufInv, HoldInv, Written
  <2> QED BY <2>1, <2>2, <2>3, <1>3, <1>4 DEF BufInv, HoldInv
<1>7. SurviveInv' BY <1>2, <1>3, <1>4 DEF BufInv, SurviveInv, CleanInv, DataInv, UncachedInv
<1> QED BY <1>5, <1>6, <1>7, Zenon DEF BufInv

\* riv_buf_dirty.
LEMMA DirtyInv == ASSUME BufInv, NEW c \in Cpus, riv_buf_dirty(c) PROVE BufInv'
<1>1. PICK i \in Slots : i = hold[c].b BY Zenon DEF BufInv, BufTypeOK, riv_buf_dirty
<1>2. /\ cache' = [cache EXCEPT ![i].dirty = TRUE] /\ hold' = [hold EXCEPT ![c].changed = FALSE]
      /\ last_write' = [last_write EXCEPT ![hold[c].lba] = cache[i].data]
      /\ late' = IF Written(i) THEN late \cup {hold[c].lba} ELSE late \ {hold[c].lba}
      /\ UNCHANGED <<disk, lock, pos, torn>>
  BY <1>1, Zenon DEF riv_buf_dirty, Written
<1>3. cache[i].valid /\ cache[i].lba = hold[c].lba /\ cache[i].lba \in Lbas BY <1>1, SlotFacts, Zenon DEF BufInv, HoldInv
<1>4. /\ \A j : Holders(j)' = Holders(j) /\ (Written(j)' <=> Written(j))
      /\ \A j \in Slots : j # i => (Changing(j)' <=> Changing(j))
  BY <1>1, <1>2, Zenon DEF BufInv, BufTypeOK, Holders, Written, Changing
<1>5. \A j \in Slots : /\ cache'[j].valid = cache[j].valid /\ cache'[j].lba = cache[j].lba
                       /\ cache'[j].data = cache[j].data /\ cache'[j].refs = cache[j].refs
                       /\ (j # i => cache'[j].dirty = cache[j].dirty)
                       /\ (j = i => cache'[j].dirty)
  BY <1>2, Zenon DEF BufInv, BufTypeOK
<1>6. BufTypeOK'
  <2>1. late' \subseteq Lbas BY <1>2, <1>3, Zenon DEF BufInv, BufTypeOK
  <2> QED BY <2>1, <1>2, <1>3, ZenonT(40) DEF BufInv, BufTypeOK
<1>7. HoldInv'
  <2>1. \A e \in Cpus : hold'[e].b # 0 => cache'[hold'[e].b].valid /\ cache'[hold'[e].b].lba = hold'[e].lba
    BY <1>2, <1>5 DEF BufInv, BufTypeOK, HoldInv
  <2>2. \A e \in Cpus : hold'[e].b = 0 => hold'[e] = Nothing BY <1>1, <1>2, SlotFacts DEF BufInv, BufTypeOK, HoldInv
  <2>3. Written(pos.i)' => pos'.i \in Slots /\ cache'[pos'.i].valid /\ cache'[pos'.i].dirty
    BY <1>2, <1>5 DEF BufInv, HoldInv, Written
  <2> QED BY <2>1, <2>2, <2>3, <1>4, <1>5 DEF BufInv, HoldInv
<1>8. SurviveInv'
  <2>1. /\ \A l : l # cache[i].lba => (l \in late' <=> l \in late)
        /\ Written(i) => cache[i].lba \in late'
    BY <1>2, <1>3, Zenon
  <2>2. CleanInv /\ DataInv /\ UncachedInv BY Zenon DEF BufInv, SurviveInv
  <2>3. \A l \in Lbas : last_write'[l] = IF l = cache[i].lba THEN cache[i].data ELSE last_write[l]
    BY <1>2, <1>3, Zenon DEF BufInv, BufTypeOK
  <2>4. \A j \in Slots : cache[j].valid /\ j # i => cache[j].lba \in Lbas /\ cache[j].lba # cache[i].lba
    BY <1>3, Zenon DEF BufInv, HoldInv
  <2>5. CleanInv'
    <3>1. ASSUME NEW j \in Slots, j # i, cache'[j].valid, ~cache'[j].dirty \/ Written(j)'
          PROVE  disk'[cache'[j].lba] = last_write'[cache'[j].lba] \/ Changing(j)' \/ cache'[j].lba \in late'
      BY <3>1, <1>2, <1>4, <1>5, <2>1, <2>2, <2>3, <2>4 DEF CleanInv
    <3> QED BY <3>1, <1>4, <1>5, <2>1, Zenon DEF CleanInv
  <2>6. DataInv' BY <1>2, <1>3, <1>4, <1>5, <2>1, <2>2, <2>3, <2>4 DEF DataInv
  <2>7. UncachedInv' BY <1>2, <1>3, <1>5, <2>1, <2>2, <2>3 DEF UncachedInv
  <2> QED BY <2>5, <2>6, <2>7, Zenon DEF SurviveInv
<1> QED BY <1>6, <1>7, <1>8, Zenon DEF BufInv

\* Steps of riv_buf_sync that change neither the blocks nor the disk.
LEMMA SyncMoves == ASSUME BufInv, UNCHANGED <<cache, disk, hold, last_write, torn, late>>,
                          lock' \in Cpus \cup {"free"}, pos' \in [i : 1 .. RIV_BUF_BLOCKS + 1, wrote : BOOLEAN],
                          lock' = "free" \/ ~pos'.wrote
                   PROVE  BufInv'
<1>1. BufTypeOK' BY Zenon DEF BufInv, BufTypeOK
<1>2. \A j : Holders(j)' = Holders(j) /\ (Changing(j)' <=> Changing(j)) BY Zenon DEF Holders, Changing
<1>3. \A j : ~Written(j)' BY BufAssumption, Zenon DEF Written
<1>4. HoldInv' BY <1>2, <1>3, Zenon DEF BufInv, HoldInv
<1>5. SurviveInv' BY <1>2, <1>3, Zenon DEF BufInv, SurviveInv, CleanInv, DataInv, UncachedInv
<1> QED BY <1>1, <1>4, <1>5, Zenon DEF BufInv

\* riv_buf_sync begins,
LEMMA SyncBeginInv == ASSUME BufInv, NEW c \in Cpus, SyncBegin(c) PROVE BufInv'
BY SyncMoves, BufAssumption DEF SyncBegin

\* passes a clean block,
LEMMA SyncSkipInv == ASSUME BufInv, SyncSkip PROVE BufInv'
<1>1. lock' \in Cpus \cup {"free"} /\ UNCHANGED <<cache, disk, hold, last_write, torn, late>> BY Zenon DEF SyncSkip
<1>2. pos' \in [i : 1 .. RIV_BUF_BLOCKS + 1, wrote : BOOLEAN] /\ ~pos'.wrote
  BY BufAssumption DEF BufInv, BufTypeOK, SyncSkip
<1> QED BY <1>1, <1>2, SyncMoves, Zenon

\* ends,
LEMMA SyncEndInv == ASSUME BufInv, SyncEnd PROVE BufInv'
<1>1. pos' \in [i : 1 .. RIV_BUF_BLOCKS + 1, wrote : BOOLEAN] BY Zenon DEF BufInv, BufTypeOK, SyncEnd
<1> QED BY <1>1, SyncMoves, Zenon DEF SyncEnd

\* writes a dirty one,
LEMMA SyncWriteInv == ASSUME BufInv, SyncWrite PROVE BufInv'
<1>1. PICK i \in Slots : i = pos.i BY BufAssumption DEF BufInv, BufTypeOK, SyncWrite, Slots
<1>2. CASE lock' = "free" /\ UNCHANGED <<disk, pos>>
  <2>1. pos' \in [i : 1 .. RIV_BUF_BLOCKS + 1, wrote : BOOLEAN] BY <1>2, Zenon DEF BufInv, BufTypeOK
  <2> QED BY <1>2, <2>1, SyncMoves, Zenon DEF SyncWrite
<1>3. CASE /\ disk' = [disk EXCEPT ![cache[i].lba] = cache[i].data]
           /\ pos' = [pos EXCEPT !.wrote = TRUE] /\ UNCHANGED lock
  <2>1. /\ cache[i].valid /\ cache[i].dirty /\ cache[i].lba \in Lbas /\ ~pos.wrote
        /\ UNCHANGED <<cache, hold, last_write, torn, late>>
    BY <1>1, Zenon DEF BufInv, HoldInv, SyncWrite
  <2>2. BufTypeOK' BY <1>3, <2>1, Zenon DEF BufInv, BufTypeOK
  <2>3. \A j : Holders(j)' = Holders(j) /\ (Changing(j)' <=> Changing(j)) BY <2>1, Zenon DEF Holders, Changing
  <2>4. \A j : Written(j)' => j = i BY <1>1, <1>3, Zenon DEF BufInv, BufTypeOK, Written
  <2>5. HoldInv' BY <1>1, <1>3, <2>1, <2>3, <2>4, Zenon DEF BufInv, HoldInv
  <2>6. SurviveInv'
    <3>2. CleanInv /\ DataInv /\ UncachedInv BY Zenon DEF BufInv, SurviveInv
    <3>3. \A l \in Lbas : disk'[l] = IF l = cache[i].lba THEN cache[i].data ELSE disk[l] BY <1>3, <2>1, Zenon DEF BufInv, BufTypeOK
    <3>4. \A j \in Slots : cache[j].valid /\ j # i => cache[j].lba \in Lbas /\ cache[j].lba # cache[i].lba
      BY <2>1, Zenon DEF BufInv, HoldInv
    <3>5. CleanInv'
      <4>1. cache[i].data = last_write[cache[i].lba] \/ Changing(i) \/ cache[i].lba \in late BY <2>1, <3>2, Zenon DEF DataInv
      <4>2. ASSUME NEW j \in Slots, j # i, cache[j].valid, ~cache[j].dirty
            PROVE  disk'[cache[j].lba] = last_write[cache[j].lba] \/ Changing(j) \/ cache[j].lba \in late
        BY <4>2, <3>2, <3>3, <3>4, Zenon DEF CleanInv
      <4> QED BY <4>1, <4>2, <2>1, <2>3, <2>4, <3>3, Zenon DEF CleanInv
    <3>6. DataInv' BY <2>1, <2>3, <3>2, Zenon DEF DataInv
    <3>7. UncachedInv' BY <2>1, <3>2, <3>3, Zenon DEF UncachedInv
    <3> QED BY <3>5, <3>6, <3>7, Zenon DEF SurviveInv
  <2> QED BY <2>2, <2>5, <2>6, Zenon DEF BufInv
<1> QED BY <1>1, <1>2, <1>3, Zenon DEF SyncWrite

\* and clears its flag.
LEMMA SyncClearInv == ASSUME BufInv, SyncClear PROVE BufInv'
<1>1. PICK i \in Slots : i = pos.i BY Zenon DEF BufInv, HoldInv, Written, SyncClear
<1>2. /\ Written(i) /\ cache' = [cache EXCEPT ![i].dirty = FALSE] /\ pos' = [i |-> i + 1, wrote |-> FALSE]
      /\ UNCHANGED <<disk, lock, hold, last_write, torn, late>>
  BY <1>1, Zenon DEF SyncClear, Written
<1>3. BufTypeOK'
  <2>1. pos' \in [i : 1 .. RIV_BUF_BLOCKS + 1, wrote : BOOLEAN] BY <1>2, BufAssumption DEF Slots
  <2> QED BY <2>1, <1>2, ZenonT(40) DEF BufInv, BufTypeOK
<1>4. \A j : Holders(j)' = Holders(j) /\ (Changing(j)' <=> Changing(j)) /\ ~Written(j)' BY <1>2, Zenon DEF Holders, Changing, Written
<1>5. \A j \in Slots : /\ cache'[j].valid = cache[j].valid /\ cache'[j].lba = cache[j].lba
                       /\ cache'[j].data = cache[j].data /\ cache'[j].refs = cache[j].refs
                       /\ (j # i => cache'[j].dirty = cache[j].dirty)
  BY <1>2, Zenon DEF BufInv, BufTypeOK
<1>6. cache[i].valid /\ cache[i].dirty BY <1>1, <1>2, Zenon DEF BufInv, HoldInv
<1>7. HoldInv'
  <2>1. \A e \in Cpus : hold'[e].b # 0 => cache'[hold'[e].b].valid /\ cache'[hold'[e].b].lba = hold'[e].lba
    BY <1>2, <1>5 DEF BufInv, BufTypeOK, HoldInv
  <2> QED BY <2>1, <1>2, <1>4, <1>5 DEF BufInv, HoldInv
<1>8. SurviveInv'
  <2>2. CleanInv /\ DataInv /\ UncachedInv BY Zenon DEF BufInv, SurviveInv
  <2>3. CleanInv' BY <1>2, <1>4, <1>5, <2>2 DEF CleanInv
  <2>4. DataInv' BY <1>2, <1>4, <1>5, <1>6, <2>2 DEF DataInv
  <2>5. UncachedInv' BY <1>2, <1>5, <2>2 DEF UncachedInv
  <2> QED BY <2>3, <2>4, <2>5, Zenon DEF SurviveInv
<1> QED BY <1>3, <1>7, <1>8, Zenon DEF BufInv

\* The cache of buf.h, for any number of blocks and processors: whatever they get,
\* change, mark, release and sync, in any order and with reads and writes that
\* fail, it loses no change and takes no block from its holder; but for the copy
\* that a failed read scribbled on, and for a block marked in the middle of a sync.
THEOREM BlocksAreKept == BufSpec => []BlocksKept
<1>1. BufInv /\ [BufNext]_buf_vars => BufInv'
  <2>1. ASSUME BufInv, BufNext PROVE BufInv'
    BY <2>1, GetHitInv, GetMissInv, ReleaseInv, ChangeInv, DirtyInv, SyncBeginInv, SyncSkipInv, SyncWriteInv, SyncClearInv, SyncEndInv, SMTT(30)
       DEF BufNext, riv_buf_get
  <2>2. ASSUME BufInv, UNCHANGED buf_vars PROVE BufInv'
    BY <2>2 DEF buf_vars, BufInv, BufTypeOK, HoldInv, Holders, Written, SurviveInv, CleanInv, DataInv, UncachedInv, Changing
  <2> QED BY <2>1, <2>2, Zenon
<1>2. BufInv => BlocksKept
  <2> SUFFICES ASSUME BufInv PROVE BlocksKept BY Zenon
  <2>1. WritesSurvive
    <3>1. SUFFICES ASSUME NEW lba \in Lbas \ late
                   PROVE  IF Cached(lba) = {} THEN disk[lba] = last_write[lba]
                          ELSE \A i \in Cached(lba) : \/ cache[i].data = last_write[lba] \/ i \in torn
                                                      \/ \E c \in Cpus : hold[c].b = i /\ hold[c].changed
      BY Zenon DEF WritesSurvive
    <3> QED BY <3>1, Zenon DEF BufInv, SurviveInv, DataInv, UncachedInv, Cached, Changing
  <2>2. \A lba \in Lbas : Cardinality(Cached(lba)) <= 1
    <3> TAKE lba \in Lbas
    <3>1. CASE Cached(lba) = {} BY <3>1, FS_EmptySet
    <3>2. CASE Cached(lba) # {}
      <4>1. PICK i : i \in Cached(lba) BY <3>2, Zenon
      <4>2. \A j \in Cached(lba) : j = i BY <4>1, Zenon DEF BufInv, HoldInv, Cached
      <4>3. Cached(lba) = {i} BY <4>1, <4>2, Zenon
      <4>4. Cardinality({i}) = 1 BY FS_Singleton, Zenon
      <4> QED BY <4>3, <4>4
    <3> QED BY <3>1, <3>2, Zenon
  <2>3. \A c \in Cpus : hold[c].b # 0 => hold[c].b \in Cached(hold[c].lba) BY DEF BufInv, BufTypeOK, HoldInv, Cached
  <2>4. \A i \in Slots : cache[i].refs = Cardinality({c \in Cpus : hold[c].b = i}) BY Zenon DEF BufInv, HoldInv, Holders
  <2> QED BY <2>1, <2>2, <2>3, <2>4, Zenon DEF BlocksKept, HoldersKeepBlock
<1> QED BY <1>1, <1>2, BufInitInv, PTL DEF BufSpec

-----------------------------------------------------------------------------
(* The ARP cache.                                                          *)

\* Entries fill up from the front, each address has one, and it is what was last
\* learnt.  Without the first conjunct ArpSlotFor could prefer an unused entry to
\* a later one of the same address.
ArpInv ==
    /\ entries \in [ArpSlots -> [ip : Ips \cup {0}, mac : Macs, expiry : Nat]]
    /\ \A i, j \in ArpSlots : i < j /\ entries[i].ip = 0 => entries[j].ip = 0
    /\ \A i, j \in ArpSlots : i # j /\ entries[i].ip = entries[j].ip => entries[i].ip = 0
    /\ \A i \in ArpSlots : entries[i].ip # 0 => entries[i].ip \in DOMAIN learnt /\ entries[i].mac = learnt[entries[i].ip]

\* The slots are numbers from 1.
LEMMA ArpSlotsNat == ArpSlots \subseteq Nat /\ 1 \in ArpSlots
BY ArpAssumption DEF ArpSlots

\* Some entry expires first.
LEMMA OldestExists == ASSUME ArpInv
                      PROVE  Oldest \in ArpSlots /\ \A j \in ArpSlots : entries[Oldest].expiry <= entries[j].expiry
<1> DEFINE E == {entries[i].expiry : i \in ArpSlots}
<1>1. E \subseteq Nat /\ E # {} BY ArpSlotsNat DEF ArpInv
<1>2. PICK e \in E : \A f \in E : e <= f BY <1>1, LeastOfNat, Zenon
<1> DEFINE Eldest == {i \in ArpSlots : entries[i].expiry = e}
<1>3. Eldest \subseteq Nat /\ Eldest # {} BY <1>2, ArpSlotsNat, Zenon
<1>4. PICK k \in Eldest : \A j \in Eldest : k <= j BY <1>3, LeastOfNat, Zenon
<1>5. \A j \in ArpSlots : entries[k].expiry < entries[j].expiry \/ (entries[k].expiry = entries[j].expiry /\ k <= j)
  <2> TAKE j \in ArpSlots
  <2>1. entries[k].expiry = e /\ e <= entries[j].expiry BY <1>2, <1>4, Zenon
  <2>2. entries[j].expiry = e => k <= j BY <1>4, Zenon
  <2>3. entries[j].expiry \in Nat /\ e \in Nat BY <1>1, <1>2, Zenon DEF ArpInv
  <2> QED BY <2>1, <2>2, <2>3
<1>6. \E i \in ArpSlots : \A j \in ArpSlots : entries[i].expiry < entries[j].expiry \/ (entries[i].expiry = entries[j].expiry /\ i <= j)
  BY <1>4, <1>5, Zenon
<1>7. /\ Oldest \in ArpSlots
      /\ \A j \in ArpSlots : entries[Oldest].expiry < entries[j].expiry \/ (entries[Oldest].expiry = entries[j].expiry /\ Oldest <= j)
  BY <1>6, Zenon DEF Oldest
<1>8. \A j \in ArpSlots : entries[j].expiry \in Nat BY Zenon DEF ArpInv
<1> QED BY <1>7, <1>8

\* What riv_arp_insert does to the table: the entry of the address, the first unused
\* one when there is none, or the one that expires first when none is unused.
LEMMA ArpSlotChosen ==
    ASSUME ArpInv, NEW ip \in Ips
    PROVE  LET s == ArpSlotFor(ip) IN
           /\ s \in ArpSlots
           /\ \A j \in ArpSlots : entries[j].ip = ip => s = j
           /\ \/ entries[s].ip = ip
              \/ entries[s].ip = 0 /\ \A j \in ArpSlots : j < s => entries[j].ip # 0
              \/ \A j \in ArpSlots : entries[j].ip # 0 /\ entries[s].expiry <= entries[j].expiry
<1> DEFINE fit == {i \in ArpSlots : entries[i].ip \in {ip, 0}}
           s == ArpSlotFor(ip)
<1>1. CASE fit = {}
  <2>1. s = Oldest BY <1>1, Zenon DEF ArpSlotFor
  <2> QED BY <1>1, <2>1, OldestExists, Zenon
<1>2. CASE fit # {}
  <2>1. s = Min(fit) BY <1>2, Zenon DEF ArpSlotFor
  <2>2. s \in fit /\ \A j \in fit : s <= j BY <1>2, <2>1, ArpSlotsNat, MinOfNat, Zenon
  <2> HIDE DEF s
  <2>3. s \in ArpSlots /\ entries[s].ip \in {ip, 0} BY <2>2, Zenon
  <2>4. \A j \in ArpSlots : entries[j].ip = ip => s = j
    <3> SUFFICES ASSUME NEW j \in ArpSlots, entries[j].ip = ip PROVE s = j BY Zenon
    <3>1. s <= j BY <2>2, Zenon
    <3>2. ip # 0 BY ArpAssumption, Zenon
    <3>3. CASE s < j BY <2>3, <3>2, <3>3, Zenon DEF ArpInv
    <3> QED BY <3>1, <3>3, <2>3, ArpSlotsNat
  <2>5. entries[s].ip = 0 => \A j \in ArpSlots : j < s => entries[j].ip # 0 BY <2>2, <2>3, ArpSlotsNat
  <2> QED BY <2>3, <2>4, <2>5, Zenon DEF s
<1> QED BY <1>1, <1>2, Zenon

\* Every step of the cache.
LEMMA ArpStep == ASSUME ArpInv, ArpNext PROVE ArpInv'
<1>1. PICK ip \in Ips, mac \in Macs, e \in Expiries : riv_arp_insert(ip, mac, e) BY Zenon DEF ArpNext
<1>2. PICK s \in ArpSlots : /\ s = ArpSlotFor(ip)
                            /\ \A j \in ArpSlots : entries[j].ip = ip => s = j
                            /\ \/ entries[s].ip = ip
                               \/ entries[s].ip = 0 /\ \A j \in ArpSlots : j < s => entries[j].ip # 0
                               \/ \A j \in ArpSlots : entries[j].ip # 0
  BY ArpSlotChosen, Zenon
<1>3. /\ entries' = [entries EXCEPT ![s] = [ip |-> ip, mac |-> mac, expiry |-> e]]
      /\ learnt' = [j \in DOMAIN learnt \cup {ip} |-> IF j = ip THEN mac ELSE learnt[j]]
  BY <1>1, <1>2, Zenon DEF riv_arp_insert
<1>4. ip # 0 /\ e \in Nat BY ArpAssumption, Zenon
<1>5. \A j \in ArpSlots : entries'[j] = IF j = s THEN [ip |-> ip, mac |-> mac, expiry |-> e] ELSE entries[j] BY <1>3, Zenon DEF ArpInv
<1>6. entries' \in [ArpSlots -> [ip : Ips \cup {0}, mac : Macs, expiry : Nat]] BY <1>3, <1>4, Zenon DEF ArpInv
<1>7. \A i, j \in ArpSlots : i < j /\ entries'[i].ip = 0 => entries'[j].ip = 0
  BY <1>2, <1>4, <1>5, ArpSlotsNat DEF ArpInv
<1>8. \A i, j \in ArpSlots : i # j /\ entries'[i].ip = entries'[j].ip => entries'[i].ip = 0
  BY <1>2, <1>4, <1>5 DEF ArpInv
<1>9. \A i \in ArpSlots : entries'[i].ip # 0 => entries'[i].ip \in DOMAIN learnt' /\ entries'[i].mac = learnt'[entries'[i].ip]
  <2> SUFFICES ASSUME NEW i \in ArpSlots, entries'[i].ip # 0
               PROVE  entries'[i].ip \in DOMAIN learnt' /\ entries'[i].mac = learnt'[entries'[i].ip]
    BY Zenon
  <2>1. CASE i = s BY <2>1, <1>3, <1>5
  <2>2. CASE i # s
    <3>1. entries'[i] = entries[i] /\ entries[i].ip # ip BY <2>2, <1>2, <1>5, Zenon
    <3>2. entries[i].ip \in DOMAIN learnt /\ entries[i].mac = learnt[entries[i].ip] BY <3>1, Zenon DEF ArpInv
    <3> QED BY <3>1, <3>2, <1>3
  <2> QED BY <2>1, <2>2, Zenon
<1> QED BY <1>6, <1>7, <1>8, <1>9, Zenon DEF ArpInv

\* riv_arp_lookup finds an address exactly when an entry has it.
LEMMA LookupFinds == ASSUME ArpInv, NEW ip \in Ips
                     PROVE  /\ riv_arp_lookup(ip) = {} <=> \A i \in ArpSlots : entries[i].ip # ip
                            /\ riv_arp_lookup(ip) \subseteq (IF ip \in DOMAIN learnt THEN {learnt[ip]} ELSE {})
<1> DEFINE hits == {i \in ArpSlots : entries[i].ip = ip}
<1>1. CASE hits = {} BY <1>1, Zenon DEF riv_arp_lookup
<1>2. CASE hits # {}
  <2>1. riv_arp_lookup(ip) = {entries[Min(hits)].mac} BY <1>2, Zenon DEF riv_arp_lookup
  <2>2. Min(hits) \in hits BY <1>2, ArpSlotsNat, MinOfNat, Zenon
  <2>3. ip # 0 BY ArpAssumption, Zenon
  <2>4. ip \in DOMAIN learnt /\ entries[Min(hits)].mac = learnt[ip] BY <2>2, <2>3, Zenon DEF ArpInv
  <2> QED BY <1>2, <2>1, <2>4, Zenon
<1> QED BY <1>1, <1>2, Zenon

ArpDropStep ==
    \A ip \in Ips : riv_arp_lookup(ip) # {} /\ riv_arp_lookup(ip)' = {} =>
        \E i \in ArpSlots : entries[i].ip = ip /\ \A j \in ArpSlots : entries[j].ip # 0 /\ entries[i].expiry <= entries[j].expiry

\* What a step of the cache may drop.
LEMMA ArpDrops == ASSUME ArpInv, ArpNext PROVE ArpDropStep
<1> SUFFICES ASSUME NEW gone \in Ips, riv_arp_lookup(gone) # {}, riv_arp_lookup(gone)' = {}
             PROVE  \E i \in ArpSlots : entries[i].ip = gone /\ \A j \in ArpSlots : entries[j].ip # 0 /\ entries[i].expiry <= entries[j].expiry
  BY Zenon DEF ArpDropStep
<1>1. PICK ip \in Ips, mac \in Macs, e \in Expiries : riv_arp_insert(ip, mac, e) BY Zenon DEF ArpNext
<1>2. PICK s \in ArpSlots : /\ s = ArpSlotFor(ip)
                            /\ \/ entries[s].ip = ip
                               \/ entries[s].ip = 0
                               \/ \A j \in ArpSlots : entries[j].ip # 0 /\ entries[s].expiry <= entries[j].expiry
  BY ArpSlotChosen, Zenon
<1>3. \A j \in ArpSlots : entries'[j] = IF j = s THEN [ip |-> ip, mac |-> mac, expiry |-> e] ELSE entries[j]
  BY <1>1, <1>2, Zenon DEF ArpInv, riv_arp_insert
<1>4. PICK k \in ArpSlots : entries[k].ip = gone BY LookupFinds, Zenon
<1>5. \A j \in ArpSlots : entries'[j].ip # gone
  <2>1. {i \in ArpSlots : entries'[i].ip = gone} = {} BY Zenon DEF riv_arp_lookup
  <2> QED BY <2>1, Zenon
<1>6. k = s /\ ip # gone BY <1>3, <1>4, <1>5
<1>7. gone # 0 BY ArpAssumption, Zenon
<1> QED BY <1>2, <1>4, <1>6, <1>7, Zenon

\* The cache of arp.h, of any size: whatever is inserted, it keeps the last answer
\* for every address, and gives up the entry that expires first when it needs room.
THEOREM ArpIsRemembered ==
    ASSUME NEW CONSTANT junk, junk \subseteq Nat
    PROVE  ArpSpec(junk) => ArpRemembers
<1>1. riv_arp_cache_init(junk) => ArpInv
  <2>1. (CHOOSE m \in Macs : TRUE) \in Macs BY ArpAssumption, Zenon
  <2> QED BY <2>1, Zenon DEF riv_arp_cache_init, ArpInv
<1>2. ArpInv /\ [ArpNext]_arp_vars => ArpInv'
  <2>1. ArpInv /\ UNCHANGED arp_vars => ArpInv' BY Zenon DEF arp_vars, ArpInv
  <2> QED BY <2>1, ArpStep, Zenon
<1>3. ArpInv => ArpCurrent BY LookupFinds, Zenon DEF ArpInv, ArpCurrent
<1>4. ArpInv /\ [ArpNext]_arp_vars => [ArpDropStep]_arp_vars BY ArpDrops, Zenon
<1> QED BY <1>1, <1>2, <1>3, <1>4, PTL DEF ArpSpec, ArpRemembers, ArpDropsOldest, ArpDropStep

-----------------------------------------------------------------------------
(* Signals.                                                                *)

SigPhases == {"idle", "loop", "store", "act", "handler", "raise", "exited"}
Masks == SUBSET (0 .. 31)
Frames == [deliverable : SUBSET Sigs, phase : SigPhases, loaded : SUBSET Sigs, current : Sigs \cup {0}, masked : Masks]

\* A call with n calls under it: it is a dispatch unless it is the lowest; its
\* snapshot shrinks from below, and what is at hand came out of it and was not
\* masked.
CallInv(d, ph, c, m, n) ==
    /\ n > 0 <=> ph \in {"loop", "store", "act", "handler", "exited"} \/ c # 0
    /\ d \cap m = {} /\ (c = 0 /\ ph # "loop" => m = {} /\ d = {})
    /\ ph \in {"store", "act", "handler"} => c # 0
    /\ ph = "idle" => c = 0
    /\ ph \in {"handler", "raise"} => c # SIGKILL
    /\ c # 0 => c \notin m /\ \A s \in d : s > c

BelowInv(b) ==
    \A i \in 1 .. Len(b) : CallInv(b[i].deliverable, b[i].phase, b[i].current, b[i].masked, i - 1)

DispatchInv ==
    /\ pending \subseteq Sigs /\ mask \in Masks
    /\ deliverable \subseteq Sigs /\ phase \in SigPhases /\ loaded \subseteq Sigs
    /\ current \in Sigs \cup {0} /\ masked \in Masks
    /\ CallInv(deliverable, phase, current, masked, Len(below))
    /\ below \in Seq(Frames) /\ BelowInv(below)

\* As long as no signal was raised inside an update, what an update loaded still
\* holds every signal due; as long as no dispatch began inside another or inside
\* an update, it holds nothing else, and only idle code waits under a dispatch.
PendingInv ==
    /\ SignalsKept /\ SignalsOnce
    /\ ~crossed => /\ Updating(phase) => due \subseteq loaded
                   /\ \A i \in 1 .. Len(below) : Updating(below[i].phase) => due \subseteq below[i].loaded
    /\ ~inside => /\ Updating(phase) => loaded \subseteq due
                  /\ \A i \in 1 .. Len(below) : i = 1 /\ below[i].phase = "idle"

SigInv == DispatchInv /\ PendingInv

\* Signals are positive numbers.
LEMMA SigNumbers == \A s \in Sigs : s \in Nat /\ s # 0
BY SigsAssumption

\* A call is interrupted.
LEMMA Pushed == ASSUME NEW q \in Seq(Frames), NEW e \in Frames
  PROVE  /\ Append(q, e) \in Seq(Frames) /\ Len(Append(q, e)) = Len(q) + 1 /\ Len(q) \in Nat
         /\ \A i \in 1 .. Len(q) : Append(q, e)[i] = q[i]
         /\ Append(q, e)[Len(q) + 1] = e
<1>1. Append(q, e) \in Seq(Frames) /\ Len(Append(q, e)) = Len(q) + 1 /\ Len(q) \in Nat OBVIOUS
<1>2. \A i \in 1 .. Len(q) : Append(q, e)[i] = q[i] OBVIOUS
<1>3. Append(q, e)[Len(q) + 1] = e OBVIOUS
<1> QED BY <1>1, <1>2, <1>3, Zenon

\* A call goes on.
LEMMA Popped == ASSUME NEW q \in Seq(Frames), Len(q) > 0, NEW r, r = SubSeq(q, 1, Len(q) - 1)
  PROVE  /\ r \in Seq(Frames) /\ Len(r) = Len(q) - 1 /\ Len(q) \in Nat /\ q[Len(q)] \in Frames
         /\ \A i \in 1 .. Len(r) : r[i] = q[i] /\ i \in 1 .. Len(q)
         /\ Len(q) \in 1 .. Len(q)
<1>1. r \in Seq(Frames) /\ Len(r) = Len(q) - 1 /\ Len(q) \in Nat
  <2>1. Len(q) \in Nat OBVIOUS
  <2>2. PICK k \in Nat : k = Len(q) - 1 BY <2>1
  <2>3. r = SubSeq(q, 1, k) /\ k <= Len(q) BY <2>1, <2>2
  <2>4. r \in Seq(Frames) BY <2>1, <2>3
  <2>5. Len(r) = k BY <2>1, <2>3
  <2> QED BY <2>1, <2>2, <2>4, <2>5, Zenon
<1>2. \A i \in 1 .. Len(q) - 1 : r[i] = q[i] OBVIOUS
<1>3. Len(q) \in 1 .. Len(q) BY <1>1
<1>4. q[Len(q)] \in Frames BY <1>3
<1> HIDE DEF Frames
<1> QED BY <1>1, <1>2, <1>3, <1>4

\* riv_sig_init.
LEMMA SigInit == ASSUME riv_sig_init PROVE SigInv
<1>1. below = <<>> /\ Len(below) = 0 /\ below \in Seq(Frames) /\ 1 .. Len(below) = {} BY DEF riv_sig_init
<1>2. DispatchInv
  <2>1. {} \in Masks BY Zenon DEF Masks
  <2>2. ~(Len(below) > 0) BY <1>1
  <2>3. CallInv(deliverable, phase, current, masked, Len(below))
    BY <2>2, Zenon DEF riv_sig_init, CallInv
  <2> QED BY <1>1, <2>1, <2>3, Zenon DEF riv_sig_init, DispatchInv, BelowInv, SigPhases
<1>3. PendingInv BY <1>1, Zenon DEF riv_sig_init, PendingInv, SignalsKept, SignalsOnce, Updating
<1> QED BY <1>2, <1>3, Zenon DEF SigInv

\* riv_sig_set, and a process that changes its mask.
LEMMA SetStep == ASSUME SigInv, (\E s, h : riv_sig_set(s, h)) \/ (\E m \in Masks : SetMask(m)) PROVE SigInv'
<1>1. mask' \in Masks /\ UNCHANGED <<pending, deliverable, phase, loaded, current, masked, below, due, crossed, inside>>
  BY Zenon DEF riv_sig_set, SetMask, frame, noted, SigInv, DispatchInv
<1> QED BY <1>1, Zenon DEF SigInv, DispatchInv, PendingInv, SignalsKept, SignalsOnce

\* riv_sig_raise, from an interrupt handler.
LEMMA RaiseStep == ASSUME SigInv, NEW s \in Sigs, riv_sig_raise(s) PROVE SigInv'
<1>1. /\ pending' = pending \cup {s} /\ due' = due \cup {s}
      /\ crossed' = (crossed \/ Updating(phase) \/ UpdateBelow)
      /\ UNCHANGED <<mask, deliverable, phase, loaded, current, masked, below, inside>>
  BY Zenon DEF riv_sig_raise, frame
<1>2. DispatchInv' BY <1>1, Zenon DEF SigInv, DispatchInv
<1>3. DOMAIN below = 1 .. Len(below) BY DEF SigInv, DispatchInv
<1>4. PendingInv' BY <1>1, <1>3, Zenon DEF SigInv, PendingInv, SignalsKept, SignalsOnce, UpdateBelow
<1> QED BY <1>2, <1>4, Zenon DEF SigInv

\* riv_signal_dispatch_pending takes its snapshot; what the process was doing waits.
LEMMA BeginStep == ASSUME SigInv, DispatchBegin PROVE SigInv'
<1> DEFINE e == [deliverable |-> deliverable, phase |-> phase, loaded |-> loaded, current |-> current, masked |-> masked]
           n == Len(below)
<1>1. /\ phase # "exited" /\ below' = Append(below, e) /\ deliverable' = pending \ mask /\ masked' = mask
      /\ phase' = "loop" /\ loaded' = {} /\ current' = 0 /\ inside' = (inside \/ phase # "idle")
      /\ UNCHANGED <<pending, mask, due, crossed>>
  BY Zenon DEF DispatchBegin
<1>2. e \in Frames BY Zenon DEF Frames, SigInv, DispatchInv
<1>3. /\ e.deliverable = deliverable /\ e.phase = phase /\ e.loaded = loaded /\ e.current = current /\ e.masked = masked
  BY Zenon
<1> HIDE DEF e
<1>4. /\ below' \in Seq(Frames) /\ Len(below') = n + 1 /\ n \in Nat
      /\ \A i \in 1 .. n : below'[i] = below[i]
      /\ below'[n + 1] = e
  BY <1>1, <1>2, Pushed, Zenon DEF SigInv, DispatchInv
<1>5. CallInv(deliverable, phase, current, masked, n) BY Zenon DEF SigInv, DispatchInv
<1>6. \A i \in 1 .. n + 1 : i \in 1 .. n \/ (i = n + 1 /\ i - 1 = n) BY <1>4
<1> HIDE DEF n
<1>7. BelowInv(below')
  <2> SUFFICES ASSUME NEW i \in 1 .. n + 1
               PROVE  CallInv(below'[i].deliverable, below'[i].phase, below'[i].current, below'[i].masked, i - 1)
    BY <1>4, Zenon DEF BelowInv
  <2>1. CASE i \in 1 .. n BY <1>4, <2>1, Zenon DEF SigInv, DispatchInv, BelowInv, n
  <2>2. CASE i = n + 1 /\ i - 1 = n BY <1>3, <1>4, <1>5, <2>2, Zenon
  <2> QED BY <1>6, <2>1, <2>2, Zenon
<1>8. DispatchInv'
  <2>1. n + 1 > 0 BY <1>4
  <2>2. CallInv(deliverable', phase', current', masked', Len(below'))
    BY <1>1, <1>4, <2>1, Zenon DEF CallInv
  <2>3. deliverable' \subseteq Sigs /\ phase' \in SigPhases /\ loaded' \subseteq Sigs /\ current' \in Sigs \cup {0}
    BY <1>1, Zenon DEF SigInv, DispatchInv, SigPhases
  <2> QED BY <1>1, <1>4, <1>7, <2>2, <2>3, Zenon DEF SigInv, DispatchInv
<1>9. PendingInv'
  <2>1. SignalsKept' BY <1>1, Zenon DEF SigInv, PendingInv, SignalsKept
  <2>2. SignalsOnce' BY <1>1, Zenon DEF SigInv, PendingInv, SignalsOnce
  <2>3. ~Updating(phase') BY <1>1, Zenon DEF Updating
  <2>4. ASSUME ~crossed', NEW i \in 1 .. n + 1, Updating(below'[i].phase) PROVE due' \subseteq below'[i].loaded
    <3>1. CASE i \in 1 .. n BY <1>1, <1>4, <2>4, <3>1, Zenon DEF SigInv, PendingInv, n
    <3>2. CASE i = n + 1 BY <1>1, <1>3, <1>4, <2>4, <3>2, Zenon DEF SigInv, PendingInv
    <3> QED BY <1>6, <3>1, <3>2, Zenon
  <2>5. ASSUME ~inside', NEW i \in 1 .. n + 1 PROVE i = 1 /\ below'[i].phase = "idle"
    <3>1. phase = "idle" /\ ~inside BY <1>1, <2>5, Zenon
    <3>2. ~(n > 0)
      <4>1. current = 0 BY <1>5, <3>1, Zenon DEF CallInv
      <4> QED BY <1>5, <3>1, <4>1, Zenon DEF CallInv
    <3>3. n = 0 /\ i = n + 1 BY <1>4, <3>2
    <3> QED BY <1>3, <1>4, <3>1, <3>3
  <2> QED BY <1>4, <2>1, <2>2, <2>3, <2>4, <2>5, Zenon DEF PendingInv
<1> QED BY <1>8, <1>9, Zenon DEF SigInv

\* It takes the lowest signal left and loads pending.
LEMMA LoadStep == ASSUME SigInv, DispatchLoad PROVE SigInv'
<1> DEFINE k == Min(deliverable)
<1>1. k \in deliverable /\ k \in Sigs /\ k # 0 /\ \A s \in deliverable \ {k} : s > k
  <2>1. deliverable \subseteq Nat /\ deliverable # {} BY SigNumbers, Zenon DEF DispatchLoad, SigInv, DispatchInv
  <2>2. k \in deliverable /\ \A s \in deliverable : k <= s BY <2>1, MinOfNat, Zenon
  <2> HIDE DEF k
  <2> QED BY <2>1, <2>2, SigNumbers DEF SigInv, DispatchInv
<1> HIDE DEF k
<1>2. /\ phase = "loop" /\ current' = k /\ deliverable' = deliverable \ {k} /\ loaded' = pending
      /\ phase' = "store" /\ UNCHANGED <<pending, mask, masked, below, due, crossed, inside>>
  BY Zenon DEF DispatchLoad, k, noted
<1>3. CallInv(deliverable', phase', current', masked', Len(below'))
  BY <1>1, <1>2, Zenon DEF SigInv, DispatchInv, CallInv
<1>4. DispatchInv' BY <1>1, <1>2, <1>3, Zenon DEF SigInv, DispatchInv, SigPhases
<1>5. PendingInv' BY <1>1, <1>2, Zenon DEF SigInv, PendingInv, SignalsKept, SignalsOnce
<1> QED BY <1>4, <1>5, Zenon DEF SigInv

\* It stores pending without that signal.
LEMMA StoreStep == ASSUME SigInv, DispatchStore PROVE SigInv'
<1>1. /\ phase = "store" /\ pending' = loaded \ {current} /\ due' = due \ {current} /\ phase' = "act" /\ loaded' = {}
      /\ UNCHANGED <<mask, deliverable, current, masked, below, crossed, inside>>
  BY Zenon DEF DispatchStore, Cleared
<1>2. CallInv(deliverable, phase, current, masked, Len(below)) /\ current # 0 /\ current \notin deliverable
  <2>1. CallInv(deliverable, phase, current, masked, Len(below)) /\ current # 0 BY <1>1, Zenon DEF SigInv, DispatchInv, CallInv
  <2>2. current \in Nat BY <2>1, SigNumbers, Zenon DEF SigInv, DispatchInv
  <2>3. ~(current > current) BY <2>2
  <2> QED BY <2>1, <2>3, Zenon DEF CallInv
<1>3. CallInv(deliverable', phase', current', masked', Len(below')) BY <1>1, <1>2, Zenon DEF CallInv
<1>4. DispatchInv' BY <1>1, <1>3, Zenon DEF SigInv, DispatchInv, SigPhases
<1>5. PendingInv'
  <2>1. Updating(phase) /\ ~Updating(phase') BY <1>1, Zenon DEF Updating
  <2>2. SignalsKept' BY <1>1, <2>1, Zenon DEF SigInv, PendingInv, SignalsKept
  <2>3. SignalsOnce' BY <1>1, <1>2, <2>1, Zenon DEF SigInv, PendingInv, SignalsOnce
  <2> QED BY <1>1, <2>1, <2>2, <2>3, Zenon DEF SigInv, PendingInv
<1> QED BY <1>4, <1>5, Zenon DEF SigInv

\* It acts on the signal, or a handler returns, or user code begins to raise.
LEMMA ActStep == ASSUME SigInv, DispatchAct \/ HandlerReturn \/ ProcessRaise PROVE SigInv'
<1>1. /\ phase \in {"act", "handler", "idle"} /\ phase' \in {"exited", "loop", "handler", "raise"}
      /\ UNCHANGED <<pending, mask, deliverable, masked, below, due, crossed, inside>>
      /\ current' = IF phase' = "loop" THEN 0 ELSE current
      /\ loaded' = IF phase' = "raise" THEN pending ELSE loaded
      /\ phase = "idle" => phase' = "raise"
      /\ phase = "act" /\ current = SIGKILL => phase' = "exited"
      /\ phase' = "exited" => phase = "act"
  BY ZenonT(60) DEF DispatchAct, HandlerReturn, ProcessRaise, InUser, noted
<1>2. CallInv(deliverable, phase, current, masked, Len(below)) BY Zenon DEF SigInv, DispatchInv
<1>3. CallInv(deliverable', phase', current', masked', Len(below'))
  <2>1. CASE phase = "idle" BY <1>1, <1>2, <2>1 DEF CallInv, SIGKILL
  <2>2. CASE phase \in {"act", "handler"} BY <1>1, <1>2, <2>2, SMTT(30) DEF CallInv
  <2> QED BY <1>1, <2>1, <2>2, Zenon
<1>4. DispatchInv' BY <1>1, <1>3, Zenon DEF SigInv, DispatchInv, SigPhases
<1>5. PendingInv'
  <2>1. Updating(phase') => phase' = "raise" BY <1>1, Zenon DEF Updating
  <2>2. phase' # "store" /\ phase # "store" BY <1>1, Zenon
  <2>3. phase' = "raise" => loaded' = pending BY <1>1, Zenon
  <2>4. SignalsKept' /\ SignalsOnce' BY <1>1, <2>2, Zenon DEF SigInv, PendingInv, SignalsKept, SignalsOnce
  <2>5. /\ ~crossed => due \subseteq pending
        /\ ~inside => pending \subseteq due
    BY Zenon DEF SigInv, PendingInv, SignalsKept, SignalsOnce
  <2> QED BY <1>1, <2>1, <2>3, <2>4, <2>5, Zenon DEF SigInv, PendingInv
<1> QED BY <1>4, <1>5, Zenon DEF SigInv

\* User code has raised a signal.
LEMMA RaisedStep == ASSUME SigInv, NEW s \in Sigs, ProcessRaised(s) PROVE SigInv'
<1>1. /\ phase = "raise" /\ phase' = (IF current = 0 THEN "idle" ELSE "handler")
      /\ pending' = loaded \cup {s} /\ due' = due \cup {s} /\ loaded' = {} /\ crossed' = (crossed \/ UpdateBelow)
      /\ UNCHANGED <<mask, deliverable, current, masked, below, inside>>
  BY Zenon DEF ProcessRaised
<1>2. CallInv(deliverable', phase', current', masked', Len(below'))
  BY <1>1, Zenon DEF SigInv, DispatchInv, CallInv
<1>3. DispatchInv' BY <1>1, <1>2, Zenon DEF SigInv, DispatchInv, SigPhases
<1>4. DOMAIN below = 1 .. Len(below) BY DEF SigInv, DispatchInv
<1>5. PendingInv'
  <2>1. Updating(phase) /\ ~Updating(phase') /\ phase' # "store" BY <1>1, Zenon DEF Updating
  <2>2. SignalsKept' /\ SignalsOnce' BY <1>1, <2>1, Zenon DEF SigInv, PendingInv, SignalsKept, SignalsOnce
  <2> QED BY <1>1, <1>4, <2>1, <2>2, Zenon DEF SigInv, PendingInv, UpdateBelow
<1> QED BY <1>3, <1>5, Zenon DEF SigInv

\* A dispatch ends, and what it has interrupted goes on.
LEMMA EndStep == ASSUME SigInv, DispatchEnd PROVE SigInv'
<1> DEFINE n == Len(below)
           f == below[n]
<1>1. /\ phase = "loop" /\ below' = SubSeq(below, 1, n - 1)
      /\ deliverable' = f.deliverable /\ phase' = f.phase /\ loaded' = f.loaded
      /\ current' = f.current /\ masked' = f.masked
      /\ UNCHANGED <<pending, mask, due, crossed, inside>>
  BY Zenon DEF DispatchEnd, noted
<1>2. n > 0 /\ below \in Seq(Frames) BY <1>1, Zenon DEF SigInv, DispatchInv, CallInv
<1>3. /\ below' \in Seq(Frames) /\ Len(below') = n - 1 /\ n \in Nat /\ f \in Frames
      /\ \A i \in 1 .. Len(below') : below'[i] = below[i] /\ i \in 1 .. n
      /\ n \in 1 .. n
  BY <1>1, <1>2, Popped, Zenon
<1> HIDE DEF n, f
<1>4. CallInv(deliverable', phase', current', masked', Len(below')) BY <1>1, <1>3, Zenon DEF SigInv, DispatchInv, BelowInv, n, f
<1>5. BelowInv(below') BY <1>3, Zenon DEF SigInv, DispatchInv, BelowInv, n
<1>6. f.deliverable \subseteq Sigs /\ f.phase \in SigPhases /\ f.loaded \subseteq Sigs /\ f.current \in Sigs \cup {0} /\ f.masked \in Masks
  BY <1>3, Zenon DEF Frames
<1>7. DispatchInv' BY <1>1, <1>3, <1>4, <1>5, <1>6, Zenon DEF SigInv, DispatchInv
<1>8. PendingInv'
  <2>1. SignalsKept' BY <1>1, Zenon DEF SigInv, PendingInv, SignalsKept
  <2>2. ~inside => phase' = "idle" BY <1>1, <1>3, Zenon DEF SigInv, PendingInv, n, f
  <2>3. ~inside => deliverable' = {}
    <3>1. ASSUME ~inside PROVE n = 1 BY <1>3, <3>1, Zenon DEF SigInv, PendingInv, n
    <3>2. n = 1 => ~(Len(below') > 0) BY <1>3
    <3> QED BY <1>4, <2>2, <3>1, <3>2, Zenon DEF CallInv
  <2>4. SignalsOnce' BY <1>1, <2>2, <2>3, Zenon DEF SigInv, PendingInv, SignalsOnce
  <2>5. ~crossed => /\ Updating(phase') => due \subseteq loaded'
                    /\ \A i \in 1 .. Len(below') : Updating(below'[i].phase) => due \subseteq below'[i].loaded
    BY <1>1, <1>3, Zenon DEF SigInv, PendingInv, n, f
  <2>6. ~inside => /\ ~Updating(phase')
                   /\ \A i \in 1 .. Len(below') : i = 1 /\ below'[i].phase = "idle"
    BY <1>3, <2>2, Zenon DEF SigInv, PendingInv, n, Updating
  <2> QED BY <1>1, <2>1, <2>4, <2>5, <2>6, Zenon DEF PendingInv
<1> QED BY <1>7, <1>8, Zenon DEF SigInv

\* Every step of the signals keeps SigInv.
LEMMA SigStep ==
    ASSUME NEW CONSTANT masks, masks \subseteq Masks, SigInv, [SignalNext(masks)]_sig_vars
    PROVE  SigInv'
<1>1. CASE UNCHANGED sig_vars
  BY <1>1, Zenon DEF sig_vars, frame, noted, SigInv, DispatchInv, PendingInv, SignalsKept, SignalsOnce
<1>2. CASE SignalNext(masks)
  <2>1. ASSUME NEW s \in Sigs, riv_sig_raise(s) \/ ProcessRaised(s) \/ \E h \in {"DFL", "IGN", "user"} : riv_sig_set(s, h)
        PROVE  SigInv'
    BY <2>1, SetStep, RaiseStep, RaisedStep, Zenon
  <2>2. ASSUME NEW m \in masks, SetMask(m) PROVE SigInv' BY <2>2, SetStep, Zenon
  <2> QED BY <1>2, <2>1, <2>2, BeginStep, LoadStep, StoreStep, ActStep, EndStep, Zenon DEF SignalNext
<1> QED BY <1>1, <1>2, Zenon

\* Whatever sets of signals are masked, and however deep dispatches run inside
\* one another: a signal raised stays pending until a dispatch takes it, unless it
\* was raised inside an update of pending; none is taken twice for one raise,
\* unless a dispatch ran inside another or inside an update; and the handlers of
\* each dispatch run in order and never for a masked signal or SIGKILL.
THEOREM SignalsAreDelivered ==
    ASSUME NEW CONSTANT masks, masks \subseteq Masks
    PROVE  SignalSpec(masks) => []SignalsDelivered
<1>1. SigInv => SignalsDelivered
  <2>1. DispatchInv => HandlersInOrder
    BY SigNumbers, Zenon DEF DispatchInv, CallInv, HandlersInOrder
  <2> QED BY <2>1, Zenon DEF SigInv, PendingInv, SignalsDelivered
<1> QED BY <1>1, SigInit, SigStep, PTL DEF SignalSpec
=============================================================================
