------------------------------- MODULE Bitmap -------------------------------
(* include/rivet/bitmap.h: an array of words, each the set of its one bits. *)
EXTENDS Integers, FiniteSets, FiniteSetsExt

CONSTANTS NBITS,
          BM_WORD      \* bits per word (32 in the code)

VARIABLES bm,
          members      \* the bits that are set, as the user thinks of them

bm_vars == <<bm, members>>

RIV_BITMAP_WORDS == (NBITS + BM_WORD - 1) \div BM_WORD
Words == 0 .. RIV_BITMAP_WORDS - 1
Bit(i) == i % BM_WORD
WordOf(i) == i \div BM_WORD

BmInit == bm = [w \in Words |-> {}] /\ members = {}

riv_bm_set(i) == bm' = [bm EXCEPT ![WordOf(i)] = @ \cup {Bit(i)}] /\ members' = members \cup {i}
riv_bm_clear(i) == bm' = [bm EXCEPT ![WordOf(i)] = @ \ {Bit(i)}] /\ members' = members \ {i}
riv_bm_flip(i) == bm' = [bm EXCEPT ![WordOf(i)] = SymDiff(@, {Bit(i)})] /\ members' = SymDiff(members, {i})
riv_bm_zero == bm' = [w \in Words |-> {}] /\ members' = {}

riv_bm_test(i) == Bit(i) \in bm[WordOf(i)]

riv_bm_ffs ==
    LET some == {w \in Words : bm[w] # {}}
    IN  IF some = {} THEN NBITS ELSE Min(some) * BM_WORD + Min(bm[Min(some)])

\* The complement of the last word has ones behind the last bit.
riv_bm_ffz ==
    LET some == {w \in Words : bm[w] # 0 .. BM_WORD - 1}
        bit == Min(some) * BM_WORD + Min((0 .. BM_WORD - 1) \ bm[Min(some)])
    IN  IF some = {} \/ bit >= NBITS THEN NBITS ELSE bit

riv_bm_popcount == MapThenSumSet(LAMBDA w : Cardinality(bm[w]), Words)

BmNext == riv_bm_zero \/ \E i \in 0 .. NBITS - 1 : riv_bm_set(i) \/ riv_bm_clear(i) \/ riv_bm_flip(i)

-----------------------------------------------------------------------------
\* The searches and the count of the bitmap, which go word by word, agree with
\* the set of bits that was built bit by bit; also when the last word is only
\* partly used.
BitmapIsSet ==
    /\ \A i \in 0 .. NBITS - 1 : riv_bm_test(i) <=> i \in members
    /\ riv_bm_ffs = Min(members \cup {NBITS})
    /\ riv_bm_ffz = Min((0 .. NBITS) \ members)
    /\ riv_bm_popcount = Cardinality(members)
=============================================================================
