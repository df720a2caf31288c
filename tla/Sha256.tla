------------------------------- MODULE Sha256 -------------------------------
(***************************************************************************)
(* include/rivet/sha256.h.  A 32-bit word is the set of its one bits.  The *)
(* streaming interface is a state machine with a block of SHA_BLOCK bytes  *)
(* (64 in the code) and a length field of SHA_LEN (8): `fed` records the   *)
(* blocks given to _riv_sha256_block, of which the digest is a function.   *)
(***************************************************************************)
EXTENDS Integers, Sequences, FiniteSets, SequencesExt

CONSTANTS SHA_BLOCK, SHA_LEN,
          MAX_MESSAGE   \* bound on the length of a message

WordBits == 0 .. 31
W32(hi, lo) == {16 + i : i \in {j \in 0 .. 15 : (hi \div 2 ^ j) % 2 = 1}} \cup {j \in 0 .. 15 : (lo \div 2 ^ j) % 2 = 1}
Rotr32(v, n) == {(i - n) % 32 : i \in v}
Shr32(v, n) == {i - n : i \in {j \in v : j >= n}}
Xor3(a, b, c) == SymDiff(a, SymDiff(b, c))

\* The sum modulo 2^32: as long as there are carries, add them.
RECURSIVE Add32(_, _)
Add32(a, b) == IF b = {} THEN a ELSE Add32(SymDiff(a, b), {i + 1 : i \in (a \cap b) \ {31}})
Halves(s) == [i \in 1 .. Len(s) \div 2 |-> W32(s[2 * i - 1], s[2 * i])]
H0 == Halves(<<\h6a09, \he667, \hbb67, \hae85, \h3c6e, \hf372, \ha54f, \hf53a,
                \h510e, \h527f, \h9b05, \h688c, \h1f83, \hd9ab, \h5be0, \hcd19>>)
K == Halves(<<\h428a, \h2f98, \h7137, \h4491, \hb5c0, \hfbcf, \he9b5, \hdba5,
               \h3956, \hc25b, \h59f1, \h11f1, \h923f, \h82a4, \hab1c, \h5ed5,
               \hd807, \haa98, \h1283, \h5b01, \h2431, \h85be, \h550c, \h7dc3,
               \h72be, \h5d74, \h80de, \hb1fe, \h9bdc, \h06a7, \hc19b, \hf174,
               \he49b, \h69c1, \hefbe, \h4786, \h0fc1, \h9dc6, \h240c, \ha1cc,
               \h2de9, \h2c6f, \h4a74, \h84aa, \h5cb0, \ha9dc, \h76f9, \h88da,
               \h983e, \h5152, \ha831, \hc66d, \hb003, \h27c8, \hbf59, \h7fc7,
               \hc6e0, \h0bf3, \hd5a7, \h9147, \h06ca, \h6351, \h1429, \h2967,
               \h27b7, \h0a85, \h2e1b, \h2138, \h4d2c, \h6dfc, \h5338, \h0d13,
               \h650a, \h7354, \h766a, \h0abb, \h81c2, \hc92e, \h9272, \h2c85,
               \ha2bf, \he8a1, \ha81a, \h664b, \hc24b, \h8b70, \hc76c, \h51a3,
               \hd192, \he819, \hd699, \h0624, \hf40e, \h3585, \h106a, \ha070,
               \h19a4, \hc116, \h1e37, \h6c08, \h2748, \h774c, \h34b0, \hbcb5,
               \h391c, \h0cb3, \h4ed8, \haa4a, \h5b9c, \hca4f, \h682e, \h6ff3,
               \h748f, \h82ee, \h78a5, \h636f, \h84c8, \h7814, \h8cc7, \h0208,
               \h90be, \hfffa, \ha450, \h6ceb, \hbef9, \ha3f7, \hc671, \h78f2>>)

\* The message schedule: sixteen words of the block, big-endian, and 48 more.
Schedule(blk) ==
    LET first == [i \in 1 .. 16 |-> W32(256 * blk[4 * i - 3] + blk[4 * i - 2], 256 * blk[4 * i - 1] + blk[4 * i])]
        next(w) == LET n == Len(w) + 1
                       s0 == Xor3(Rotr32(w[n - 15], 7), Rotr32(w[n - 15], 18), Shr32(w[n - 15], 3))
                       s1 == Xor3(Rotr32(w[n - 2], 17), Rotr32(w[n - 2], 19), Shr32(w[n - 2], 10))
                   IN  Add32(Add32(w[n - 16], s0), Add32(w[n - 7], s1))
        RECURSIVE grow(_)
        grow(w) == IF Len(w) = 64 THEN w ELSE grow(Append(w, next(w)))
    IN  grow(first)

\* One of the 64 rounds; v is <<a, b, c, d, e, f, g, h>>.
Round(v, k, w) ==
    LET S1 == Xor3(Rotr32(v[5], 6), Rotr32(v[5], 11), Rotr32(v[5], 25))
        ch == SymDiff(v[5] \cap v[6], (WordBits \ v[5]) \cap v[7])
        t1 == Add32(Add32(v[8], S1), Add32(ch, Add32(k, w)))
        S0 == Xor3(Rotr32(v[1], 2), Rotr32(v[1], 13), Rotr32(v[1], 22))
        mj == Xor3(v[1] \cap v[2], v[1] \cap v[3], v[2] \cap v[3])
    IN  <<Add32(t1, Add32(S0, mj)), v[1], v[2], v[3], Add32(v[4], t1), v[5], v[6], v[7]>>

riv_sha256_block(h, blk) ==
    LET w == Schedule(blk)
        RECURSIVE rounds(_)
        rounds(vs) == LET n == Len(vs)
                      IN  IF n = 65 THEN vs[n] ELSE rounds(Append(vs, Round(vs[n], K[n], w[n])))
        r == rounds(<<h>>)
    IN  [i \in 1 .. 8 |-> Add32(h[i], r[i])]

-----------------------------------------------------------------------------
(* The streaming interface.                                                *)

VARIABLES sha,  \* buf with what earlier blocks left in it, buf_len, bytes_total, and the blocks fed
          said  \* the bytes given to riv_sha256_update since riv_sha256_init

sha_vars == <<sha, said>>

\* The buffer is not cleared: it holds what was in memory, here some byte 255,
\* or what the last digest left there.
Opened(buf) == [buf |-> buf, buf_len |-> 0, bytes_total |-> 0, fed |-> <<>>, done |-> FALSE]
ShaInit == sha = Opened([i \in 1 .. SHA_BLOCK |-> 255]) /\ said = <<>>
riv_sha256_init == sha' = Opened(sha.buf) /\ said' = <<>>

PutByte(s, b) == [s EXCEPT !.buf[s.buf_len + 1] = b, !.buf_len = @ + 1]
Feed(s) == [s EXCEPT !.fed = Append(@, s.buf), !.buf_len = 0]

\* The loop over what is left of the data.
RECURSIVE Absorb(_, _)
Absorb(s, p) ==
    IF p = <<>> THEN s
    ELSE LET copy == Min({SHA_BLOCK - s.buf_len, Len(p)})
             t == [s EXCEPT !.buf = [i \in 1 .. SHA_BLOCK |-> IF i - s.buf_len \in 1 .. copy THEN p[i - s.buf_len] ELSE @[i]],
                            !.buf_len = @ + copy]
         IN  Absorb(IF t.buf_len = SHA_BLOCK THEN Feed(t) ELSE t, SubSeq(p, copy + 1, Len(p)))

riv_sha256_update(p) ==
    /\ ~sha.done
    /\ sha' = Absorb([sha EXCEPT !.bytes_total = @ + Len(p)], p)
    /\ said' = said \o p

\* Byte k of n, the lowest being byte 0.
RECURSIVE ByteAt(_, _)
ByteAt(n, k) == IF k = 0 THEN n % 256 ELSE ByteAt(n \div 256, k - 1)

RECURSIVE ZeroTo(_, _)
ZeroTo(s, n) == IF s.buf_len < n THEN ZeroTo(PutByte(s, 0), n) ELSE s
RECURSIVE PutLength(_, _, _)
PutLength(s, bits, i) == IF i < 0 THEN s ELSE PutLength(PutByte(s, ByteAt(bits, i)), bits, i - 1)

\* Mutant of Finish: a block with no room for the length is not closed first
\* when it is exactly full up to the length field.
FinishOffByOne(s) ==
    LET one == PutByte(s, 128)
        two == IF one.buf_len >= SHA_BLOCK - SHA_LEN THEN Feed(ZeroTo(one, SHA_BLOCK)) ELSE one
    IN  Feed(PutLength(ZeroTo(two, SHA_BLOCK - SHA_LEN), 8 * s.bytes_total, SHA_LEN - 1))

\* A one bit, zeros, and the length in bits at the end of a block; an extra
\* block when the length does not fit in this one.
Finish(s) ==
    LET one == PutByte(s, 128)
        two == IF one.buf_len > SHA_BLOCK - SHA_LEN THEN Feed(ZeroTo(one, SHA_BLOCK)) ELSE one
    IN  Feed(PutLength(ZeroTo(two, SHA_BLOCK - SHA_LEN), 8 * s.bytes_total, SHA_LEN - 1))

riv_sha256_final ==
    /\ ~sha.done
    /\ sha' = [Finish(sha) EXCEPT !.done = TRUE]
    /\ UNCHANGED said

\* The i-th byte of the message is i: chunks of any length, the empty one too.
Chunk(n) == [i \in 1 .. n |-> (Len(said) + i) % 256]
ShaNext == \/ \E n \in 0 .. MAX_MESSAGE - Len(said) : riv_sha256_update(Chunk(n))
           \/ riv_sha256_final \/ riv_sha256_init

-----------------------------------------------------------------------------
\* The padding of FIPS 180-4, which sha256.h names: the message, a one bit, as
\* few zeros as possible, the length in bits.
Padded(msg, block, len) ==
    LET zeros == (block - ((Len(msg) + 1 + len) % block)) % block
    IN  msg \o <<128>> \o [i \in 1 .. zeros |-> 0] \o [i \in 1 .. len |-> ByteAt(8 * Len(msg), len - i)]
InBlocks(bs, block) == [k \in 1 .. Len(bs) \div block |-> SubSeq(bs, block * (k - 1) + 1, block * k)]

\* The published digest of the three bytes "abc".
ASSUME PublishedDigest ==
    riv_sha256_block(H0, InBlocks(Padded(<<97, 98, 99>>, 64, 8), 64)[1]) =
      Halves(<<\hba78, \h16bf, \h8f01, \hcfea, \h4141, \h40de, \h5dae, \h2223,
               \hb003, \h61a3, \h9617, \h7a9c, \hb410, \hff61, \hf200, \h15ad>>)

\* However a message is cut into calls of riv_sha256_update, the blocks that
\* are compressed are those of the padded message, also where the length only
\* just fits into the last block or no longer does.
DigestOfWhole == sha.done => sha.fed = InBlocks(Padded(said, SHA_BLOCK, SHA_LEN), SHA_BLOCK)
=============================================================================
