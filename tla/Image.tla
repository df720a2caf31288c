-------------------------------- MODULE Image --------------------------------
(***************************************************************************)
(* The tools that work on a finished image - src/rivet-img.c,              *)
(* rivet-objcopy.c, rivet-strings.c, rivet-size.c - and crc.h, with which  *)
(* the firmware checks the image it was given.  All are functions of the   *)
(* bytes of a file.  A checksum register is the set of its one bits.       *)
(***************************************************************************)
EXTENDS Integers, Sequences, FiniteSets, SequencesExt

BitsOf(b) == {i \in 0 .. 7 : (b \div 2 ^ i) % 2 = 1}
ByteFrom(c, lo) == MapThenSumSet(LAMBDA i : 2 ^ i, {i \in 0 .. 7 : lo + i \in c})
Eight == [i \in 1 .. 8 |-> i]
Word == 0 .. 31

\* 0xEDB88320, 0x1021 and 0x8C
Poly32 == {5, 8, 9, 15, 19, 20, 21, 23, 24, 26, 27, 29, 30, 31}
Poly16 == {0, 5, 12}
Poly8 == {2, 3, 7}
ShiftRight(c, poly) == IF 0 \in c THEN SymDiff({i - 1 : i \in c \ {0}}, poly) ELSE {i - 1 : i \in c}
ShiftLeft(c, top, poly) ==
    IF top \in c THEN SymDiff({i + 1 : i \in c \ {top}}, poly) ELSE {i + 1 : i \in c}

\* f at the one element of C: a set makes TLC evaluate the argument first.
At(f(_), C) == CHOOSE r \in {f(c) : c \in C} : TRUE

\* The loops of a checksum: over the bytes, which TLC takes four at a time, and
\* over the eight bits of one.
Fours(bs) == [k \in 1 .. (Len(bs) + 3) \div 4 |-> SubSeq(bs, 4 * k - 3, Min({4 * k, Len(bs)}))]
EachByte(step(_, _), crc, bs) == FoldLeft(LAMBDA c, four : At(LAMBDA d : FoldLeft(step, d, four), {c}), crc, Fours(bs))
EachBit(shift(_), c) == At(LAMBDA d : FoldLeft(LAMBDA e, i : shift(e), d, Eight), {c})

Crc32Byte(c, b) == EachBit(LAMBDA d : ShiftRight(d, Poly32), SymDiff(c, BitsOf(b)))
riv_crc32_update(crc, bs) == Word \ EachByte(Crc32Byte, Word \ crc, bs)
riv_crc32(bs) == riv_crc32_update({}, bs)
riv_crc16_update(crc, bs) ==
    EachByte(LAMBDA c, b : EachBit(LAMBDA d : ShiftLeft(d, 15, Poly16), SymDiff(c, {8 + i : i \in BitsOf(b)})), crc, bs)
riv_crc8_1wire(bs) == EachByte(LAMBDA c, b : EachBit(LAMBDA d : ShiftRight(d, Poly8), SymDiff(c, BitsOf(b))), {}, bs)

\* The names in the comments of crc.h are those of published checksums, each
\* with its value for the nine characters "123456789".
Nine == <<49, 50, 51, 52, 53, 54, 55, 56, 57>>
ASSUME PublishedValues ==
    /\ [i \in 1 .. 4 |-> ByteFrom(riv_crc32(Nine), 8 * (4 - i))] = <<203, 244, 57, 38>>
    /\ [i \in 1 .. 2 |-> ByteFrom(riv_crc16_update(0 .. 15, Nine), 8 * (2 - i))] = <<41, 177>>
    /\ ByteFrom(riv_crc8_1wire(Nine), 0) = 161

-----------------------------------------------------------------------------
(* rivet-img: pad, fill and --crc32-trailer                                *)

\* Mutant of crc32_buf: the final complement is missing.
crc32_buf_raw(bs) == EachByte(Crc32Byte, Word, bs)

\* the tool's own copy of the checksum
crc32_buf(bs) == Word \ EachByte(Crc32Byte, Word, bs)

final_size(sz, pad, add_crc) ==
    LET final == IF pad = {} THEN sz ELSE Max(pad)
    IN  IF add_crc /\ final < sz + 4 THEN sz + 4 ELSE final

\* The trailer replaces the last four bytes, be they padding or new.
rivet_img(bs, pad, fill, add_crc) ==
    LET final == final_size(Len(bs), pad, add_crc)
        padded == [i \in 1 .. final |-> IF i <= Len(bs) THEN bs[i] ELSE fill % 256]
        crc == crc32_buf(SubSeq(padded, 1, final - 4))
    IN  IF final < Len(bs) THEN {}
        ELSE {[i \in 1 .. final |-> IF add_crc /\ i > final - 4 THEN ByteFrom(crc, 8 * (i - final + 3)) ELSE padded[i]]}

-----------------------------------------------------------------------------
(* rivet-objcopy                                                           *)

\* The chunks of at most 16 bytes that fread returns.
Chunks(bs) == [k \in 1 .. (Len(bs) + 15) \div 16 |-> SubSeq(bs, 16 * k - 15, Min({16 * k, Len(bs)}))]

Rec(addr, type, data) ==
    LET sum == Len(data) + (addr \div 256) + addr + type + FoldLeft(LAMBDA a, b : a + b, 0, data)
    IN  [len |-> Len(data), addr |-> addr, type |-> type, data |-> data, sum |-> (256 - (sum % 256)) % 256]
Upper(a) == a \div 65536

\* An extended address record whenever the upper half changes, data records,
\* an end record.
bin_to_ihex(bs, base) ==
    LET c == Chunks(bs)
        at(k) == base + 16 * (k - 1)
        ext(k) == IF k > 1 /\ Upper(at(k)) = Upper(at(k - 1)) THEN <<>>
                  ELSE <<Rec(0, 4, <<Upper(at(k)) \div 256, Upper(at(k)) % 256>>)>>
    IN  FlattenSeq([k \in DOMAIN c |-> ext(k) \o <<Rec(at(k) % 65536, 0, c[k])>>]) \o <<Rec(0, 1, <<>>)>>

\* S0 header "HDR", S3 data, S7 end: the sum is over the count, the address
\* and the data, and complemented.
SRec(type, addr, width, data) ==
    LET cnt == Len(data) + width + 1
        sum == cnt + FoldLeft(LAMBDA a, b : a + b, 0, data)
               + FoldLeft(LAMBDA a, i : a + (addr \div 256 ^ (i - 1)), 0, [i \in 1 .. width |-> i])
    IN  [type |-> type, cnt |-> cnt, addr |-> addr, data |-> data, sum |-> 255 - (sum % 256)]
bin_to_srec(bs, base) ==
    <<SRec(0, 0, 2, <<72, 68, 82>>)>>
    \o [k \in DOMAIN Chunks(bs) |-> SRec(3, base + 16 * (k - 1), 4, Chunks(bs)[k])]
    \o <<SRec(7, base, 4, <<>>)>>

\* The address of each data record: its own under the last upper half seen.
Addressed(recs) ==
    FoldLeft(LAMBDA s, r : CASE r.type = 4 -> [s EXCEPT !.upper = 65536 * (256 * r.data[1] + r.data[2])]
                             [] r.type = 0 -> [s EXCEPT !.data = Append(@, [at |-> s.upper + r.addr, bytes |-> r.data])]
                             [] OTHER -> s, [upper |-> 0, data |-> <<>>], recs).data

\* Mutant of extent: the length of the last record is left out.
extent_short(d) == <<Min({d[i].at : i \in DOMAIN d}), Max({d[i].at : i \in DOMAIN d})>>

\* minaddr and maxaddr
extent(d) == <<Min({d[i].at : i \in DOMAIN d}), Max({d[i].at + Len(d[i].bytes) : i \in DOMAIN d})>>

\* Two passes: the extent of the data, then a zeroed image with every record in
\* its place.  No output without data records.  Checksums are not looked at.
ihex_to_bin(recs) ==
    LET d == Addressed(recs)
        minaddr == extent(d)[1]    maxaddr == extent(d)[2]
        over(a) == {i \in DOMAIN d : a - d[i].at \in 0 .. Len(d[i].bytes) - 1}
    IN  IF d = <<>> THEN {}
        ELSE {[base |-> minaddr,
               bytes |-> [k \in 1 .. maxaddr - minaddr |->
                            LET a == minaddr + k - 1
                            IN  IF over(a) = {} THEN 0 ELSE d[Max(over(a))].bytes[a - d[Max(over(a))].at + 1]]]}

-----------------------------------------------------------------------------
(* rivet-strings and rivet-size                                            *)

is_print(c) == c \in 32 .. 126 \/ c = 9

\* The loop: the current run, cut at the size of its buffer, and the runs
\* printed so far.
riv_strings(bs, min_len, cap) ==
    LET flush(s) == IF Len(s.run) >= min_len THEN Append(s.out, [off |-> s.start, text |-> s.run]) ELSE s.out
        step(s, i) ==
            IF is_print(bs[i])
              THEN [s EXCEPT !.run = IF Len(@) < cap THEN Append(@, bs[i]) ELSE @, !.start = IF s.run = <<>> THEN i - 1 ELSE @]
              ELSE [s EXCEPT !.out = flush(s), !.run = <<>>]
    IN  flush(FoldLeft(step, [run |-> <<>>, start |-> 0, out |-> <<>>], [i \in DOMAIN bs |-> i]))

Count(bs, S) == Cardinality({i \in DOMAIN bs : bs[i] \in S})
report(bs) ==
    LET nz == {i \in DOMAIN bs : bs[i] # 0}
    IN  [total |-> Len(bs), zeros |-> Count(bs, {0}), ff |-> Count(bs, {255}), prn |-> Count(bs, 32 .. 126),
         ctrl |-> Count(bs, 1 .. 31), hi |-> Count(bs, 127 .. 254),
         first_nz |-> IF nz = {} THEN -1 ELSE Min(nz) - 1, last_nz |-> IF nz = {} THEN -1 ELSE Max(nz) - 1]
=============================================================================
