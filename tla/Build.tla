-------------------------------- MODULE Build --------------------------------
(***************************************************************************)
(* The build pipeline of doc-en/tools-reference.md: rivet-as writes a flat *)
(* binary, which is either listed by rivet-disas or placed by rivet-ld,    *)
(* padded and signed by rivet-img, carried as Intel HEX by rivet-objcopy   *)
(* and checked by the firmware that receives it.  The tools share nothing  *)
(* but files.                                                              *)
(***************************************************************************)
EXTENDS Sources, Linker, Image

VARIABLES plan,       \* what happens to the assembled file: "list" or "image"
          product     \* what rivet-img and rivet-objcopy made of the image

vars == <<as_vars, dis_vars, ld_vars, files, plan, product>>

\* 0x80001000: a load address in the upper half of the address space.
HighBase == -2147479552

Nil == [stage |-> "none"]

\* Three small programs, one of which assembles to nothing.
Programs ==
    {<<Stmt(<<"s">>, <<"nop">>), Stmt(<<>>, <<"j", Sym("s")>>)>>,
     <<Stmt(<<>>, <<".asciz", Text(<<79, 75, 9, 33>>)>>), Stmt(<<>>, <<".byte", Num(127), Num(65), Num(66), Num(67)>>)>>,
     <<Stmt(<<"s">>, <<".text">>)>>}

Heads ==
    {<<Fill(511), Region("rom", {0}, {12}, {}), Fill(1), Region("ram", {64}, {8}, {}), Blank>>,
     <<Entry("s"), Region("rom", {0}, {8}, {3}), Output("fw.bin"), Define("k", 40)>>}
Bodies ==
    BoundedSeq({Place("a.bin", "in", "rom", {}), Place("a.bin", "in", "rom", {2}), Place("b.bin", "in", "ram", {}),
                Place("b.bin", "in", "rom", {}), Place("a.bin", "in", "ram", {30})}, 3)
\* Scripts that stop early, or go wrong.
Broken ==
    {<<OtherLine>>, <<Region("rom", {0}, {}, {})>>, <<Region("rom", {}, {4}, {})>>, <<>>,
     <<Region("rom", {0}, {20}, {}), Region("ram", {32}, {20}, {})>>,
     <<Region("rom", {0}, {31}, {}), Place("a.bin", "in", "rom", {}), Place("a.bin", "in", "rom", {28})>>,
     <<Region("rom", {0}, {4}, {}), Region("ram", {8}, {4}, {}), Region("io", {16}, {4}, {})>>,
     <<Region("rom", {0}, {4}, {}), Place("c.bin", "in", "rom", {})>>,
     <<Region("rom", {0}, {4}, {}), Place("a.bin", "on", "rom", {})>>,
     <<Define("k", 1), Define("l", 2), Define("m", 3)>>,
     [i \in 1 .. 5 |-> IF i = 1 THEN Region("rom", {0}, {4}, {}) ELSE Place("b.bin", "in", "rom", {})]}

ListInit ==
    /\ plan = "list"
    /\ \/ AsInit(RvFiles, {"riscv32"}, {0})
       \/ AsInit(X86Files, {"x86_64"}, {0})
       \/ AsInit(FilesOf(RvLines) \cup SetFiles \cup DirectiveFiles, {"rv32"}, {0, HighBase})
       \/ AsInit(FilesOf(X86Lines) \cup DirectiveFiles, {"amd64"}, {0, HighBase})
    /\ LdInit({<<>>}, {FALSE}, {""})
ImageInit ==
    /\ plan = "image"
    /\ AsInit(Programs, {"riscv32"}, {0})
    /\ \/ LdInit({h \o b : h \in Heads, b \in Bodies} \cup Broken, {FALSE}, {""})
       \/ LdInit(Heads, {TRUE}, {"", "x.ld"})
Init ==
    /\ ListInit \/ ImageInit
    /\ DisInit
    /\ files = ("b.bin" :> <<9, 72, 105, 126>>)
    /\ product = Nil

-----------------------------------------------------------------------------
Assemble == AsNext /\ UNCHANGED <<dis_vars, ld_vars, files, plan, product>>

\* rivet-disas, when that is the plan.
List == plan = "list" /\ Decode /\ UNCHANGED <<ld_vars, files, plan, product>>

\* The output of rivet-as appears as a file.
Hand ==
    /\ plan = "image" /\ as_status = "done" /\ "a.bin" \notin DOMAIN files
    /\ files' = files @@ ("a.bin" :> asm.prog)
    /\ UNCHANGED <<as_vars, dis_vars, ld_vars, plan, product>>

Link == plan = "image" /\ "a.bin" \in DOMAIN files /\ LdNext /\ UNCHANGED <<as_vars, dis_vars, plan, product>>

\* rivet-img on the linked image, with every combination of its options.
Sign ==
    /\ Linked /\ product = Nil
    /\ \E pad \in {{}, {16}, {26}}, add_crc \in BOOLEAN :
         LET out == rivet_img(files[output], pad, 511, add_crc)
         IN  IF out = {} THEN product' = [stage |-> "refused", pad |-> pad, crc |-> add_crc]
             ELSE \E b \in out : product' = [stage |-> "signed", pad |-> pad, crc |-> add_crc, bytes |-> b]
    /\ UNCHANGED <<as_vars, dis_vars, ld_vars, files, plan>>

\* rivet-objcopy -O ihex and -O srec, and -I ihex on the result.
Convert ==
    /\ product.stage = "signed"
    /\ \E b \in {0, 65528} :
         product' = [stage |-> "converted", pad |-> product.pad, crc |-> product.crc, bytes |-> product.bytes, at |-> b,
                     ihex |-> bin_to_ihex(product.bytes, b), srec |-> bin_to_srec(product.bytes, b),
                     back |-> ihex_to_bin(bin_to_ihex(product.bytes, b))]
    /\ UNCHANGED <<as_vars, dis_vars, ld_vars, files, plan>>

\* The image reaches the firmware intact, or with some bits of one byte flipped.
Deliver ==
    /\ product.stage = "converted" /\ product.crc /\ product.at = 0
    /\ \E i \in DOMAIN product.bytes, flip \in {{}, {0}, {3, 7}} :
         product' = [stage |-> "delivered", flip |-> flip,
                     bytes |-> [product.bytes EXCEPT ![i] = ByteFrom(SymDiff(BitsOf(@), flip), 0)]]
    /\ UNCHANGED <<as_vars, dis_vars, ld_vars, files, plan>>

Next == Assemble \/ List \/ Hand \/ Link \/ Sign \/ Convert \/ Deliver
Spec == Init /\ [][Next]_vars

-----------------------------------------------------------------------------
\* The firmware computes the checksum with crc.h over all but the last four
\* bytes, in two parts, and compares it with those four.
Accepts(bs) ==
    LET n == Len(bs) - 4
        h == n \div 2
        crc == riv_crc32_update(riv_crc32_update({}, SubSeq(bs, 1, h)), SubSeq(bs, h + 1, n))
    IN  \A i \in 1 .. 4 : bs[n + i] = ByteFrom(crc, 8 * (i - 1))

\* Firmware that checks its image with riv_crc32_update accepts exactly what
\* rivet-img --crc32-trailer wrote: the two checksum routines agree, a checksum
\* taken in parts is that of the whole, and no change within one byte, trailer
\* included, goes unnoticed.
TrailerVerifies == product.stage = "delivered" => (Accepts(product.bytes) <=> product.flip = {})

\* rivet-img never drops or changes a byte of its input: what it writes starts
\* with the linked image, and the rest up to the trailer is the fill byte.  An
\* image that fits the size asked for gets exactly that size; one that is larger
\* is refused.  With --crc32-trailer none is refused: where the image and its
\* trailer do not fit, the output is larger than the size asked for, although
\* doc-en/tools-reference.md:108 says "pad the final image to SIZE bytes".
SignedKeepsImage ==
    LET n == Len(files[output])
        least == n + (IF product.crc THEN 4 ELSE 0)
    IN  /\ product.stage = "signed" =>
             /\ IsPrefix(files[output], product.bytes)
             /\ \A i \in n + 1 .. Len(product.bytes) - (least - n) : product.bytes[i] = 255
             /\ \A size \in product.pad : size >= least => Len(product.bytes) = size
             /\ (\A size \in product.pad : size < least) => Len(product.bytes) = least
             /\ \A size \in product.pad : size < n => product.crc
        /\ product.stage = "refused" => ~product.crc /\ \E size \in product.pad : size < n

\* The same data records, last one first, each behind its upper half.
Backwards(recs) ==
    LET d == Addressed(recs)
    IN  FlattenSeq([k \in DOMAIN d |-> LET r == d[Len(d) + 1 - k] IN
            <<Rec(0, 4, <<Upper(r.at) \div 256, Upper(r.at) % 256>>), Rec(r.at % 65536, 0, r.bytes)>>])

\* Intel HEX made by rivet-objcopy, wherever the image is loaded and also when
\* it crosses a 64 KiB boundary, reads back as the same bytes at the same
\* address, and so do its records in the opposite order; only an empty image
\* does not.
HexRoundTrip ==
    product.stage = "converted" =>
        LET whole == IF product.bytes = <<>> THEN {} ELSE {[base |-> product.at, bytes |-> product.bytes]}
        IN  product.back = whole /\ ihex_to_bin(Backwards(product.ihex)) = whole

\* The bytes of every Intel HEX record, its checksum included, add up to 0
\* modulo 256, and those of every S-record to 255: what a programmer verifies.
RecordsSum ==
    product.stage = "converted" =>
        /\ \A i \in DOMAIN product.ihex : LET r == product.ihex[i] IN
             (r.len + (r.addr \div 256) + (r.addr % 256) + r.type + Sum(r.data) + r.sum) % 256 = 0
        /\ \A i \in DOMAIN product.srec : LET r == product.srec[i] IN
             (r.cnt + (r.addr % 256) + ((r.addr \div 256) % 256) + ((r.addr \div 65536) % 256) + (r.addr \div 16777216)
              + Sum(r.data) + r.sum) % 256 = 255

\* rivet-strings prints every maximal run of printable bytes that is long
\* enough, and nothing else, in the order of the file; rivet-size counts every
\* byte of the file in exactly one class.
Printable == {9} \cup 32 .. 126
Runs(bs, n) ==
    {<<a, b>> \in (1 .. Len(bs)) \X (1 .. Len(bs)) :
       /\ b - a + 1 >= n
       /\ \A i \in a .. b : bs[i] \in Printable
       /\ a = 1 \/ bs[a - 1] \notin Printable
       /\ b = Len(bs) \/ bs[b + 1] \notin Printable}
EveryByteReported ==
    Linked /\ product = Nil =>
        LET bs == files[output]
            found == riv_strings(bs, 3, 1023)
            r == report(bs)
        IN  /\ {<<found[i].off + 1, found[i].off + Len(found[i].text)>> : i \in DOMAIN found} = Runs(bs, 3)
            /\ \A i, j \in DOMAIN found : i < j => found[i].off < found[j].off
            /\ \A i \in DOMAIN found : IsPrefix(found[i].text, SubSeq(bs, found[i].off + 1, Len(bs)))
            /\ r.zeros + r.ff + r.prn + r.ctrl + r.hi = r.total

\* rivet-img keeps the image it pads and signs, and the firmware's riv_crc32
\* accepts that and nothing near it.
SignedVerifies == SignedKeepsImage /\ TrailerVerifies

\* rivet-objcopy, rivet-strings and rivet-size carry and report each byte of the
\* image as it is.
CarriedExactly == HexRoundTrip /\ RecordsSum /\ EveryByteReported
=============================================================================
