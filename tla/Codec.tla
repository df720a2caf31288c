-------------------------------- MODULE Codec --------------------------------
(***************************************************************************)
(* include/rivet/base64.h and the checksum of include/rivet/net.h: a       *)
(* message is encoded or given a checksum, travels, and is read.  Bytes    *)
(* and characters are their codes.                                         *)
(***************************************************************************)
EXTENDS Integers, Sequences, FiniteSets, SequencesExt

CONSTANTS CodecBytes, \* the bytes that messages are made of
          CODEC_MAX   \* bound on the length of a message

-----------------------------------------------------------------------------
(* base64                                                                  *)

Pad == 61
riv_b64_alphabet == [v \in 0 .. 63 |-> CASE v < 26 -> 65 + v [] v \in 26 .. 51 -> 97 + v - 26
                                         [] v \in 52 .. 61 -> 48 + v - 52 [] v = 62 -> 43 [] v = 63 -> 47]
riv_b64_val(c) == CASE c \in 65 .. 90 -> c - 65 [] c \in 97 .. 122 -> c - 97 + 26 [] c \in 48 .. 57 -> c - 48 + 52
                    [] c = 43 -> 62 [] c = 47 -> 63 [] OTHER -> -1

riv_base64_encoded_size(n) == ((n + 2) \div 3) * 4
riv_base64_decoded_max(n) == (n \div 4) * 3

\* Four characters for the bytes i, i + 1 and i + 2, as far as they exist.
Quad(in, i) ==
    LET at(k) == IF k <= Len(in) THEN in[k] ELSE 0
        t == 65536 * at(i) + 256 * at(i + 1) + at(i + 2)
        six(s) == riv_b64_alphabet[(t \div 2 ^ s) % 64]
    IN  <<six(18), six(12), IF i + 1 <= Len(in) THEN six(6) ELSE Pad, IF i + 2 <= Len(in) THEN six(0) ELSE Pad>>

\* The text, whose terminating zero must fit too; nothing without room for it.
riv_base64_encode(in, cap) ==
    IF cap < riv_base64_encoded_size(Len(in)) + 1 THEN <<>>
    ELSE FlattenSeq([k \in 1 .. (Len(in) + 2) \div 3 |-> Quad(in, 3 * k - 2)])

\* The bytes that four characters stand for.
Triple(q) ==
    LET v(i) == IF i > 2 /\ q[i] = Pad THEN 0 ELSE riv_b64_val(q[i])
        known(i) == q[i] # Pad /\ v(i) >= 0
    IN  <<(v(1) * 4 + v(2) \div 16) % 256>>
        \o (IF known(3) THEN <<(v(2) * 16 + v(3) \div 4) % 256>> ELSE <<>>)
        \o (IF known(4) THEN <<(v(3) * 64 + v(4)) % 256>> ELSE <<>>)

\* Mutant of riv_base64_decode: room is only looked at once for four characters.
RECURSIVE DecodeUnchecked(_, _, _)
DecodeUnchecked(in, cap, out) ==
    IF Len(in) < 4 THEN out
    ELSE LET q == SubSeq(in, 1, 4)
         IN  IF riv_b64_val(q[1]) < 0 \/ riv_b64_val(q[2]) < 0 THEN <<>>
             ELSE IF Len(out) >= cap THEN out
             ELSE DecodeUnchecked(SubSeq(in, 5, Len(in)), cap, out \o Triple(q))

\* The loop: stop where the room ends, give up on a character that is none.
RECURSIVE Decode64(_, _, _)
Decode64(in, cap, out) ==
    IF Len(in) < 4 THEN out
    ELSE LET q == SubSeq(in, 1, 4)
             more == out \o Triple(q)
         IN  IF riv_b64_val(q[1]) < 0 \/ riv_b64_val(q[2]) < 0 THEN <<>>
             ELSE IF Len(more) > cap THEN SubSeq(more, 1, cap)
             ELSE Decode64(SubSeq(in, 5, Len(in)), cap, more)
riv_base64_decode(in, cap) == Decode64(in, cap, <<>>)

-----------------------------------------------------------------------------
(* The checksum of IPv4.                                                   *)

\* 16-bit words as a little-endian machine loads them, and a last odd byte.
IpWords(bs) == [k \in 1 .. (Len(bs) + 1) \div 2 |-> bs[2 * k - 1] + (IF 2 * k <= Len(bs) THEN 256 * bs[2 * k] ELSE 0)]
RECURSIVE FoldCarry(_)
FoldCarry(sum) == IF sum \div 65536 = 0 THEN sum ELSE FoldCarry((sum % 65536) + (sum \div 65536))
riv_ip_checksum(bs) == 65535 - FoldCarry(FoldLeft(LAMBDA s, w : s + w, 0, IpWords(bs)))

-----------------------------------------------------------------------------
VARIABLE mail  \* what is under way: a text, or a packet with its checksum

codec_vars == <<mail>>

CodecInit == mail = [stage |-> "none"]

Messages == UNION {[1 .. n -> CodecBytes] : n \in 0 .. CODEC_MAX}

\* With exactly the room it needs, or one less.
EncodeText == \E in \in Messages, short \in {0, 1} :
    /\ mail.stage = "none"
    /\ mail' = [stage |-> "text", in |-> in, short |-> short,
                text |-> riv_base64_encode(in, riv_base64_encoded_size(Len(in)) + 1 - short)]

DecodeText == \E cap \in 0 .. CODEC_MAX + 1 :
    /\ mail.stage = "text" /\ mail.short = 0
    /\ mail' = [stage |-> "decoded", in |-> mail.in, cap |-> cap, size |-> Len(mail.text),
                out |-> riv_base64_decode(mail.text, cap)]

\* The two bytes of the checksum follow the first two of the packet; they are
\* zero while it is computed and stored as the machine stores a word.
WithSum(in, c) == SubSeq(in, 1, 2) \o <<c % 256, c \div 256>> \o SubSeq(in, 3, Len(in))
SealPacket == \E in \in {m \in Messages : Len(m) >= 2} :
    /\ mail.stage = "none"
    /\ mail' = [stage |-> "packet", intact |-> TRUE, bytes |-> WithSum(in, riv_ip_checksum(WithSum(in, 0)))]

\* One byte is changed on the way.
DamagePacket ==
    /\ mail.stage = "packet" /\ mail.intact
    /\ \E i \in DOMAIN mail.bytes : \E b \in CodecBytes \ {mail.bytes[i]} :
         mail' = [mail EXCEPT !.intact = FALSE, !.bytes[i] = b]

CodecNext == EncodeText \/ DecodeText \/ SealPacket \/ DamagePacket

-----------------------------------------------------------------------------
\* riv_base64_decode gives back what riv_base64_encode was given, cut at the
\* room there is; the two size functions are what a caller must reserve; and a
\* text without room for its end is not written at all.
Base64RoundTrip ==
    /\ mail.stage = "text" =>
         Len(mail.text) = IF mail.short = 0 THEN riv_base64_encoded_size(Len(mail.in)) ELSE 0
    /\ mail.stage = "decoded" =>
         /\ mail.out = SubSeq(mail.in, 1, Min({mail.cap, Len(mail.in)}))
         /\ Len(mail.in) <= riv_base64_decoded_max(mail.size)

\* A packet with its checksum in place sums to zero, and with any one byte
\* changed it does not.
ChecksumTells == mail.stage = "packet" => (riv_ip_checksum(mail.bytes) = 0 <=> mail.intact)
=============================================================================
