-------------------------------- MODULE Disas --------------------------------
(***************************************************************************)
(* src/rivet-disas.c run on what rivet-as wrote, with the same -m and -b:  *)
(* one action per turn of its loop.  And what the two tools owe each other *)
(* and their user.                                                         *)
(***************************************************************************)
EXTENDS Assembler

VARIABLES dis_i,      \* offset of the next byte to decode
          listing     \* the lines printed: address, length and text

dis_vars == <<dis_i, listing>>

DisInit == dis_i = 0 /\ listing = <<>>

decode(bs) == IF march = "riscv32" THEN rv_decode(base + dis_i, bs) ELSE x86_decode(base + dis_i, bs)

\* What no decoder takes is printed as one raw byte.
Decode ==
    /\ as_status = "done" /\ dis_i < Len(asm.prog)
    /\ LET rest == SubSeq(asm.prog, dis_i + 1, Len(asm.prog))
           d == decode(rest)
           l == IF d.n = 0 THEN Line(1, <<".byte", UNum(rest[1])>>) ELSE d
       IN  /\ listing' = Append(listing, [pc |-> base + dis_i, n |-> l.n, text |-> l.text])
           /\ dis_i' = dis_i + l.n
    /\ UNCHANGED as_vars

Listed == as_status = "done" /\ dis_i = Len(asm.prog)

-----------------------------------------------------------------------------
(* What an instruction says, whoever wrote it: mnemonic aliases and pseudo *)
(* instructions resolved, symbols replaced by their values, and a memory   *)
(* operand as the sum it stands for.  Numbers of 32 bits are taken modulo  *)
(* 2^32, as the decoders print some signed and some unsigned; wider ones   *)
(* in full.                                                                *)

ValueOf(t) == IF t.k = "sym" THEN asm.syms[t.n] ELSE t.v.lo
\* coefficient of each register, and the constant
Coefficient(as, r) ==
    FoldLeft(LAMBDA c, a : c + CASE a.t.k = "reg" /\ a.t.r = r -> a.sign
                                 [] a.t.k = "scaled" /\ a.t.r = r -> a.sign * ValueOf(a.t.s)
                                 [] OTHER -> 0, 0, as)
Constant(as) ==
    FoldLeft(LAMBDA c, a : c + IF a.t.k \in {"num", "sym"} THEN a.sign * ValueOf(a.t) ELSE 0, 0, as)
Address(t) == <<[r \in 0 .. 15 |-> Coefficient(t.atoms, r)], Constant(t.atoms)>>

Number(t) ==
    [k |-> "value", v |-> ValueOf(t), wide |-> IF t.k = "num" /\ t.v.hi \notin {-1, 0} THEN t.v.hi ELSE 0]

OperandMeaning(t) ==
    CASE t.k \in {"num", "sym"} -> <<Number(t)>>
      [] t.k = "off" -> <<Reg(t.r), Number(t.imm)>>
      [] t.k = "mem" -> <<[k |-> "address", v |-> Address(t)]>>
      [] OTHER -> <<t>>

Canonical(tok) ==
    CASE march = "riscv32" /\ tok = <<"fence">> -> <<"fence", Flags({"r", "w"}), Flags({"r", "w"})>>
      [] march = "riscv32" /\ tok[1] = "nop" -> <<"addi", Reg(0), Reg(0), Num(0)>>
      [] march = "riscv32" /\ tok[1] = "mv" -> <<"addi", tok[2], tok[3], Num(0)>>
      [] march = "riscv32" /\ tok[1] = "li" -> <<"addi", tok[2], Reg(0), tok[3]>>
      [] march = "riscv32" /\ tok[1] = "j" -> <<"jal", Reg(0), tok[2]>>
      [] march = "riscv32" /\ tok[1] = "ret" -> <<"jalr", Reg(0), Off(Num(0), 1)>>
      [] OTHER -> tok

Meaning(tok) ==
    LET c == Canonical(tok)
        ops == [i \in 1 .. Len(c) - 1 |-> OperandMeaning(c[i + 1])]
    IN  IF c[1] = "test" THEN <<"test", {ops[1], ops[2]}>>
                         ELSE <<JccName(c[1]), FlattenSeq(ops)>>

IsCode(s) == s.tok # <<>> /\ s.tok[1] \notin Directives
Code == SelectSeq(src, IsCode)

\* Operands the encoding has room for.  The assembler does not test ranges: it
\* keeps the low bits.
Room(m) ==
    CASE m \in {"addi", "li", "slti", "sltiu", "xori", "ori", "andi", "jalr"} -> -2048 .. 2047
      [] m \in {"slli", "srli", "srai"} -> 0 .. 31
      [] m \in {"lui", "auipc"} -> 0 .. 1048575
      [] m \in {"shl", "shr", "sar", "int", "in", "out"} -> 0 .. 255
      [] OTHER -> {}
HasRoom(tok) ==
    \A i \in 2 .. Len(tok) :
        /\ tok[i].k = "off" => ValueOf(tok[i].imm) \in -2048 .. 2047
        /\ tok[i].k \in {"num", "sym"} /\ Room(tok[1]) # {} => ValueOf(tok[i]) \in Room(tok[1])

\* Memory operands the encoder handles: registers added, not subtracted, one of
\* them a base, at most one index, which is not rsp.
IsPlain(t, noindex) ==
    LET at(k) == {i \in DOMAIN t.atoms : t.atoms[i].t.k = k}
        indexes == at("scaled") \cup {i \in at("reg") : \E j \in at("reg") : j < i}
    IN  /\ \A i \in at("reg") \cup at("scaled") : t.atoms[i].sign = 1
        /\ at("reg") # {}
        /\ Cardinality(indexes) <= 1
        /\ \A i \in indexes : t.atoms[i].t.r \notin noindex
Encodable(tok, noindex) ==
    HasRoom(tok) /\ \A i \in 2 .. Len(tok) : tok[i].k = "mem" => IsPlain(tok[i], noindex)

\* The second pass meets every label at the address the first one recorded, up
\* to and with the first line whose size the first pass had to guess: one whose
\* size hangs on a symbol not known yet.  Behind that line, and behind the first
\* in a file that changes the architecture, labels keep the first pass's
\* addresses and the code is elsewhere: riv_as_sym_set is only called in pass 0.
LabelsStable ==
    as_status = "run" /\ pass = 1 /\ line <= Len(src) /\ line <= loose =>
        \A i \in DOMAIN src[line].labels : asm.syms[src[line].labels[i]] = asm.pc + base

Symbols(t) ==
    CASE t.k = "sym" -> {t.n}
      [] t.k = "off" /\ t.imm.k = "sym" -> {t.imm.n}
      [] t.k = "mem" -> {a.t.n : a \in {b \in ToSet(t.atoms) : b.t.k = "sym"}}
      [] OTHER -> {}
IsEqu(s) == s.tok # <<>> /\ s.tok[1] \in {".equ", ".set"}

\* An output file exists only when every symbol that the file uses in data or as
\* an operand of an instruction is defined in it.
Resolved ==
    as_status = "done" =>
        \A i \in DOMAIN src : src[i].tok # <<>> /\ src[i].tok[1] \notin {".equ", ".set", ".global", ".globl"} =>
            \A j \in 2 .. Len(src[i].tok) : Symbols(src[i].tok[j]) \subseteq DOMAIN asm.syms

\* A line .equ n, z gives n the value z has in the output only when z is defined
\* before it or by a label of its own line.  A z of a later line, or of none, is
\* the 0 of pass 0, and that is what n stands for in the output, with no message.
KnownAt(i) ==
    UNION {ToSet(src[j].labels) : j \in 1 .. i} \cup {src[j].tok[2].n : j \in {h \in 1 .. i - 1 : IsEqu(src[h])}}
EquatesInOrder ==
    as_status = "done" =>
        \A i \in DOMAIN src : IsEqu(src[i]) =>
            LET v == src[i].tok[3]
            IN  asm.syms[src[i].tok[2].n] = IF v.k = "sym" /\ v.n \notin KnownAt(i) THEN 0 ELSE ValueOf(v)

SameAsSource(noindex) ==
    /\ Listed /\ loose > Len(src)
    /\ \A i \in DOMAIN src : IsCode(src[i]) \/ src[i].tok = <<>> \/ src[i].tok[1] \in {".text", ".equ"}
    /\ \A i \in DOMAIN Code : Encodable(Code[i].tok, noindex)
    => /\ Len(listing) = Len(Code)
       /\ \A i \in DOMAIN Code : Meaning(listing[i].text) = Meaning(Code[i].tok)

\* What rivet-disas prints of a file of instructions that rivet-as assembled is
\* what the file says: one line for each instruction, with its mnemonic, its
\* registers, its values and branch targets, and the same memory operands;
\* but for r12 as an index, which x86_decode takes for no index.
ListingFaithful == SameAsSource({4, 12})

\* The second pass of rivet-as works with the addresses and symbols of the first:
\* labels are where it finds them, up to the first size that was guessed; every
\* symbol used is defined; and one set by .equ has the value of what it was set
\* from if that came first, and 0 otherwise.
PassesAgree == LabelsStable /\ Resolved /\ EquatesInOrder
=============================================================================
