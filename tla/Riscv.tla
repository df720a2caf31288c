------------------------------- MODULE Riscv --------------------------------
(***************************************************************************)
(* src/arch/riscv32_as.c and riscv32_disas.c: the RV32IM backend of        *)
(* rivet-as and of rivet-disas.  An instruction word is the set of its one *)
(* bits.                                                                   *)
(***************************************************************************)
EXTENDS Arch

enc_r(rd, f3, rs1, rs2, f7, op) ==
    Field(f7, 0, 7, 25) \cup Field(rs2, 0, 5, 20) \cup Field(rs1, 0, 5, 15)
    \cup Field(f3, 0, 3, 12) \cup Field(rd, 0, 5, 7) \cup Field(op, 0, 7, 0)

enc_i(rd, f3, rs1, imm, op) ==
    Field(imm, 0, 12, 20) \cup Field(rs1, 0, 5, 15)
    \cup Field(f3, 0, 3, 12) \cup Field(rd, 0, 5, 7) \cup Field(op, 0, 7, 0)

enc_shift(rd, f3, rs1, shamt, f7, op) == enc_r(rd, f3, rs1, shamt % 32, f7, op)

enc_s(rs2, f3, rs1, imm, op) ==
    Field(imm, 5, 7, 25) \cup Field(rs2, 0, 5, 20) \cup Field(rs1, 0, 5, 15)
    \cup Field(f3, 0, 3, 12) \cup Field(imm, 0, 5, 7) \cup Field(op, 0, 7, 0)

\* Mutant of enc_b: bit 11 goes where the contiguous layout would have it.
enc_b_straight(rs1, rs2, f3, off, op) ==
    Field(off, 12, 1, 31) \cup Field(off, 5, 6, 25) \cup Field(rs2, 0, 5, 20)
    \cup Field(rs1, 0, 5, 15) \cup Field(f3, 0, 3, 12)
    \cup Field(off, 1, 4, 8) \cup Field(off, 12, 1, 7) \cup Field(op, 0, 7, 0)

enc_b(rs1, rs2, f3, off, op) ==
    Field(off, 12, 1, 31) \cup Field(off, 5, 6, 25) \cup Field(rs2, 0, 5, 20)
    \cup Field(rs1, 0, 5, 15) \cup Field(f3, 0, 3, 12)
    \cup Field(off, 1, 4, 8) \cup Field(off, 11, 1, 7) \cup Field(op, 0, 7, 0)

\* The immediate is given before its << 12.
enc_u(rd, v, op) == Field(v, 0, 20, 12) \cup Field(rd, 0, 5, 7) \cup Field(op, 0, 7, 0)

enc_j(rd, off, op) ==
    Field(off, 20, 1, 31) \cup Field(off, 1, 10, 21) \cup Field(off, 11, 1, 20)
    \cup Field(off, 12, 8, 12) \cup Field(rd, 0, 5, 7) \cup Field(op, 0, 7, 0)

FenceBit == [i |-> 3, o |-> 2, r |-> 1, w |-> 0]
rv_fence_set(t) ==
    IF t.k = "flags" THEN {MapThenSumSet(LAMBDA f : 2 ^ FenceBit[f], t.s)} ELSE {}

\* name, kind, funct3, funct7, opcode
rv_isa ==
    {<<"add", "R", 0, 0, 51>>, <<"sub", "R", 0, 32, 51>>, <<"sll", "R", 1, 0, 51>>,
     <<"slt", "R", 2, 0, 51>>, <<"sltu", "R", 3, 0, 51>>, <<"xor", "R", 4, 0, 51>>,
     <<"srl", "R", 5, 0, 51>>, <<"sra", "R", 5, 32, 51>>, <<"or", "R", 6, 0, 51>>,
     <<"and", "R", 7, 0, 51>>,
     <<"addi", "I", 0, 0, 19>>, <<"slti", "I", 2, 0, 19>>, <<"sltiu", "I", 3, 0, 19>>,
     <<"xori", "I", 4, 0, 19>>, <<"ori", "I", 6, 0, 19>>, <<"andi", "I", 7, 0, 19>>,
     <<"slli", "SHIFT", 1, 0, 19>>, <<"srli", "SHIFT", 5, 0, 19>>,
     <<"srai", "SHIFT", 5, 32, 19>>,
     <<"lb", "LOAD", 0, 0, 3>>, <<"lh", "LOAD", 1, 0, 3>>, <<"lw", "LOAD", 2, 0, 3>>,
     <<"lbu", "LOAD", 4, 0, 3>>, <<"lhu", "LOAD", 5, 0, 3>>,
     <<"sb", "STORE", 0, 0, 35>>, <<"sh", "STORE", 1, 0, 35>>, <<"sw", "STORE", 2, 0, 35>>,
     <<"beq", "BRANCH", 0, 0, 99>>, <<"bne", "BRANCH", 1, 0, 99>>,
     <<"blt", "BRANCH", 4, 0, 99>>, <<"bge", "BRANCH", 5, 0, 99>>,
     <<"bltu", "BRANCH", 6, 0, 99>>, <<"bgeu", "BRANCH", 7, 0, 99>>,
     <<"jal", "JAL", 0, 0, 111>>, <<"jalr", "JALR", 0, 0, 103>>,
     <<"lui", "U", 0, 0, 55>>, <<"auipc", "U", 0, 0, 23>>,
     <<"ecall", "SYS", 0, 0, 115>>, <<"ebreak", "SYS", 0, 1, 115>>,
     <<"mul", "R", 0, 1, 51>>, <<"mulh", "R", 1, 1, 51>>, <<"mulhsu", "R", 2, 1, 51>>,
     <<"mulhu", "R", 3, 1, 51>>, <<"div", "R", 4, 1, 51>>, <<"divu", "R", 5, 1, 51>>,
     <<"rem", "R", 6, 1, 51>>, <<"remu", "R", 7, 1, 51>>,
     <<"fence", "FENCE", 0, 0, 15>>, <<"fence.i", "FENCE", 1, 0, 15>>}

rv_find(m) == {ix \in rv_isa : ix[1] = m}

rv_expand_pseudo(t) ==
    CASE t[1] = "nop" -> <<"addi", Reg(0), Reg(0), Num(0)>>
      [] t[1] = "mv" /\ Len(t) >= 3 -> <<"addi", t[2], t[3], Num(0)>>
      [] t[1] = "li" /\ Len(t) >= 3 -> <<"addi", t[2], Reg(0), t[3]>>
      [] t[1] = "j" /\ Len(t) >= 2 -> <<"jal", Reg(0), t[2]>>
      [] t[1] = "ret" -> <<"jalr", Reg(0), Reg(1), Num(0)>>
      [] OTHER -> t

\* The imm(reg) operand i: none where it is not written that way.
OffAt(t, i, e) ==
    {<<v, o.r>> : v \in UNION {riv_as_parse_imm(o.imm, e) : o \in {u \in Operand(t, i) : u.k = "off"}},
                  o \in {u \in Operand(t, i) : u.k = "off"}}
\* A branch offset: the target less the address of the instruction.
Offset(v, e) == v.lo - (e.pc + e.base)

\* One word per way of reading the line: none where the code dies, or does not
\* know the mnemonic, which process_line makes just as fatal.
rv_word(t, ix, e) ==
    LET f3 == ix[3] f7 == ix[4] op == ix[5] R(i) == RegAt(t, i, 32) IN
    CASE ix[2] = "R" -> {enc_r(rd, f3, rs1, rs2, f7, op) : rd \in R(1), rs1 \in R(2), rs2 \in R(3)}
      [] ix[2] = "I" -> {enc_i(rd, f3, rs1, v.lo, op) : rd \in R(1), rs1 \in R(2), v \in ImmAt(t, 3, e)}
      [] ix[2] = "SHIFT" -> {enc_shift(rd, f3, rs1, v.lo, f7, op) : rd \in R(1), rs1 \in R(2), v \in ImmAt(t, 3, e)}
      [] ix[2] = "LOAD" -> {enc_i(rd, f3, o[2], o[1].lo, op) : rd \in R(1), o \in OffAt(t, 2, e)}
      [] ix[2] = "STORE" -> {enc_s(rs2, f3, o[2], o[1].lo, op) : rs2 \in R(1), o \in OffAt(t, 2, e)}
      [] ix[2] = "BRANCH" -> {enc_b(rs1, rs2, f3, Offset(v, e), op) : rs1 \in R(1), rs2 \in R(2), v \in ImmAt(t, 3, e)}
      [] ix[2] = "JAL" -> {enc_j(rd, Offset(v, e), op) : rd \in R(1), v \in ImmAt(t, 2, e)}
      [] ix[2] = "JALR" /\ Len(t) = 3 -> {enc_i(rd, f3, o[2], o[1].lo, op) : rd \in R(1), o \in OffAt(t, 2, e)}
      [] ix[2] = "JALR" -> {enc_i(rd, f3, rs1, v.lo, op) : rd \in R(1), rs1 \in R(2), v \in ImmAt(t, 3, e)}
      [] ix[2] = "U" -> {enc_u(rd, v.lo, op) : rd \in R(1), v \in ImmAt(t, 2, e)}
      [] ix[2] = "SYS" -> {Field(f7, 0, 7, 20) \cup Field(op, 0, 7, 0)}
      [] ix[1] = "fence.i" -> {{12} \cup Field(op, 0, 7, 0)}
      [] ix[1] = "fence" /\ Len(t) < 3 -> {Field(3, 0, 4, 24) \cup Field(3, 0, 4, 20) \cup Field(op, 0, 7, 0)}
      [] ix[1] = "fence" -> {Field(p, 0, 4, 24) \cup Field(s, 0, 4, 20) \cup Field(op, 0, 7, 0) :
                                p \in rv_fence_set(t[2]), s \in rv_fence_set(t[3])}

rv_encode(tok, e) ==
    LET t == rv_expand_pseudo(tok)
    IN  {WordBytes(w) : w \in UNION {rv_word(t, ix, e) : ix \in rv_find(t[1])}}

-----------------------------------------------------------------------------
sext(v, bits) == IF v >= 2 ^ (bits - 1) THEN v - 2 ^ bits ELSE v

\* The decoder's own tables, indexed by (funct7, funct3) and by funct3; "???"
\* and "RN" where a switch has no case.
rv_op_name(f7, f3) ==
    CASE f7 = 0 -> <<"add", "sll", "slt", "sltu", "xor", "srl", "or", "and">>[f3 + 1]
      [] f7 = 1 -> <<"mul", "mulh", "mulhsu", "mulhu", "div", "divu", "rem", "remu">>[f3 + 1]
      [] f7 = 32 /\ f3 = 0 -> "sub"
      [] f7 = 32 /\ f3 = 5 -> "sra"
      [] OTHER -> "???"
rv_imm_name(f7, f3) ==
    <<"addi", "slli", "slti", "sltiu", "xori", IF f7 = 32 THEN "srai" ELSE "srli", "ori", "andi">>[f3 + 1]
rv_load_name(f3) == <<"lb", "lh", "lw", "???", "lbu", "lhu", "???", "???">>[f3 + 1]
rv_store_name(f3) == IF f3 < 3 THEN <<"sb", "sh", "sw">>[f3 + 1] ELSE "???"
rv_branch_name(f3) == <<"beq", "bne", "???", "???", "blt", "bge", "bltu", "bgeu">>[f3 + 1]
\* The flags in bits at .. at+3; none at all prints as "(none)".
rv_fence_text(w, at) ==
    LET S == {f \in DOMAIN FenceBit : at + FenceBit[f] \in w}
    IN  IF S = {} THEN Small("(none)") ELSE Flags(S)

rv_decode(pc, bs) ==
    IF Len(bs) < 4 THEN NoLine
    ELSE LET w == BytesWord(bs)
             op == Bits(w, 0, 7)     rd == Reg(Bits(w, 7, 5))    f3 == Bits(w, 12, 3)
             rs1 == Reg(Bits(w, 15, 5)) rs2 == Reg(Bits(w, 20, 5)) f7 == Bits(w, 25, 7)
             immI == sext(Bits(w, 20, 12), 12)
             immS == sext(32 * Bits(w, 25, 7) + Bits(w, 7, 5), 12)
             immB == sext(4096 * Bits(w, 31, 1) + 2048 * Bits(w, 7, 1)
                          + 32 * Bits(w, 25, 6) + 2 * Bits(w, 8, 4), 13)
             immJ == sext(1048576 * Bits(w, 31, 1) + 4096 * Bits(w, 12, 8)
                          + 2048 * Bits(w, 20, 1) + 2 * Bits(w, 21, 10), 21)
             shamt == IF f3 \in {1, 5} THEN immI % 32 ELSE immI
         IN  Line(4, CASE op = 51 -> <<rv_op_name(f7, f3), rd, rs1, rs2>>
                       [] op = 19 -> <<rv_imm_name(f7, f3), rd, rs1, Num(shamt)>>
                       [] op = 3 -> <<rv_load_name(f3), rd, Off(Num(immI), rs1.r)>>
                       [] op = 35 -> <<rv_store_name(f3), rs2, Off(Num(immS), rs1.r)>>
                       [] op = 99 -> <<rv_branch_name(f3), rs1, rs2, UNum(pc + immB)>>
                       [] op = 111 -> <<"jal", rd, UNum(pc + immJ)>>
                       [] op = 103 -> <<"jalr", rd, rs1, Num(immI)>>
                       [] op = 55 -> <<"lui", rd, Num(Bits(w, 12, 20))>>
                       [] op = 23 -> <<"auipc", rd, Num(Bits(w, 12, 20))>>
                       [] op = 115 -> <<IF Bits(w, 20, 12) # 0 THEN "ebreak" ELSE "ecall">>
                       [] op = 15 /\ f3 = 1 -> <<"fence.i">>
                       [] op = 15 -> <<"fence", rv_fence_text(w, 24), rv_fence_text(w, 20)>>
                       [] OTHER -> <<".word", UNum(BytesI32(bs))>>)
=============================================================================
