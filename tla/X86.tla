-------------------------------- MODULE X86 ---------------------------------
(***************************************************************************)
(* src/arch/x86_64_as.c and x86_64_disas.c: the x86_64 backend of rivet-as *)
(* and of rivet-disas.  As in Riscv, an encoder returns the set of the one *)
(* byte sequence it emits, empty where the code dies.                      *)
(***************************************************************************)
EXTENDS Arch, SequencesExt

High(r) == (r \div 8) % 2
x86_emit_imm32(v) == Bytes(v, 4)
x86_emit_imm64(x) == Bytes(x.lo, 4) \o Bytes(x.hi, 4)
x86_emit_rex(w, r, x, b) ==
    IF w + r + x + b > 0 THEN <<64 + 8 * w + 4 * r + 2 * x + b>> ELSE <<>>
x86_emit_modrm(mod, reg, rm) == <<64 * mod + 8 * (reg % 8) + (rm % 8)>>

x86_emit_rr_mr(dst, src, op) ==
    x86_emit_rex(1, High(src), 0, High(dst)) \o <<op>> \o x86_emit_modrm(3, src, dst)
x86_emit_ri32(dst, digit, v) ==
    x86_emit_rex(1, 0, 0, High(dst)) \o <<129>> \o x86_emit_modrm(3, digit, dst) \o x86_emit_imm32(v)
x86_emit_shift(dst, digit, v) ==
    x86_emit_rex(1, 0, 0, High(dst)) \o <<193>> \o x86_emit_modrm(3, digit, dst) \o <<v % 256>>
x86_emit_unary_f7(dst, digit) ==
    x86_emit_rex(1, 0, 0, High(dst)) \o <<247>> \o x86_emit_modrm(3, digit, dst)
x86_emit_unary_ff(dst, digit) ==
    x86_emit_rex(1, 0, 0, High(dst)) \o <<255>> \o x86_emit_modrm(3, digit, dst)

-----------------------------------------------------------------------------
(* Memory operands                                                         *)

x86_is_reg(t) == t.k = "reg" /\ t.r < 16
x86_is_mem(t) == t.k = "mem"
x86_mem == [base |-> -1, index |-> -1, scale |-> 1, has_disp |-> FALSE, disp |-> 0]

\* One signed atom.  The sign of a register is not looked at.
x86_mem_atom(m, a, e) ==
    CASE a.t.k = "scaled" ->
           {[m EXCEPT !.index = a.t.r, !.scale = v.lo] :
              v \in {u \in riv_as_parse_imm(a.t.s, e) : u.lo \in {1, 2, 4, 8}}}
      [] x86_is_reg(a.t) /\ m.base < 0 -> {[m EXCEPT !.base = a.t.r]}
      [] x86_is_reg(a.t) /\ m.base >= 0 -> {[m EXCEPT !.index = a.t.r, !.scale = 1]}
      [] OTHER -> {[m EXCEPT !.disp = @ + a.sign * v.lo, !.has_disp = TRUE] :
                     v \in riv_as_parse_imm(a.t, e)}

x86_parse_mem(t, e) ==
    IF Len(t.atoms) > 8 THEN {}
    ELSE FoldLeft(LAMBDA ms, a : UNION {x86_mem_atom(m, a, e) : m \in ms}, {x86_mem}, t.atoms)

x86_emit_rex_for_mem(w, reg, m) ==
    x86_emit_rex(w, High(reg), IF m.index >= 0 THEN High(m.index) ELSE 0,
                               IF m.base >= 0 THEN High(m.base) ELSE 0)

\* ModR/M, SIB and displacement.  Without a base the r/m field is -1 & 7, the
\* number of rdi, unless there is a SIB byte; and with a SIB byte only the
\* mod of an operand without displacement means "no base".
x86_mem_bytes(reg, m, has_disp) ==
    LET has_sib == m.index >= 0 \/ (m.base >= 0 /\ m.base % 8 = 4)
        mod == IF ~has_disp THEN 0 ELSE IF m.disp \in -128 .. 127 THEN 1 ELSE 2
        sc == CASE m.scale = 1 -> 0 [] m.scale = 2 -> 1 [] m.scale = 4 -> 2 [] m.scale = 8 -> 3
        sib == 64 * sc + 8 * (IF m.index >= 0 THEN m.index % 8 ELSE 4)
               + (IF m.base >= 0 THEN m.base % 8 ELSE 5)
    IN  x86_emit_modrm(mod, reg, IF has_sib THEN 4 ELSE m.base % 8)
        \o (IF has_sib THEN <<sib>> ELSE <<>>)
        \o (CASE mod = 0 /\ has_sib /\ m.base < 0 -> x86_emit_imm32(m.disp)
              [] mod = 1 -> <<m.disp % 256>>
              [] mod = 2 -> x86_emit_imm32(m.disp)
              [] OTHER -> <<>>)

x86_emit_mem(reg, m) ==
    LET force_zero_disp == m.base >= 0 /\ m.base % 8 = 5 /\ ~m.has_disp
    IN  x86_mem_bytes(reg, m, m.has_disp \/ force_zero_disp)

\* REX, opcode and operand of an instruction on memory.
x86_mem_insn(op, reg, m) ==
    x86_emit_rex_for_mem(1, reg, m) \o <<op>> \o x86_emit_mem(reg, m)

x86_emit_rm_or_mr(mr, rm, d, s, e) ==
    CASE x86_is_mem(d) /\ x86_is_mem(s) -> {}
      [] ~x86_is_mem(d) /\ ~x86_is_mem(s) ->
           IF x86_is_reg(d) /\ x86_is_reg(s) THEN {x86_emit_rr_mr(d.r, s.r, mr)} ELSE {}
      [] x86_is_mem(s) /\ ~x86_is_mem(d) ->
           IF x86_is_reg(d) THEN {x86_mem_insn(rm, d.r, m) : m \in x86_parse_mem(s, e)} ELSE {}
      [] x86_is_mem(d) /\ ~x86_is_mem(s) ->
           IF x86_is_reg(s) THEN {x86_mem_insn(mr, s.r, m) : m \in x86_parse_mem(d, e)} ELSE {}

-----------------------------------------------------------------------------
(* Opcode tables                                                           *)

Jcc == <<"jo", "jno", "jb", "jae", "je", "jne", "jbe", "ja",
         "js", "jns", "jp", "jnp", "jl", "jge", "jle", "jg">>
JccAlias == [jc |-> "jb", jnc |-> "jae", jz |-> "je", jnz |-> "jne", jna |-> "jbe", jnbe |-> "ja"]
JccName(n) == IF n \in DOMAIN JccAlias THEN JccAlias[n] ELSE n
x86_jcc_opcode(n) == {127 + i : i \in {j \in 1 .. 16 : Jcc[j] = JccName(n)}}
x86_arith_digit == [add |-> 0, or |-> 1, and |-> 4, sub |-> 5, xor |-> 6, cmp |-> 7]
x86_arith_mr_opcode ==
    [add |-> 1, or |-> 9, and |-> 33, sub |-> 41, xor |-> 49, cmp |-> 57, test |-> 133]
x86_arith_rm == [add |-> 3, sub |-> 43, and |-> 35, or |-> 11, xor |-> 51, cmp |-> 59, test |-> 133]
x86_zero == [nop |-> <<144>>, hlt |-> <<244>>, int3 |-> <<204>>, cli |-> <<250>>, sti |-> <<251>>,
             ret |-> <<195>>, syscall |-> <<15, 5>>, sysret |-> <<72, 15, 7>>, ud2 |-> <<15, 11>>,
             leave |-> <<201>>, iretq |-> <<72, 207>>]

-----------------------------------------------------------------------------
(* x86_encode, one operator per group of mnemonics                         *)

x86_int(t, e) == {<<205, v.lo % 256>> : v \in ImmAt(t, 1, e)}
x86_push_pop(t, e) ==
    {(IF r >= 8 THEN <<65>> ELSE <<>>) \o <<(IF t[1] = "push" THEN 80 ELSE 88) + (r % 8)>> :
       r \in RegAt(t, 1, 16)}
x86_mov_imm(dst, v) ==
    x86_emit_rex(1, 0, 0, High(dst)) \o
    (IF FitsI32(v) THEN <<199>> \o x86_emit_modrm(3, 0, dst) \o x86_emit_imm32(v.lo)
                   ELSE <<184 + (dst % 8)>> \o x86_emit_imm64(v))
x86_mov(t, e) ==
    IF Len(t) < 3 THEN {}
    ELSE LET d == t[2] s == t[3] IN
         CASE x86_is_mem(d) /\ ~x86_is_reg(s) /\ ~x86_is_mem(s) ->
                {x86_mem_insn(199, 0, m) \o x86_emit_imm32(v.lo) :
                   m \in x86_parse_mem(d, e), v \in riv_as_parse_imm(s, e)}
           [] (x86_is_mem(d) /\ (x86_is_reg(s) \/ x86_is_mem(s))) \/ (~x86_is_mem(d) /\ x86_is_mem(s)) ->
                x86_emit_rm_or_mr(137, 139, d, s, e)
           [] ~x86_is_mem(d) /\ x86_is_reg(s) -> {x86_emit_rr_mr(r, s.r, 137) : r \in RegAt(t, 1, 16)}
           [] OTHER -> {x86_mov_imm(r, v) : r \in RegAt(t, 1, 16), v \in riv_as_parse_imm(s, e)}
x86_xchg(t, e) == {x86_emit_rr_mr(d, s, 135) : d \in RegAt(t, 1, 16), s \in RegAt(t, 2, 16)}
x86_arith(t, e) ==
    LET m == t[1] IN
    CASE Len(t) < 3 -> {}
      [] Len(t) >= 3 /\ (x86_is_mem(t[2]) \/ x86_is_mem(t[3])) ->
           x86_emit_rm_or_mr(x86_arith_mr_opcode[m], x86_arith_rm[m], t[2], t[3], e)
      [] Len(t) >= 3 /\ ~x86_is_mem(t[2]) /\ x86_is_reg(t[3]) ->
           {x86_emit_rr_mr(d, t[3].r, x86_arith_mr_opcode[m]) : d \in RegAt(t, 1, 16)}
      [] OTHER -> IF m \notin DOMAIN x86_arith_digit THEN {}
                  ELSE {x86_emit_ri32(d, x86_arith_digit[m], v.lo) :
                          d \in RegAt(t, 1, 16), v \in riv_as_parse_imm(t[3], e)}
x86_lea(t, e) ==
    {x86_mem_insn(141, d, m) :
       d \in RegAt(t, 1, 16), m \in UNION {x86_parse_mem(o, e) : o \in {u \in Operand(t, 2) : x86_is_mem(u)}}}
x86_imul(t, e) ==
    {x86_emit_rex(1, High(d), 0, High(s)) \o <<15, 175>> \o x86_emit_modrm(3, d, s) :
       d \in RegAt(t, 1, 16), s \in RegAt(t, 2, 16)}
x86_unary(t, e) ==
    LET d == [inc |-> 0, dec |-> 1, neg |-> 3, not |-> 2, mul |-> 4, div |-> 6, idiv |-> 7][t[1]]
    IN  {IF t[1] \in {"inc", "dec"} THEN x86_emit_unary_ff(r, d) ELSE x86_emit_unary_f7(r, d) :
           r \in RegAt(t, 1, 16)}
x86_shift(t, e) ==
    LET d == [shl |-> 4, shr |-> 5, sar |-> 7][t[1]]
    IN  {x86_emit_shift(r, d, v.lo) : r \in RegAt(t, 1, 16), v \in ImmAt(t, 2, e)}

x86_jump(t, e) ==
    {<<IF t[1] = "jmp" THEN 233 ELSE 232>> \o x86_emit_imm32(v.lo - (e.pc + e.base + 5)) : v \in ImmAt(t, 1, e)}
x86_jcc(t, e) ==
    {<<15, cc>> \o x86_emit_imm32(v.lo - (e.pc + e.base + 6)) :
       cc \in x86_jcc_opcode(t[1]), v \in ImmAt(t, 1, e)}
x86_in(t, e) ==
    IF Len(t) < 3 \/ t[2] # Small("al") THEN {}
    ELSE IF t[3] = Small("dx") THEN {<<236>>} ELSE {<<228, v.lo % 256>> : v \in ImmAt(t, 2, e)}
x86_out(t, e) ==
    IF Len(t) < 3 \/ t[3] # Small("al") THEN {}
    ELSE IF t[2] = Small("dx") THEN {<<238>>} ELSE {<<230, v.lo % 256>> : v \in ImmAt(t, 1, e)}

x86_encode(t, e) ==
    CASE t[1] \in DOMAIN x86_zero -> {x86_zero[t[1]]}
      [] t[1] = "int" -> x86_int(t, e)
      [] t[1] \in {"push", "pop"} -> x86_push_pop(t, e)
      [] t[1] = "mov" -> x86_mov(t, e)
      [] t[1] = "xchg" -> x86_xchg(t, e)
      [] t[1] \in DOMAIN x86_arith_mr_opcode -> x86_arith(t, e)
      [] t[1] = "lea" -> x86_lea(t, e)
      [] t[1] = "imul" -> x86_imul(t, e)
      [] t[1] \in {"inc", "dec", "neg", "not", "mul", "div", "idiv"} -> x86_unary(t, e)
      [] t[1] \in {"shl", "shr", "sar"} -> x86_shift(t, e)
      [] t[1] \in {"jmp", "call"} -> x86_jump(t, e)
      [] t[1] = "in" -> x86_in(t, e)
      [] t[1] = "out" -> x86_out(t, e)
      [] OTHER -> x86_jcc(t, e)

-----------------------------------------------------------------------------
(* x86_decode.  n counts the bytes consumed so far (idx in the code).      *)

Need(bs, n, k, line) == IF n + k > Len(bs) THEN NoLine ELSE line
Imm8(bs, n) == IF bs[n + 1] < 128 THEN bs[n + 1] ELSE bs[n + 1] - 256
Imm32(bs, n) == BytesI32(SubSeq(bs, n + 1, n + 4))

\* Opcodes that take no ModR/M byte and no register.
x86_plain == (144 :> "nop") @@ (244 :> "hlt") @@ (204 :> "int3") @@ (195 :> "ret") @@ (250 :> "cli")
             @@ (251 :> "sti") @@ (201 :> "leave") @@ (207 :> "iretq")
x86_decode_one(pc, bs, n, op) ==
    CASE op \in DOMAIN x86_plain -> Line(n, <<x86_plain[op]>>)
      [] op = 205 -> Need(bs, n, 1, Line(n + 1, <<"int", UNum(bs[n + 1])>>))
      [] op \in {232, 233} ->
           Need(bs, n, 4, Line(n + 4, <<IF op = 232 THEN "call" ELSE "jmp", UNum(pc + n + 4 + Imm32(bs, n))>>))
      [] op = 236 -> Line(n, <<"in", Small("al"), Small("dx")>>)
      [] op = 238 -> Line(n, <<"out", Small("dx"), Small("al")>>)
      [] op = 228 -> Need(bs, n, 1, Line(n + 1, <<"in", Small("al"), UNum(bs[n + 1])>>))
      [] op = 230 -> Need(bs, n, 1, Line(n + 1, <<"out", UNum(bs[n + 1]), Small("al")>>))

x86_jcc_name(cc) == Jcc[cc + 1]
x86_decode_0f(pc, bs, n, r, b) ==
    LET o2 == bs[n + 1] k == n + 1 IN
    Need(bs, n, 1,
         CASE o2 = 5 -> Line(k, <<"syscall">>)
           [] o2 = 7 -> Line(k, <<"sysret">>)
           [] o2 = 11 -> Line(k, <<"ud2">>)
           [] o2 \in 128 .. 143 ->
                Need(bs, k, 4, Line(k + 4, <<x86_jcc_name(o2 - 128), UNum(pc + k + 4 + Imm32(bs, k))>>))
           [] o2 = 175 ->
                Need(bs, k, 1, Line(k + 1, <<"imul", Reg(((bs[k + 1] \div 8) % 8) + 8 * r),
                                             Reg((bs[k + 1] % 8) + 8 * b)>>))
           [] OTHER -> Line(k, <<".byte", UNum(15), UNum(o2)>>))

\* Opcodes with a ModR/M byte: "r/m, reg", "reg, r/m", and those whose
\* mnemonic is the reg field.
x86_mr_name == (137 :> "mov") @@ (135 :> "xchg") @@ (1 :> "add") @@ (41 :> "sub") @@ (33 :> "and")
               @@ (9 :> "or") @@ (49 :> "xor") @@ (57 :> "cmp") @@ (133 :> "test")
x86_rm_name == (139 :> "mov") @@ (141 :> "lea") @@ (3 :> "add") @@ (43 :> "sub") @@ (35 :> "and")
               @@ (11 :> "or") @@ (51 :> "xor") @@ (59 :> "cmp")
x86_digit_name ==
    (129 :> <<"add", "or", "adc", "sbb", "and", "sub", "xor", "cmp">>)
    @@ (199 :> [i \in 1 .. 8 |-> "mov"])
    @@ (193 :> <<"rol", "ror", "rcl", "rcr", "shl", "shr", "?", "sar">>)
    @@ (247 :> <<"test", "?", "not", "neg", "mul", "imul", "div", "idiv">>)
    @@ (255 :> <<"inc", "dec", "call", "callf", "jmp", "jmpf", "push", "?">>)

\* A displacement of mod 1 or 2 after n bytes, none for mod 0: the new n and
\* the set of what was read.  No result where the bytes run out.
Disp(bs, n, mod) ==
    CASE mod = 0 -> {<<n, {}>>}
      [] mod = 1 -> IF n + 1 > Len(bs) THEN {} ELSE {<<n + 1, {Imm8(bs, n)}>>}
      [] mod = 2 -> IF n + 4 > Len(bs) THEN {} ELSE {<<n + 4, {Imm32(bs, n)}>>}
\* What is printed between the brackets: base, index*scale, displacement.
MemText(base, index, scale, disp) ==
    LET regs == SetToSeq({Atom(1, Reg(r)) : r \in base}) \o SetToSeq({Atom(1, Scaled(r, Num(scale))) : r \in index})
        text(d) == CASE regs = <<>> -> Atom(1, UNum(d))
                     [] regs # <<>> /\ d >= 0 -> Atom(1, Num(d))
                     [] regs # <<>> /\ d < 0 -> Atom(-1, Num(-d))
    IN  Mem(regs \o SetToSeq({text(d) : d \in disp}))
\* The memory operand of mod # 3: bytes consumed and text.
x86_decode_mem(bs, n, mod, rmf, x, b) ==
    CASE rmf = 4 /\ n + 1 > Len(bs) -> {}
      [] rmf = 4 /\ n + 1 <= Len(bs) ->
           LET sib == bs[n + 1]
               si == (sib \div 8) % 8
               index == IF si = 4 THEN {} ELSE {si + 8 * x}
               nobase == sib % 8 = 5 /\ mod = 0
           IN  {<<d[1], MemText(IF nobase THEN {} ELSE {(sib % 8) + 8 * b}, index, 2 ^ (sib \div 64), d[2])>> :
                  d \in Disp(bs, n + 1, IF nobase THEN 2 ELSE mod)}
      [] rmf = 5 /\ mod = 0 -> {<<d[1], Mem(<<Atom(1, Small("rip")), Atom(1, UNum(CHOOSE v \in d[2] : TRUE))>>)>> :
                                  d \in Disp(bs, n, 2)}
      [] OTHER -> {<<d[1], MemText({rmf + 8 * b}, {}, 1, d[2])>> : d \in Disp(bs, n, mod)}

\* The operand is followed by an immediate, by a register, or by nothing.
x86_decode_rm(bs, n, op, reg, dig, o) ==
    CASE op \in {129, 199} -> Need(bs, n, 4, Line(n + 4, <<x86_digit_name[op][dig + 1], o, UNum(Imm32(bs, n))>>))
      [] op = 193 -> Need(bs, n, 1, Line(n + 1, <<x86_digit_name[op][dig + 1], o, UNum(bs[n + 1])>>))
      [] op \in {247, 255} -> Line(n, <<x86_digit_name[op][dig + 1], o>>)
      [] op \in DOMAIN x86_rm_name -> Line(n, <<x86_rm_name[op], Reg(reg), o>>)
      [] op \in DOMAIN x86_mr_name -> Line(n, <<x86_mr_name[op], o, Reg(reg)>>)

x86_decode_modrm(bs, n, op, r, x, b) ==
    LET modrm == bs[n + 1]
        mod == modrm \div 64    regf == (modrm \div 8) % 8    rmf == modrm % 8
        operands == IF mod = 3 THEN {<<n + 1, Reg(rmf + 8 * b)>>}
                               ELSE x86_decode_mem(bs, n + 1, mod, rmf, x, b)
    IN  Need(bs, n, 1,
             IF operands = {} THEN NoLine
             ELSE LET o == CHOOSE q \in operands : TRUE
                  IN  x86_decode_rm(bs, o[1], op, regf + 8 * r, regf, o[2]))

x86_decode(pc, bs) ==
    LET rex == Len(bs) >= 1 /\ bs[1] \div 16 = 4
        bit(i) == IF rex THEN (bs[1] \div 2 ^ i) % 2 ELSE 0
        w == bit(3)    r == bit(2)    x == bit(1)    b == bit(0)
        n == IF rex THEN 2 ELSE 1
        op == bs[n]
    IN  CASE n > Len(bs) -> NoLine
          [] OTHER ->
             CASE op \in DOMAIN x86_plain \cup {205, 228, 230, 232, 233, 236, 238} -> x86_decode_one(pc, bs, n, op)
               [] op \in 80 .. 87 -> Line(n, <<"push", Reg(op - 80 + 8 * b)>>)
               [] op \in 88 .. 95 -> Line(n, <<"pop", Reg(op - 88 + 8 * b)>>)
               [] op \in 184 .. 191 /\ w = 1 ->
                    Need(bs, n, 8, Line(n + 8, <<"mov", Reg(op - 184 + 8 * b), Wide(Imm32(bs, n + 4), Imm32(bs, n))>>))
               [] op = 15 -> x86_decode_0f(pc, bs, n, r, b)
               [] op \in DOMAIN x86_mr_name \cup DOMAIN x86_rm_name \cup DOMAIN x86_digit_name ->
                    x86_decode_modrm(bs, n, op, r, x, b)
               [] OTHER -> Line(n, <<".byte", UNum(op)>>)
=============================================================================
