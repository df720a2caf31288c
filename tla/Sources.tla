------------------------------ MODULE Sources --------------------------------
(***************************************************************************)
(* The source files on which the tools are checked.                        *)
(***************************************************************************)
EXTENDS Disas

One(tok) == <<Stmt(<<>>, tok)>>

\* Every RV32 instruction, with registers at both ends of the file, immediates
\* at both ends of their range, and branches that use every bit of an offset.
RvRegs == {Reg(1), Reg(30)}
RvImms == {Num(-2048), Num(-1), Num(0), Num(1365), Num(2047)}
RvFiles ==
    UNION {CASE ix[2] = "R" -> {One(<<ix[1], d, Reg(21), s>>) : d \in RvRegs, s \in RvRegs}
             [] ix[2] = "I" -> {One(<<ix[1], d, Reg(10), v>>) : d \in RvRegs, v \in RvImms}
             [] ix[2] = "SHIFT" -> {One(<<ix[1], Reg(5), Reg(10), Num(v)>>) : v \in {0, 1, 31}}
             [] ix[2] \in {"LOAD", "STORE"} -> {One(<<ix[1], d, Off(v, 2)>>) : d \in RvRegs, v \in RvImms}
             [] ix[2] = "BRANCH" -> {One(<<ix[1], Reg(1), Reg(30), Num(v)>>) :
                                       v \in {-4096, -2048, -2, 0, 30, 2016, 2048, 4094}}
             [] ix[2] = "JAL" -> {One(<<ix[1], d, Num(v)>>) :
                                       d \in RvRegs, v \in {-1048576, -2, 2046, 2048, 4096, 1044480, 1048574}}
             [] ix[2] = "JALR" -> {One(<<ix[1], Reg(1), Off(v, 5)>>) : v \in RvImms}
                                    \cup {One(<<ix[1], Reg(1), Reg(5), v>>) : v \in RvImms}
             [] ix[2] = "U" -> {One(<<ix[1], d, Num(v)>>) : d \in RvRegs, v \in {0, 1, 524288, 1048575}}
             [] ix[2] = "SYS" -> {One(<<ix[1]>>)}
             [] ix[2] = "FENCE" -> {One(<<ix[1]>>)} : ix \in rv_isa}
    \cup {One(<<"nop">>), One(<<"ret">>), One(<<"mv", Reg(3), Reg(4)>>), One(<<"li", Reg(31), Num(-2048)>>),
          One(<<"j", Num(-4)>>), One(<<"fence", Flags({"i", "o", "r", "w"}), Flags({"w"})>>)}

\* The x86_64 memory operands with a base, and the instructions around them.
X86Bases == {0, 4, 5, 7, 12, 13}
X86Disps == {<<>>} \cup {<<Atom(1, Num(v))>> : v \in {0, 127, 128, 100000}}
                   \cup {<<Atom(-1, Num(v))>> : v \in {128, 129}}
X86Indexes == {<<>>, <<Atom(1, Reg(5))>>}
              \cup {<<Atom(1, Scaled(r, Num(s)))>> : r \in {0, 5, 12, 13}, s \in {1, 2, 8}}
X86Mems == {Mem(<<Atom(1, Reg(b))>> \o i \o d) : b \in X86Bases, i \in X86Indexes, d \in X86Disps}
X86Some == {Mem(<<Atom(1, Reg(5))>>), Mem(<<Atom(1, Scaled(9, Num(4))), Atom(1, Reg(15)), Atom(-1, Num(8))>>)}
X86Arith == DOMAIN x86_arith_mr_opcode
X86Files ==
    {One(<<"mov", Reg(9), m>>) : m \in X86Mems}
    \cup {One(<<n>>) : n \in DOMAIN x86_zero}
    \cup {One(<<n, Reg(r)>>) : n \in {"push", "pop", "inc", "dec", "neg", "not", "mul", "div", "idiv"}, r \in {0, 7, 8}}
    \cup {One(<<n, Reg(d), Reg(s)>>) : n \in X86Arith \cup {"mov", "xchg", "imul"}, d \in {2, 13}, s \in {1, 8}}
    \cup {One(<<n, m, Reg(10)>>) : n \in X86Arith \cup {"mov"}, m \in X86Some}
    \cup {One(<<n, Reg(3), m>>) : n \in X86Arith \cup {"lea"}, m \in X86Some}
    \cup {One(<<n, Reg(r), Num(v)>>) : n \in X86Arith \cup {"mov"}, r \in {0, 12}, v \in {-1, 0, 2147483647}}
    \cup {One(<<"mov", Reg(r), Wide(h, 5)>>) : r \in {1, 9}, h \in {-2, 1}}
    \cup {One(<<"mov", m, Num(-7)>>) : m \in X86Some}
    \cup {One(<<n, Reg(r), Num(v)>>) : n \in {"shl", "shr", "sar"}, r \in {6, 14}, v \in {1, 63}}
    \cup {One(<<n, Num(v)>>) : n \in ToSet(Jcc) \cup DOMAIN JccAlias \cup {"jmp", "call"}, v \in {-70000, 3}}
    \cup {One(<<"int", Num(128)>>), One(<<"in", Small("al"), Small("dx")>>), One(<<"in", Small("al"), Num(255)>>),
          One(<<"out", Small("dx"), Small("al")>>), One(<<"out", Num(96), Small("al")>>), One(<<"frob">>)}

\* Files of several lines, where the passes matter: labels before and after
\* their use, sizes that depend on symbols, .org in both directions.  The last
\* label names the end of the file.
Both == {Stmt(<<"a">>, <<>>), Stmt(<<>>, <<".equ", Sym("k"), Num(3)>>),
         Stmt(<<>>, <<".zero", Sym("k"), Num(204)>>), Stmt(<<>>, <<".align", Num(4)>>),
         Stmt(<<>>, <<".org", Sym("a")>>), Stmt(<<>>, <<".word", Sym("z")>>)}
RvLines == Both \cup {Stmt(<<"b">>, <<"nop">>), Stmt(<<>>, <<"j", Sym("b")>>), Stmt(<<>>, <<"lw", Reg(1), Off(Sym("k"), 2)>>)}
X86Lines == Both \cup {Stmt(<<"b">>, <<"mov", Reg(0), Sym("z")>>), Stmt(<<>>, <<"jnz", Sym("b")>>),
                       Stmt(<<>>, <<"lea", Reg(8), Mem(<<Atom(1, Reg(4)), Atom(-1, Sym("k"))>>)>>)}
End == Stmt(<<"y", "z">>, <<>>)
FilesOf(lines) == {<<x, End>> : x \in lines} \cup {<<x, y, End>> : x \in lines, y \in lines}
                  \cup {<<x, y, w, End>> : x \in lines, y \in lines, w \in lines}
\* A symbol set from one before it, beside it, behind it, itself, or none.
SetFiles ==
    {<<Stmt(<<"b">>, <<"nop">>), Stmt(<<"c">>, <<d, Sym("n"), v>>), Stmt(<<>>, <<".word", Sym("n")>>), Stmt(<<"z">>, <<>>)>> :
       d \in {".equ", ".set"}, v \in {Num(7), Sym("b"), Sym("c"), Sym("z"), Sym("n"), Sym("lost")}}
\* Each remaining directive, and ways to die.
DirectiveFiles ==
    {<<Stmt(<<>>, t), Stmt(<<"z">>, <<".byte", Num(1), Num(-1)>>)>> :
       t \in {<<".quad", Sym("z")>>, <<".half", Num(-2)>>, <<".short", Sym("z")>>, <<".ascii", Text(<<72, 105>>)>>,
              <<".asciz", Text(<<72>>)>>, <<".string", Num(3)>>, <<".p2align", Num(3)>>, <<".align", Num(0)>>,
              <<".align", Num(3)>>, <<".skip", Num(2)>>, <<".zero", Num(-1)>>, <<".zero">>, <<".text">>, <<".data">>,
              <<".global", Sym("z")>>, <<".set", Sym("k")>>, <<".arch", Small("rv32")>>, <<".arch", Small("z80")>>,
              <<".arch", Small("amd64")>>, <<OtherDirective>>, <<".org", Num(-4)>>, <<".org", Num(5)>>}}
=============================================================================
