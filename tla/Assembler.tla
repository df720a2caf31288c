------------------------------ MODULE Assembler -----------------------------
(***************************************************************************)
(* src/rivet-as.c: the two-pass assembler.  A source file is a sequence of *)
(* statements: the labels of a line and its other tokens, the first one    *)
(* the mnemonic or directive.  Every action is one call of process_line,   *)
(* labels included; a call that reaches riv_as_die ends the program        *)
(* without an output file.                                                 *)
(***************************************************************************)
EXTENDS Riscv, X86

CONSTANTS MAX_SYM,    \* entries of symtab
          MAX_PROG    \* bytes of prog

VARIABLES src, march, base,   \* the input file and the -m and -b options
          pass, line,         \* riv_as_pass and the next line of the file
          asm,                \* riv_as_pc, prog up to g_max_pc, symtab, g_arch_as
          as_status,          \* "run", "died" or "done"
          loose               \* ghost: the first line whose size may differ between the passes

as_vars == <<src, march, base, pass, line, asm, as_status, loose>>

Stmt(labels, tok) == [labels |-> labels, tok |-> tok]

pick_arch(n) == CASE n \in {"riscv32", "rv32"} -> {"riscv32"}
                  [] n \in {"x86_64", "amd64"} -> {"x86_64"}
                  [] OTHER -> {}

\* main up to the first pass: -m is known, and riscv32 without it.
AsInit(files, options, bases) ==
    /\ src \in files
    /\ march \in UNION {pick_arch(o) : o \in options}
    /\ base \in bases
    /\ pass = 0
    /\ line = 1
    /\ asm = [pc |-> 0, prog |-> <<>>, syms |-> <<>>, arch |-> march]
    /\ as_status = "run"
    /\ loose = Len(src) + 1

-----------------------------------------------------------------------------
(* What one call does to asm: the set of its one outcome, or none.         *)

\* bs written at offset at: over what is there, or past the end.
Overwrite(p, at, bs) ==
    [i \in 1 .. Max({Len(p), at + Len(bs)}) |-> IF i \in at + 1 .. at + Len(bs) THEN bs[i - at] ELSE p[i]]

riv_as_emit(a, bs) ==
    IF a.pc + Len(bs) > MAX_PROG THEN {}
    ELSE {[a EXCEPT !.prog = Overwrite(a.prog, a.pc, bs), !.pc = @ + Len(bs)]}

riv_as_sym_set(syms, n, v) ==
    IF n \in DOMAIN syms \/ Cardinality(DOMAIN syms) >= MAX_SYM THEN {} ELSE {(n :> v) @@ syms}

\* Mutant of Labels: the base address is left out.
LabelsUnbased(a, ls) ==
    IF pass = 1 THEN {a}
    ELSE {[a EXCEPT !.syms = s] :
            s \in FoldLeft(LAMBDA S, n : UNION {riv_as_sym_set(t, n, a.pc) : t \in S}, {a.syms}, ls)}

\* The labels of the line name its address; only in pass 0.
Labels(a, ls) ==
    IF pass = 1 THEN {a}
    ELSE {[a EXCEPT !.syms = s] :
            s \in FoldLeft(LAMBDA S, n : UNION {riv_as_sym_set(t, n, a.pc + base) : t \in S}, {a.syms}, ls)}

EnvOf(a) == Env(pass, a.syms, a.pc, base)

\* The values of all operands, in order.
Values(tok, e) ==
    IF \E i \in 2 .. Len(tok) : riv_as_parse_imm(tok[i], e) = {} THEN {}
    ELSE {[i \in 1 .. Len(tok) - 1 |-> CHOOSE v \in riv_as_parse_imm(tok[i + 1], e) : TRUE]}

Zeros(n) == [i \in 1 .. n |-> 0]

\* Forward, the gap is filled with zeros; backward, later lines overwrite.
\* A target below the base is a huge riv_u32, which no program can hold.
org(a, tok) ==
    UNION {IF v.lo - base \in 0 .. a.pc THEN {[a EXCEPT !.pc = v.lo - base]}
           ELSE IF v.lo - base \in a.pc .. MAX_PROG THEN riv_as_emit(a, Zeros(v.lo - base - a.pc)) ELSE {} :
             v \in ImmAt(tok, 1, EnvOf(a))}

data(a, tok) ==
    UNION {riv_as_emit(a, FlattenSeq([i \in 1 .. Len(vs) |->
              CASE tok[1] = ".word" -> riv_as_emit_u32(vs[i])
                [] tok[1] = ".quad" -> riv_as_emit_u64(vs[i])
                [] tok[1] = ".byte" -> Bytes(vs[i].lo, 1)
                [] tok[1] \in {".half", ".short"} -> riv_as_emit_u16(vs[i])])) :
             vs \in Values(tok, EnvOf(a))}

zero(a, tok) ==
    UNION {IF vs[1].lo \notin 0 .. MAX_PROG THEN {}
           ELSE riv_as_emit(a, [i \in 1 .. vs[1].lo |-> IF Len(vs) >= 2 THEN vs[2].lo % 256 ELSE 0]) :
             vs \in {us \in Values(tok, EnvOf(a)) : Len(us) >= 1}}

ascii(a, tok) ==
    UNION {riv_as_emit(a, o.bytes \o (IF tok[1] = ".ascii" THEN <<>> ELSE <<0>>)) :
             o \in {u \in Operand(tok, 1) : u.k = "text"}}

\* Zeros up to the next offset without a bit of the mask.
pad_to(a, mask) ==
    LET ends == {p \in a.pc .. MAX_PROG : Field(p, 0, 31, 0) \cap mask = {}}
    IN  IF ends = {} THEN {} ELSE riv_as_emit(a, Zeros(Min(ends) - a.pc))
align(a, tok) ==
    UNION {pad_to(a, IF v.lo = 0 THEN {} ELSE Field(v.lo - 1, 0, 31, 0)) : v \in ImmAt(tok, 1, EnvOf(a))}
p2align(a, tok) == UNION {pad_to(a, 0 .. (v.lo % 32) - 1) : v \in ImmAt(tok, 1, EnvOf(a))}

equ(a, tok) ==
    IF pass = 1 THEN {b \in {a} : Len(tok) >= 3}
    ELSE {[a EXCEPT !.syms = s] :
            s \in UNION {riv_as_sym_set(a.syms, tok[2].n, v.lo) : v \in ImmAt(tok, 2, EnvOf(a))}}

arch_directive(a, tok) ==
    {[a EXCEPT !.arch = n] : n \in UNION {pick_arch(o.n) : o \in Operand(tok, 1)}}

instruction(a, tok) ==
    UNION {riv_as_emit(a, bs) :
             bs \in IF a.arch = "riscv32" THEN rv_encode(tok, EnvOf(a)) ELSE x86_encode(tok, EnvOf(a))}

-----------------------------------------------------------------------------
\* Ghost: the operands that decide how many bytes a line takes.
Sizing(a, tok) ==
    CASE tok = <<>> -> {}
      [] tok # <<>> /\ tok[1] \in {".org", ".zero", ".skip", ".align", ".p2align"} -> Operand(tok, 1)
      [] tok # <<>> /\ a.arch = "x86_64" /\ tok[1] = "mov" -> Operand(tok, 2)
      [] OTHER -> {}
MemOperands(a, tok) ==
    IF a.arch # "x86_64" THEN {}
    ELSE UNION {ToSet(o.atoms) : o \in {u \in Operand(tok, 1) \cup Operand(tok, 2) : u.k = "mem"}}
Guessed(a, tok) ==
    \E t \in Sizing(a, tok) \cup {x.t : x \in MemOperands(a, tok)} : t.k = "sym" /\ t.n \notin DOMAIN a.syms

\* process_line: the labels, then the rest of the line according to its first
\* token; no result means that the tool has died.
LineLeft == as_status = "run" /\ line <= Len(src)
Tok == src[line].tok
Mnemonic == IF Tok = <<>> THEN "" ELSE Tok[1]
Labelled == Labels(asm, src[line].labels)
Process(outs) ==
    /\ IF outs = {}
         THEN as_status' = "died" /\ UNCHANGED <<line, asm, loose>>
         ELSE /\ asm' \in outs
              /\ line' = line + 1
              /\ loose' = IF pass = 0 /\ Guessed(asm, Tok) THEN Min({loose, line}) ELSE loose
              /\ UNCHANGED as_status
    /\ UNCHANGED <<src, march, base, pass>>

Directives == {".text", ".data", ".org", ".word", ".quad", ".byte", ".half", ".short", ".zero", ".skip",
               ".ascii", ".asciz", ".string", ".align", ".p2align", ".global", ".globl", ".equ", ".set", ".arch"}
OtherDirective == ".other"   \* stands for all that start with a dot and are none of these

Nothing == LineLeft /\ Mnemonic \in {"", ".text", ".data", ".global", ".globl"} /\ Process(Labelled)
Org == LineLeft /\ Mnemonic = ".org" /\ Process(UNION {org(a, Tok) : a \in Labelled})
Data == LineLeft /\ Mnemonic \in {".word", ".quad", ".byte", ".half", ".short"}
        /\ Process(UNION {data(a, Tok) : a \in Labelled})
Zero == LineLeft /\ Mnemonic \in {".zero", ".skip"} /\ Process(UNION {zero(a, Tok) : a \in Labelled})
Ascii == LineLeft /\ Mnemonic \in {".ascii", ".asciz", ".string"} /\ Process(UNION {ascii(a, Tok) : a \in Labelled})
Align == LineLeft /\ Mnemonic = ".align" /\ Process(UNION {align(a, Tok) : a \in Labelled})
P2align == LineLeft /\ Mnemonic = ".p2align" /\ Process(UNION {p2align(a, Tok) : a \in Labelled})
Equ == LineLeft /\ Mnemonic \in {".equ", ".set"} /\ Process(UNION {equ(a, Tok) : a \in Labelled})
SetArch == LineLeft /\ Mnemonic = ".arch" /\ Process(UNION {arch_directive(a, Tok) : a \in Labelled})
Unknown == LineLeft /\ Mnemonic = OtherDirective /\ Process({})
Instruction == LineLeft /\ Mnemonic \notin Directives \cup {"", OtherDirective}
               /\ Process(UNION {instruction(a, Tok) : a \in Labelled})

\* The file is read again with riv_as_pc = 0; g_arch_as stays as the first
\* pass left it.
SecondPass ==
    /\ as_status = "run" /\ line > Len(src) /\ pass = 0
    /\ pass' = 1 /\ line' = 1
    /\ asm' = [asm EXCEPT !.pc = 0]
    /\ loose' = IF asm.arch # march THEN 1 ELSE loose
    /\ UNCHANGED <<src, march, base, as_status>>

\* The output is prog up to g_max_pc.
WriteOutput ==
    /\ as_status = "run" /\ line > Len(src) /\ pass = 1
    /\ as_status' = "done"
    /\ UNCHANGED <<src, march, base, pass, line, asm, loose>>

AsNext ==
    \/ Nothing \/ Org \/ Data \/ Zero \/ Ascii \/ Align \/ P2align
    \/ Equ \/ SetArch \/ Instruction \/ Unknown \/ SecondPass \/ WriteOutput
=============================================================================
