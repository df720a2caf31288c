-------------------------------- MODULE Arch --------------------------------
(***************************************************************************)
(* src/arch/arch.h and the services rivet-as.c gives to its backends:      *)
(* operand tokens, values, symbol look-up and little-endian output.        *)
(*                                                                         *)
(* A token is what the tokenizer's string stands for.  A parser returns a  *)
(* set: the one value it reads, or no value where the code calls           *)
(* riv_as_die.  A set constructor over parsers is then empty as soon as    *)
(* one of them dies, whichever it is.                                      *)
(***************************************************************************)
EXTENDS Integers, Sequences, FiniteSets, FiniteSetsExt

\* A riv_i64 is hi * 2^32 + (lo mod 2^32), hi and lo being riv_i32.  A riv_u32
\* is named by the riv_i32 with the same bits.
Value(v) == [hi |-> IF v < 0 THEN -1 ELSE 0, lo |-> v]
Unsigned(u) == [hi |-> 0, lo |-> u]
FitsI32(x) == x.hi = (IF x.lo < 0 THEN -1 ELSE 0)

Num(v) == [k |-> "num", v |-> Value(v)]          \* -8, 0x10
UNum(u) == [k |-> "num", v |-> Unsigned(u)]      \* printed with 0x%x
Wide(h, l) == [k |-> "num", v |-> [hi |-> h, lo |-> l]]
Sym(n) == [k |-> "sym", n |-> n]                 \* a label or .equ name
Reg(r) == [k |-> "reg", r |-> r]                 \* a general register
Off(t, r) == [k |-> "off", imm |-> t, r |-> r]   \* imm(reg)
Flags(S) == [k |-> "flags", s |-> S]             \* iorw of a fence
Mem(as) == [k |-> "mem", atoms |-> as]           \* [base + index*scale - 8]
Atom(sign, t) == [sign |-> sign, t |-> t]
Scaled(r, s) == [k |-> "scaled", r |-> r, s |-> s]
Small(n) == [k |-> "small", n |-> n]             \* al, dx
Text(bs) == [k |-> "text", bytes |-> bs]         \* a quoted string

\* The assembler as a backend sees it: which pass, the symbols known so far,
\* riv_as_pc and riv_as_base.
Env(pass, syms, pc, base) ==
    [pass |-> pass, syms |-> syms, pc |-> pc, base |-> base]

\* A token that is no number is looked up as a symbol.  An unknown one is 0
\* in pass 0, where it may be defined further down, and fatal in pass 1.
riv_as_parse_imm(t, e) ==
    CASE t.k = "num" -> {t.v}
      [] t.k = "sym" /\ t.n \in DOMAIN e.syms -> {Unsigned(e.syms[t.n])}
      [] OTHER -> IF e.pass = 0 THEN {Value(0)} ELSE {}

\* The i-th operand, as the set of none or one token.
Operand(tok, i) == IF i + 1 <= Len(tok) THEN {tok[i + 1]} ELSE {}
ImmAt(tok, i, e) == UNION {riv_as_parse_imm(t, e) : t \in Operand(tok, i)}
RegAt(tok, i, n) == {t.r : t \in {u \in Operand(tok, i) : u.k = "reg" /\ u.r < n}}

-----------------------------------------------------------------------------
(* Output: the n low bytes of a riv_i32, and machine words as bit sets.    *)

Bytes(v, n) == [i \in 1 .. n |-> (v \div 256 ^ (i - 1)) % 256]
riv_as_emit_u16(x) == Bytes(x.lo, 2)
riv_as_emit_u32(x) == Bytes(x.lo, 4)
riv_as_emit_u64(x) == Bytes(x.lo, 4) \o Bytes(x.hi, 4)

\* Bits lo .. lo+n-1 of v, moved to position at.
Field(v, lo, n, at) == {at + j : j \in {i \in 0 .. n - 1 : (v \div 2 ^ (lo + i)) % 2 = 1}}
\* The number in bits lo .. lo+n-1 of the word w.
Bits(w, lo, n) == MapThenSumSet(LAMBDA j : 2 ^ j, {i \in 0 .. n - 1 : lo + i \in w})
WordBytes(w) == [i \in 1 .. 4 |-> Bits(w, 8 * (i - 1), 8)]
BytesWord(bs) == UNION {Field(bs[i], 0, 8, 8 * (i - 1)) : i \in 1 .. 4}
\* The riv_i32 of four little-endian bytes.
BytesI32(bs) == bs[1] + 256 * bs[2] + 65536 * bs[3]
                + 16777216 * (IF bs[4] < 128 THEN bs[4] ELSE bs[4] - 256)

\* What a disassembler returns: the bytes it consumed and what it printed.
Line(n, text) == [n |-> n, text |-> text]
NoLine == Line(0, <<>>)
=============================================================================
