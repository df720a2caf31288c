-------------------------------- MODULE Text ---------------------------------
(***************************************************************************)
(* include/rivet/str.h and its users: bounded copies and formatting, a     *)
(* line of the log (include/rivet/log.h) and the message of a panic        *)
(* (include/rivet/panic.h).  A character is its code and a format is the   *)
(* sequence of its directives, each with its argument.  A buffer is a      *)
(* function on its indices and one cell more, Unwritten at first.          *)
(***************************************************************************)
EXTENDS Integers, Sequences, FiniteSets, SequencesExt

CONSTANTS INT_MOD,   \* an int is one of -INT_MOD/2 .. INT_MOD/2 - 1
          TEXT_BUF,  \* the size of a buffer; 256 in the log and in a panic
          Formats,   \* the formats in use
          Strings    \* the strings in use: names of files, tags, messages

Unwritten == -1
NUL == 0
NULL_STRING == <<NUL>>    \* stands for the null pointer
NEWLINE == 10
Fresh == [i \in 0 .. TEXT_BUF |-> Unwritten]

-----------------------------------------------------------------------------
(* Numbers                                                                 *)

RECURSIVE Digits(_, _, _)
Digits(v, base, a) ==
    (IF v \div base = 0 THEN <<>> ELSE Digits(v \div base, base, a))
    \o <<IF v % base < 10 THEN 48 + (v % base) ELSE a + (v % base) - 10>>
riv_u64_to_str(v, base, upper) ==
    IF base < 2 \/ base > 16 THEN <<>> ELSE Digits(v, base, IF upper THEN 65 ELSE 97)

Wrapped(v) == ((v + (INT_MOD \div 2)) % INT_MOD) - (INT_MOD \div 2)
\* Computed in the number's own width.
Magnitude(v) == Wrapped(-(v + 1)) + 1
riv_i64_to_str(v) ==
    IF v < 0 THEN <<45>> \o riv_u64_to_str(Magnitude(v), 10, FALSE) ELSE riv_u64_to_str(v, 10, FALSE)

-----------------------------------------------------------------------------
(* Formatting                                                              *)

\* What one directive puts out, before it is padded.
Piece(d) ==
    CASE d.conv = "d" -> riv_i64_to_str(d.arg)
      [] d.conv = "u" -> riv_u64_to_str(d.arg % INT_MOD, 10, FALSE)
      [] d.conv = "x" -> riv_u64_to_str(d.arg % INT_MOD, 16, FALSE)
      [] d.conv = "X" -> riv_u64_to_str(d.arg % INT_MOD, 16, TRUE)
      [] d.conv = "p" -> <<48, 120>> \o riv_u64_to_str(d.arg, 16, FALSE)
      [] d.conv = "s" -> IF d.arg = NULL_STRING THEN <<40, 110, 117, 108, 108, 41>> ELSE d.arg
      [] d.conv = "c" -> <<d.arg>>
      [] d.conv = "%" -> <<37>>
      [] OTHER -> <<37, d.arg>>

\* A character outside a directive is a piece of its own.
Emitted(d) == IF d.conv = "plain" THEN <<d.arg>>
          ELSE [i \in 1 .. Max({0, d.width - Len(Piece(d))}) |-> IF d.zero THEN 48 ELSE 32] \o Piece(d)
Whole(fmt) == FlattenSeq([k \in DOMAIN fmt |-> Emitted(fmt[k])])

\* The characters of s that have room are stored at buf + at, then the end.
Landed(mem, at, cap, s) ==
    [i \in DOMAIN mem |->
        CASE cap > 0 /\ i = at + Min({Len(s), cap - 1}) -> NUL
          [] i - at \in 0 .. Min({Len(s), cap - 1}) - 1 -> s[i - at + 1]
          [] OTHER -> mem[i]]
riv_vsnprintf(mem, at, cap, fmt) == [mem |-> Landed(mem, at, cap, Whole(fmt)), n |-> Len(Whole(fmt))]

\* A string that ends before the room does is followed by a second end.
Copied(mem, s, cap) ==
    [mem |-> IF cap = 0 THEN mem
             ELSE [i \in DOMAIN mem |-> IF i < Min({Len(s), cap - 1}) THEN s[i + 1]
                                        ELSE IF i = Min({Len(s), cap - 1}) \/ (i = Len(s) + 1 /\ Len(s) < cap - 1)
                                             THEN NUL ELSE mem[i]],
     n |-> Len(s)]

Str(s) == [conv |-> "s", zero |-> FALSE, width |-> 0, arg |-> s]
Plain(s) == [k \in DOMAIN s |-> [conv |-> "plain", arg |-> s[k]]]

-----------------------------------------------------------------------------
VARIABLES text,      \* the last use: what was asked for and what came of it
          log_sink,  \* a sink is set
          log_min

text_vars == <<text, log_sink, log_min>>

TextInit == text = [use |-> "none"] /\ log_sink = FALSE /\ log_min = 2

StrCopy == \E s \in Strings, cap \in 0 .. TEXT_BUF :
    /\ LET r == Copied(Fresh, s, cap)
       IN  text' = [use |-> "string", whole |-> s, cap |-> cap, mem |-> r.mem, n |-> r.n]
    /\ UNCHANGED <<log_sink, log_min>>

riv_snprintf == \E f \in Formats, cap \in 0 .. TEXT_BUF :
    /\ LET r == riv_vsnprintf(Fresh, 0, cap, f)
       IN  text' = [use |-> "string", whole |-> Whole(f), cap |-> cap, mem |-> r.mem, n |-> r.n]
    /\ UNCHANGED <<log_sink, log_min>>

PrintInt == \E v \in Wrapped(INT_MOD \div 2) .. INT_MOD \div 2 - 1 :
    text' = [use |-> "int", v |-> v, out |-> riv_i64_to_str(v)] /\ UNCHANGED <<log_sink, log_min>>

riv_log_set_sink == log_sink' \in BOOLEAN /\ UNCHANGED <<text, log_min>>
riv_log_set_level == log_min' \in 0 .. 3 /\ UNCHANGED <<text, log_sink>>

\* "[ERR ] ", "[WARN] ", "[INFO] " and "[DBG ] ", told apart by one character.
Tags(lv) == <<91, 48 + lv, 93, 32>>

\* Mutant of Line: the newline is put where the formatter counted to.
LineUncut(lv, tag, fmt) ==
    LET head == riv_vsnprintf(Fresh, 0, TEXT_BUF, <<Str(Tags(lv)), Str(tag)>> \o Plain(<<58, 32>>))
        n == Min({head.n, TEXT_BUF - 1})
        body == riv_vsnprintf(head.mem, n, TEXT_BUF - n, fmt)
        total == Min({n + body.n, TEXT_BUF - 1})
    IN  [mem |-> [body.mem EXCEPT ![total] = NEWLINE], len |-> total + 1]

\* The prefix, then the message after it, then a newline, all in one buffer.
Line(lv, tag, fmt) ==
    LET head == riv_vsnprintf(Fresh, 0, TEXT_BUF, <<Str(Tags(lv)), Str(tag)>> \o Plain(<<58, 32>>))
        n == Min({head.n, TEXT_BUF - 1})
        body == riv_vsnprintf(head.mem, n, TEXT_BUF - n, fmt)
        total == IF n + body.n >= TEXT_BUF - 1 THEN TEXT_BUF - 2 ELSE n + body.n
    IN  [mem |-> [body.mem EXCEPT ![total] = NEWLINE], len |-> total + 1]

riv_logv == \E lv \in 0 .. 3, tag \in Strings, fmt \in Formats :
    /\ log_sink /\ lv <= log_min
    /\ LET l == Line(lv, tag, fmt)
       IN  text' = [use |-> "line", lv |-> lv, whole |-> Tags(lv) \o tag \o <<58, 32>> \o Whole(fmt),
                    mem |-> l.mem, len |-> l.len]
    /\ UNCHANGED <<log_sink, log_min>>

\* "\n*** RIVET PANIC: %s @ %s:%d ***\n", with its words left out.
PanicText(msg, file, n) ==
    <<[conv |-> "plain", arg |-> NEWLINE], Str(msg)>> \o Plain(<<64>>) \o <<Str(IF file = NULL_STRING THEN <<63>> ELSE file)>>
    \o Plain(<<58>>)
    \o <<[conv |-> "d", zero |-> FALSE, width |-> 0, arg |-> n]>> \o Plain(<<NEWLINE>>)
\* What the UART and the debug console are given; the machine then halts.
riv_panic_handler == \E msg \in Strings \cup {NULL_STRING}, file \in Strings \cup {NULL_STRING}, n \in {1, 12} :
    /\ LET r == riv_vsnprintf(Fresh, 0, TEXT_BUF, PanicText(msg, file, n))
       IN  text' = [use |-> "panic", whole |-> Whole(PanicText(msg, file, n)), mem |-> r.mem,
                    len |-> IF r.n >= TEXT_BUF THEN TEXT_BUF - 1 ELSE r.n]
    /\ UNCHANGED <<log_sink, log_min>>

\* Every use has a buffer of its own, so one use of the sink and level that are
\* set shows all there is to see.
TextNext ==
    /\ text.use = "none"
    /\ \/ StrCopy \/ riv_snprintf \/ PrintInt \/ riv_log_set_sink \/ riv_log_set_level
       \/ riv_logv \/ riv_panic_handler

-----------------------------------------------------------------------------
\* The first k cells of a buffer, and the cut that leaves room for what follows.
Cells(mem, k) == [i \in 1 .. k |-> mem[i - 1]]
Cut(s, k) == SubSeq(s, 1, Min({k, Len(s)}))

\* riv_strlcpy and riv_vsnprintf store the longest beginning that fits with
\* its end, return the length of the whole, and write nothing past cap.
StringsFit ==
    text.use = "string" =>
        /\ text.n = Len(text.whole)
        /\ text.cap > 0 => LET s == Cut(text.whole, text.cap - 1)
                           IN  Cells(text.mem, Len(s) + 1) = Append(s, NUL)
        /\ \A i \in text.cap .. TEXT_BUF : text.mem[i] = Unwritten

\* A decimal reads back as the number it was written for.
Value(ds) == FoldLeft(LAMBDA acc, c : 10 * acc + c - 48, 0, ds)
IntsReadBack ==
    text.use = "int" =>
        text.v = IF text.out[1] = 45 THEN -Value(Tail(text.out)) ELSE Value(text.out)

\* What the sink is given is a line: prefix and message, cut where the buffer
\* ends, and one newline after them.  What a panic puts out is the longest
\* beginning of its message that the buffer holds.
LinesWhole ==
    /\ text.use = "line" => Cells(text.mem, text.len) = Append(Cut(text.whole, TEXT_BUF - 2), NEWLINE)
    /\ text.use = "panic" => Cells(text.mem, text.len) = Cut(text.whole, TEXT_BUF - 1)
    /\ text.use \in {"line", "panic"} => text.mem[TEXT_BUF] = Unwritten
=============================================================================
