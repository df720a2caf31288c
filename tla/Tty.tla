--------------------------------- MODULE Tty ---------------------------------
(***************************************************************************)
(* include/rivet/tty.h: the line discipline.  Its ring is the bounded FIFO *)
(* that module Ring implements; screen is the line that the UART's echo    *)
(* shows, a backspace moving left and a blank wiping what it is on.        *)
(***************************************************************************)
EXTENDS Integers, Sequences, FiniteSetsExt

CONSTANTS RIV_TTY_BUF_SZ,
          RING_ROOM,        \* what the ring holds: the size of ring_buf
          TtyChars          \* ordinary characters

ASSUME TtyAssumption == RING_ROOM \in Nat /\ RIV_TTY_BUF_SZ \in Nat

VARIABLES tty_mode, line, tty_ring,
          screen,           \* the current line of the screen
          expected,         \* what the reader is owed: what the screen showed, line by line
          mixed             \* the program wrote into the line being typed

tty_vars == <<tty_mode, line, tty_ring, screen, expected, mixed>>

riv_tty_init(modes) ==
    /\ tty_mode \in modes /\ line = <<>> /\ tty_ring = <<>>
    /\ screen = <<>> /\ expected = <<>> /\ mixed = FALSE

\* Bytes pushed one by one: those that find the ring full are dropped.
PushAll(new) == tty_ring' = SubSeq(tty_ring \o new, 1, Min({RING_ROOM, Len(tty_ring) + Len(new)}))

\* The reader is owed as much of what is entered as there is room for.
Owe(shown) == expected' = SubSeq(expected \o shown, 1, Min({RING_ROOM, Len(expected) + Len(shown)}))

PushRaw(c) ==
    /\ tty_mode = "raw" /\ PushAll(<<c>>) /\ Owe(<<c>>)
    /\ UNCHANGED <<tty_mode, line, screen, mixed>>

\* '\b' or 0x7F
PushErase ==
    /\ tty_mode = "cooked" /\ line # <<>> /\ line' = SubSeq(line, 1, Len(line) - 1)
    /\ screen' = IF screen = <<>> THEN screen ELSE SubSeq(screen, 1, Len(screen) - 1)
    /\ UNCHANGED <<tty_mode, tty_ring, expected, mixed>>

\* '\r' or '\n'
PushEnter ==
    /\ tty_mode = "cooked" /\ PushAll(Append(line, "newline"))
    /\ line' = <<>> /\ screen' = <<>> /\ mixed' = FALSE
    /\ Owe(Append(IF mixed THEN line ELSE screen, "newline"))
    /\ UNCHANGED tty_mode

PushChar(c) ==
    /\ tty_mode = "cooked" /\ Len(line) + 1 < RIV_TTY_BUF_SZ
    /\ line' = Append(line, c) /\ screen' = Append(screen, c)
    /\ UNCHANGED <<tty_mode, tty_ring, expected, mixed>>

riv_tty_push(c) == PushRaw(c) \/ PushChar(c)

riv_tty_read(n) ==
    /\ tty_ring # <<>>
    /\ LET got == Min({n, Len(tty_ring)}) IN
         /\ tty_ring' = SubSeq(tty_ring, got + 1, Len(tty_ring))
         /\ expected' = SubSeq(expected, got + 1, Len(expected))
    /\ UNCHANGED <<tty_mode, line, screen, mixed>>

riv_tty_write(c) ==
    /\ tty_mode = "cooked" /\ ~mixed /\ mixed' = TRUE /\ screen' = Append(screen, c)
    /\ UNCHANGED <<tty_mode, line, tty_ring, expected>>

TtyNext ==
    \/ \E c \in TtyChars : riv_tty_push(c) \/ riv_tty_write(c)
    \/ PushErase \/ PushEnter
    \/ \E n \in 1 .. RING_ROOM : riv_tty_read(n)

-----------------------------------------------------------------------------
\* While the program is silent, the screen shows the line being edited, to the
\* character, also when the line is full or is erased past its start.
ScreenShowsLine == tty_mode = "cooked" /\ ~mixed => screen = line

\* The reader gets the lines as the screen showed them when they were entered, in
\* order and each ended by one newline, also before and after the ring was full.
\* A line that finds too little room loses its end, the newline first: what is
\* entered next then follows on the same line.
ReaderGetsLines == tty_ring = expected

\* What riv_tty_push echoes is what riv_tty_read gives.
ReadAsShown == ScreenShowsLine /\ ReaderGetsLines
=============================================================================
