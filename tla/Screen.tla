------------------------------- MODULE Screen --------------------------------
(***************************************************************************)
(* include/rivet/fb.h: the linear framebuffer.  A row has pitch_px words   *)
(* in memory, of which the first width are shown; coordinates wrap at      *)
(* COORD_MOD (2^32 in the code), so that a rectangle may begin left of the *)
(* screen or above it.                                                     *)
(***************************************************************************)
EXTENDS Integers, Sequences, FiniteSets, SequencesExt

CONSTANTS FB_WIDTH, FB_HEIGHT, FB_PITCH,
          COORD_MOD,
          GLYPH,      \* the side of a character cell: 8 in the code
          Colors,
          Labelled,   \* the glyphs of the table, each under the code of the character its
                      \* comment names: the set of <<row, column>> that are lit
          FbStrings   \* the texts in use, as codes of characters

VARIABLES pixels,  \* the words of the surface, by their index
          shown    \* what a viewer expects of every visible pixel

fb_vars == <<pixels, shown>>

Visible == (0 .. FB_WIDTH - 1) \X (0 .. FB_HEIGHT - 1)
Black == 0

riv_fb_init ==
    /\ pixels = [i \in 0 .. FB_PITCH * FB_HEIGHT - 1 |-> Black]
    /\ shown = [p \in Visible |-> Black]

Wrap(n) == n % COORD_MOD

\* Mutant of Plot: the column is not compared with the width.
PlotUnclipped(mem, x, y, color) ==
    IF y >= FB_HEIGHT \/ y * FB_PITCH + x >= FB_PITCH * FB_HEIGHT THEN mem ELSE [mem EXCEPT ![y * FB_PITCH + x] = color]
Plot(mem, x, y, color) ==
    IF x >= FB_WIDTH \/ y >= FB_HEIGHT THEN mem ELSE [mem EXCEPT ![y * FB_PITCH + x] = color]

\* The cells of a w by h block, row by row, as the two loops visit them.
Block(w, h) == [k \in 1 .. w * h |-> <<(k - 1) % w, (k - 1) \div w>>]

Fill(mem, x, y, w, h, color) ==
    FoldLeft(LAMBDA m, c : Plot(m, Wrap(x + c[1]), Wrap(y + c[2]), color), mem, Block(w, h))

\* A glyph is stored at the index of the character it shows, the rest is blank.
riv_fb_font8x8 == [i \in 0 .. 95 |-> IF i \in DOMAIN Labelled THEN Labelled[i] ELSE {}]
Lit(c) == riv_fb_font8x8[IF c \in 32 .. 126 THEN c - 32 ELSE 0]
riv_fb_glyph(mem, x, y, c, fg, bg) ==
    FoldLeft(LAMBDA m, d : Plot(m, Wrap(x + d[1]), Wrap(y + d[2]), IF <<d[2], d[1]>> \in Lit(c) THEN fg ELSE bg),
             mem, Block(GLYPH, GLYPH))

\* Where a pixel lies in a block whose corner is at x, y.
Column(p, x) == Wrap(p[1] - x)
Row(p, y) == Wrap(p[2] - y)

\* The glyph that a text shows for c: not its own but that of the character 32
\* before it, as the table is stored by the character and read 32 lower.  A small
\* letter shows as its capital, a capital as a digit or a sign, and what is
\* below 64 as nothing.
Seen(c) ==
    LET before == {g \in DOMAIN Labelled : c <= 126 /\ g + 32 = c}
    IN  UNION {Labelled[g] : g \in before}

Coords == {0, 1, FB_WIDTH - 1, FB_WIDTH, COORD_MOD - 1}

riv_fb_plot == \E x, y \in Coords, c \in Colors :
    /\ pixels' = Plot(pixels, x, y, c)
    /\ shown' = [p \in Visible |-> IF p = <<x, y>> THEN c ELSE shown[p]]

riv_fb_clear == \E c \in Colors :
    /\ pixels' = [i \in DOMAIN pixels |-> IF i % FB_PITCH < FB_WIDTH THEN c ELSE pixels[i]]
    /\ shown' = [p \in Visible |-> c]

riv_fb_fill == \E x, y \in Coords, w, h \in 0 .. 3, c \in Colors :
    /\ pixels' = Fill(pixels, x, y, w, h, c)
    /\ shown' = [p \in Visible |-> IF Column(p, x) < w /\ Row(p, y) < h THEN c ELSE shown[p]]

riv_fb_puts == \E x, y \in Coords, s \in FbStrings, fg, bg \in Colors :
    /\ pixels' = FoldLeft(LAMBDA m, k : riv_fb_glyph(m, Wrap(x + GLYPH * (k - 1)), y, s[k], fg, bg),
                          pixels, [k \in DOMAIN s |-> k])
    /\ shown' = [p \in Visible |->
         IF Row(p, y) >= GLYPH \/ Column(p, x) >= GLYPH * Len(s) THEN shown[p]
         ELSE IF <<Row(p, y), Column(p, x) % GLYPH>> \in Seen(s[(Column(p, x) \div GLYPH) + 1]) THEN fg ELSE bg]

ScreenNext == riv_fb_plot \/ riv_fb_clear \/ riv_fb_fill \/ riv_fb_puts

-----------------------------------------------------------------------------
\* Every visible pixel has the colour of the last operation that covers it,
\* blocks that stick out are clipped and not folded back into another row, and
\* the words between the rows are never written.  Text is put where it was asked
\* for; what it shows is Seen, which is not what the comments of the table at
\* fb.h:58-91 promise: a text of capitals reads as signs and digits.
ScreenAsDrawn ==
    /\ \A p \in Visible : pixels[p[2] * FB_PITCH + p[1]] = shown[p]
    /\ \A i \in DOMAIN pixels : i % FB_PITCH >= FB_WIDTH => pixels[i] = Black
=============================================================================
