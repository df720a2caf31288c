--------------------------------- MODULE Kbd ---------------------------------
(***************************************************************************)
(* include/rivet/kbd.h: scancode set 1 to characters.  The keyboard        *)
(* (external) sends one or two bytes for a key going down or up.  The keys *)
(* are the modifiers, one of each row that prints and an extended one; a   *)
(* key that prints may repeat while it is held.                            *)
(***************************************************************************)
EXTENDS Tty

CONSTANTS KBD_QUEUE     \* bytes the controller holds for the driver

Key == [shift_l |-> 42, shift_r |-> 54, ctrl_l |-> 29, ctrl_r |-> 29, alt |-> 56, caps |-> 58,
        digit |-> 2, letter |-> 30, slash |-> 53, space |-> 57]
Extended == {"slash", "ctrl_r"}
Modifiers == {"shift_l", "shift_r", "ctrl_l", "ctrl_r", "alt", "caps"}
E0 == 224
Release == 128

VARIABLES st, bytes,
          got,          \* the last poll's character, or "none"
          down,         \* modifiers that are down
          locked,       \* caps lock, as its light would show
          meant,        \* for each of the bytes, the character its key was pressed for
          want,         \* that of the last byte polled
          pair          \* both shift keys, or both control keys, were down at once

kbd_vars == <<st, bytes, got, down, locked, meant, want, pair>>

KbdInit ==
    /\ st = [shift |-> FALSE, ctrl |-> FALSE, alt |-> FALSE, capslock |-> FALSE, ext |-> FALSE]
    /\ bytes = <<>> /\ got = "none"
    /\ down = {} /\ locked = FALSE /\ meant = <<>> /\ want = "none" /\ pair = FALSE

\* What is printed on the keys, without and with shift.
Legend == [digit |-> <<"1", "!">>, letter |-> <<"a", "A">>, slash |-> <<"/", "?">>, space |-> <<" ", " ">>]

\* The character of a key under the modifiers held: the upper one of the key under
\* shift or caps lock and not both, whichever the key; with control, the control
\* character of a small letter.
Meant(k) ==
    LET shifted == down \cap {"shift_l", "shift_r"} # {}
        c == Legend[k][IF shifted # locked THEN 2 ELSE 1]
    IN  IF down \cap {"ctrl_l", "ctrl_r"} # {} /\ c = "a" THEN "ctrl-a" ELSE c

\* External: the keyboard.
Send(k, up) ==
    LET code == Key[k] + (IF up THEN Release ELSE 0)
        char == IF up \/ k \in Modifiers THEN "none" ELSE Meant(k)
        sent == IF k \in Extended THEN <<E0, code>> ELSE <<code>>
    IN  /\ k \in Modifiers => (k \in down) = up
        /\ Len(bytes) + Len(sent) <= KBD_QUEUE /\ bytes' = bytes \o sent
        /\ meant' = meant \o (IF k \in Extended THEN <<"none", char>> ELSE <<char>>)
        /\ down' = IF up THEN down \ {k} ELSE down \cup ({k} \cap Modifiers)
        /\ locked' = (locked # (k = "caps" /\ ~up))
        /\ pair' = (pair \/ {"shift_l", "shift_r"} \subseteq down' \/ {"ctrl_l", "ctrl_r"} \subseteq down')
        /\ UNCHANGED <<st, got, want>>

\* Indexed by the scancode and 1; the entries behind the last are 0.
riv_kbd_map_lo ==
    <<"none", "esc", "1", "2", "3", "4", "5", "6", "7", "8", "9", "0", "-", "=", "backspace",
      "tab", "q", "w", "e", "r", "t", "y", "u", "i", "o", "p", "[", "]", "newline",
      "none", "a", "s", "d", "f", "g", "h", "j", "k", "l", ";", "'", "grave",
      "none", "backslash", "z", "x", "c", "v", "b", "n", "m", ",", ".", "/", "none", "*", "none", " ">>
riv_kbd_map_hi ==
    <<"none", "esc", "!", "@", "#", "$", "%", "^", "&", "*", "(", ")", "_", "+", "backspace",
      "tab", "Q", "W", "E", "R", "T", "Y", "U", "I", "O", "P", "{", "}", "newline",
      "none", "A", "S", "D", "F", "G", "H", "J", "K", "L", ":", "quote", "~",
      "none", "|", "Z", "X", "C", "V", "B", "N", "M", "<", ">", "?", "none", "*", "none", " ">>

Modifier(code, release) ==
    CASE code \in {Key.shift_l, Key.shift_r} -> [st EXCEPT !.shift = ~release]
      [] code = Key.ctrl_l -> [st EXCEPT !.ctrl = ~release]
      [] code = Key.alt -> [st EXCEPT !.alt = ~release]
      [] code = Key.caps -> [st EXCEPT !.capslock = (@ # ~release)]

\* Mutant of Character: caps lock does not undo shift.
CharacterLocked(code) ==
    LET c == (IF st.shift \/ st.capslock THEN riv_kbd_map_hi ELSE riv_kbd_map_lo)[code + 1]
    IN  IF st.ctrl /\ c = "a" THEN "ctrl-a" ELSE c

\* Ctrl makes a control character of a small letter only; "a" is the one in use.
Character(code) ==
    LET c == (IF st.shift # st.capslock THEN riv_kbd_map_hi ELSE riv_kbd_map_lo)[code + 1]
    IN  IF st.ctrl /\ c = "a" THEN "ctrl-a" ELSE c

riv_kbd_poll ==
    /\ bytes # <<>> /\ bytes' = Tail(bytes)
    /\ meant' = Tail(meant) /\ want' = Head(meant) /\ UNCHANGED <<down, locked, pair>>
    /\ LET sc == Head(bytes)
           release == sc >= Release
           code == IF release THEN sc - Release ELSE sc
           modifier == code \in {Key[k] : k \in {"shift_l", "shift_r", "ctrl_l", "alt", "caps"}}
       IN  IF sc = E0 THEN st' = [st EXCEPT !.ext = TRUE] /\ got' = "none"
           ELSE IF modifier THEN st' = Modifier(code, release) /\ got' = "none"
           ELSE /\ st' = [st EXCEPT !.ext = FALSE]
                /\ got' = IF release \/ code >= Len(riv_kbd_map_lo) THEN "none" ELSE Character(code)

KbdNext == riv_kbd_poll \/ \E k \in DOMAIN Key, up \in BOOLEAN : Send(k, up)

-----------------------------------------------------------------------------
\* Once every byte has been polled the driver's modifiers are those of the keys
\* held down, the caps lock light's included, whatever order keys went down and
\* up in and however late the driver polled; but for two shift
\* or two control keys at once.
ModifiersTrack ==
    bytes = <<>> /\ ~pair =>
        /\ st.shift = (down \cap {"shift_l", "shift_r"} # {})
        /\ st.ctrl = (down \cap {"ctrl_l", "ctrl_r"} # {}) /\ st.alt = ("alt" \in down)
        /\ st.capslock = locked

\* Each poll gives the character its byte's key was pressed for, under the
\* modifiers held at that moment and not at the poll, and nothing for the others;
\* but for two shift or two control keys at once.
CharactersTyped == pair \/ got = want

-----------------------------------------------------------------------------
(* The keyboard beside the terminal of tty.h: they share no state and      *)
(* interleave.                                                             *)

InputSpec(modes) ==
    /\ riv_tty_init(modes) /\ KbdInit
    /\ [][(TtyNext /\ UNCHANGED kbd_vars) \/ (KbdNext /\ UNCHANGED tty_vars)]_<<tty_vars, kbd_vars>>

\* What is typed is what is read: on a terminal the lines that were shown, as far
\* as there was room for them (tty.h); on the keyboard the characters of the keys
\* under the modifiers held, unless a pair of them was held at once (kbd.h).
InputAsTyped == ReadAsShown /\ ModifiersTrack /\ CharactersTyped
=============================================================================
