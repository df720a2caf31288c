------------------------------- MODULE Runtime -------------------------------
(***************************************************************************)
(* The parts of the runtime library that share no state, side by side: a   *)
(* behaviour exercises one of them, its subject, so that their state       *)
(* spaces add up instead of multiplying.                                   *)
(***************************************************************************)
EXTENDS Slab, List, Paging, Bitmap, Buf, Vfs, Hash, Arp, Signal, Clock, Kbd,
        Sha256, Codec, Text, Screen, Tree

VARIABLE subject

vars == <<subject, heap_vars, slab_vars, list_vars, page_vars, bm_vars, buf_vars, vfs_vars, hash_vars,
          arp_vars, sig_vars, task_vars, clock_vars, tty_vars, kbd_vars, sha_vars, codec_vars, text_vars, fb_vars,
          tree_vars>>

\* What differs between boots is left open for the subject only.
Init ==
    /\ subject \in {"heap", "bump", "slab", "list", "paging", "bitmap", "buf", "vfs", "hash", "arp",
                    "signal", "task", "clock", "tty", "kbd", "sha256", "codec", "text", "screen", "tree"}
    /\ HeapInit /\ SlabInit /\ ListInit /\ BmInit /\ BufInit /\ VfsInit
    /\ PageInit(IF subject = "paging" THEN {2, 4} ELSE {4}, IF subject = "paging" THEN {0, 4} ELSE {4})
    /\ HashInit(IF subject = "hash" THEN 0 .. HASH_CAP - 1 ELSE {0})
    /\ riv_arp_cache_init(IF subject = "arp" THEN Expiries ELSE {0})
    /\ riv_sig_init /\ riv_sched_init
    /\ ClockInit(IF subject = "clock" THEN {"word64", "rv32", "arm"} ELSE {"word64"})
    /\ riv_tty_init(IF subject = "tty" THEN {"raw", "cooked"} ELSE {"raw"})
    /\ KbdInit /\ ShaInit /\ CodecInit /\ TextInit /\ riv_fb_init /\ TreeInit

\* The part called name moves; the others keep their state.
Moves(name, action, own) ==
    /\ subject = name /\ action /\ UNCHANGED subject
    /\ own # "heap" => UNCHANGED heap_vars
    /\ own # "slab" => UNCHANGED slab_vars
    /\ own # "list" => UNCHANGED list_vars
    /\ own # "paging" => UNCHANGED page_vars
    /\ own # "bitmap" => UNCHANGED bm_vars
    /\ own # "buf" => UNCHANGED buf_vars
    /\ own # "vfs" => UNCHANGED vfs_vars
    /\ own # "hash" => UNCHANGED hash_vars
    /\ own # "arp" => UNCHANGED arp_vars
    /\ own # "signal" => UNCHANGED sig_vars
    /\ own # "task" => UNCHANGED task_vars
    /\ own # "clock" => UNCHANGED clock_vars
    /\ own # "tty" => UNCHANGED tty_vars
    /\ own # "kbd" => UNCHANGED kbd_vars
    /\ own # "sha256" => UNCHANGED sha_vars
    /\ own # "codec" => UNCHANGED codec_vars
    /\ own # "text" => UNCHANGED text_vars
    /\ own # "screen" => UNCHANGED fb_vars
    /\ own # "tree" => UNCHANGED tree_vars

\* A bound of the run: a process is followed until a raise has fallen inside an
\* update of pending and a dispatch inside another.  Neither SignalsKept nor
\* SignalsOnce says anything of what comes after; the theorem has no such bound.
SignalsFollowed == ~(crossed /\ inside)

Next ==
    \/ Moves("heap", HeapNext({0, 1, 6, SIZE_MOD - 2}), "heap")
    \/ Moves("bump", BumpNext(1 .. 3), "heap")
    \/ Moves("slab", SlabNext, "slab")
    \/ Moves("list", ListNext, "list")
    \/ Moves("paging", PageNext({0, 5}), "paging")
    \/ Moves("bitmap", BmNext, "bitmap")
    \/ Moves("buf", BufNext, "buf")
    \/ Moves("vfs", VfsNext({1}, {0, 2}, {<<-1, "set">>, <<-1, "cur">>, <<0, "end">>}), "vfs")
    \/ Moves("hash", HashNext, "hash")
    \/ Moves("arp", ArpNext, "arp")
    \/ Moves("signal", SignalsFollowed /\ SignalNext({{}, {SIGKILL, 10}}), "signal")
    \/ Moves("task", TaskNext, "task")
    \/ Moves("clock", ClockNext, "clock")
    \/ Moves("tty", TtyNext, "tty")
    \/ Moves("kbd", KbdNext, "kbd")
    \/ Moves("sha256", ShaNext, "sha256")
    \/ Moves("codec", CodecNext, "codec")
    \/ Moves("text", TextNext, "text")
    \/ Moves("screen", ScreenNext, "screen")
    \/ Moves("tree", TreeNext, "tree")

Spec == Init /\ [][Next]_vars

-----------------------------------------------------------------------------
(* What the parts of one kind promise together.  It is asked of the parts  *)
(* that move: the others are in a state that is the first of their own.    *)

\* Lists, bitmaps and hash maps hold what was put into them and not taken out:
\* the pointers spell a sequence both ways, the words a set, the slots a map
\* (list.h, bitmap.h, hash.h).
ContainersIntact == subject \in {"list", "bitmap", "hash"} => ListIntact /\ BitmapIsSet /\ HashIsMap

\* What base64.h encodes it decodes, and riv_ip_checksum tells a packet from a
\* damaged one (net.h).
CodecsAgree == subject = "codec" => Base64RoundTrip /\ ChecksumTells

\* Text that does not fit is cut where the room ends and nowhere else: strings,
\* lines of the log, the message of a panic (str.h, log.h, panic.h).
OutputFits == subject = "text" => StringsFit /\ IntsReadBack /\ LinesWhole

-----------------------------------------------------------------------------
\* Values for the configuration.
PagesX86 == {<<0, 0, 0, 0>>, <<0, 0, 0, 1>>, <<0, 1, 0, 0>>}
PagesSv32 == {<<0, 0>>, <<0, 1>>, <<1, 0>>}
FlagSets == {{}, {"write", "user"}}
BootMounts == << << <<"/">>, 1>>, << <<"/", "m">>, 1>>, << <<"/">>, 1>> >>
OpenPaths == {<<"/", "m", "/", "a">>, <<"/", "b">>}
TaskPeriods == <<1, 3>>
Directive(conv, zero, width, arg) == [conv |-> conv, zero |-> zero, width |-> width, arg |-> arg]
TextFormats ==
    {<<>>, <<Directive("d", FALSE, 0, -32), Directive("%", FALSE, 0, 0)>>, <<Directive("u", TRUE, 4, -1)>>,
     <<Directive("p", FALSE, 0, 30), Directive("X", FALSE, 3, 30)>>,
     Append(Plain(<<104>>), Directive("s", FALSE, 9, NULL_STRING)),
     <<Directive("c", FALSE, 2, 104), Directive("other", FALSE, 0, 113), Directive("x", TRUE, 1, 10)>>}
TextStrings == {<<>>, <<97>>, <<97, 98, 99, 100>>} \cup {[i \in 1 .. n |-> 97 + i] : n \in {10, 11, 14}}
SmallFont == 33 :> {<<0, 0>>, <<1, 1>>} @@ 65 :> {<<0, 1>>}
ShortTexts == {<<>>, <<65>>, <<7, 97>>, <<97, 33>>}

\* The processes that open files are alike.
Symmetric == Permutations(Procs)
=============================================================================
