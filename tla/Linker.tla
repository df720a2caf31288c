------------------------------- MODULE Linker --------------------------------
(***************************************************************************)
(* src/rivet-ld.c: the locator.  It reads a layout script line by line and *)
(* then either places flat binaries into one image or, with -g, writes the *)
(* layout as a GNU ld script.                                              *)
(*                                                                         *)
(* A line of the script is a record; a value that may be left out is a set *)
(* with at most one element.  U32 is the number of values of a u32, small  *)
(* enough here for sums to wrap around.  A write outside the image, which  *)
(* is undefined behaviour, ends in ld_status "wild".                       *)
(***************************************************************************)
EXTENDS Integers, Sequences, FiniteSets, SequencesExt

CONSTANTS U32, MAX_REGIONS, MAX_PLACES, MAX_DEFS

VARIABLES script, gen_gnu, out_override,         \* the command line
          ld_line, regs, places, defs, entry, output, default_fill,
          cursor, image, ld_status,
          files                                  \* the file system: name -> bytes

script_vars == <<script, gen_gnu, out_override>>
layout_vars == <<regs, places, defs, entry, output, default_fill>>
ld_vars == <<script_vars, layout_vars, ld_line, cursor, image, ld_status>>

Region(n, org, len, fill) == [d |-> "region", name |-> n, org |-> org, len |-> len, fill |-> fill]
Place(f, in, r, at) == [d |-> "place", file |-> f, in |-> in, region |-> r, at |-> at]
Define(n, v) == [d |-> "define", name |-> n, v |-> v]
Entry(n) == [d |-> "entry", name |-> n]
Fill(v) == [d |-> "fill", v |-> v]
Output(f) == [d |-> "output", file |-> f]
Blank == [d |-> ""]
\* A line that is refused whatever came before it: an unknown directive, or a
\* directive that lacks an argument.
OtherLine == [d |-> "other"]

LdInit(scripts, modes, overrides) ==
    /\ script \in scripts /\ gen_gnu \in modes /\ out_override \in overrides
    /\ ld_line = 1
    /\ regs = <<>> /\ places = <<>> /\ defs = <<>>
    /\ entry = "_start" /\ output = "image.bin" /\ default_fill = 0
    /\ cursor = <<>> /\ image = <<>>
    /\ ld_status = "parse"

parse_num(v) == v % U32
U8(v) == v % 256
Sum(s) == FoldLeft(LAMBDA a, b : a + b, 0, s)
Lengths(n) == [k \in 1 .. n |-> regs[k].length]
\* The first region of that name.
find_region(n) ==
    LET S == {i \in DOMAIN regs : regs[i].name = n} IN IF S = {} THEN {} ELSE {Min(S)}

-----------------------------------------------------------------------------
(* parse_line: one action per directive                                    *)

Reading(d) == ld_status = "parse" /\ ld_line <= Len(script) /\ script[ld_line].d = d
Read == ld_line' = ld_line + 1 /\ UNCHANGED <<script_vars, cursor, image, ld_status, files>>
Fail(status) == ld_status' = status /\ UNCHANGED <<script_vars, layout_vars, ld_line, cursor, image, files>>

ParseBlank == Reading("") /\ Read /\ UNCHANGED layout_vars
ParseOther == Reading("other") /\ Fail("died")
ParseEntry ==
    Reading("entry") /\ Read /\ entry' = script[ld_line].name
    /\ UNCHANGED <<regs, places, defs, output, default_fill>>
ParseFill ==
    Reading("fill") /\ Read /\ default_fill' = U8(parse_num(script[ld_line].v))
    /\ UNCHANGED <<regs, places, defs, entry, output>>
ParseOutput ==
    Reading("output") /\ Read /\ output' = script[ld_line].file
    /\ UNCHANGED <<regs, places, defs, entry, default_fill>>
ParseDefine ==
    /\ Reading("define")
    /\ IF Len(defs) >= MAX_DEFS THEN Fail("died")
       ELSE /\ Read
            /\ defs' = Append(defs, [name |-> script[ld_line].name, value |-> parse_num(script[ld_line].v)])
            /\ UNCHANGED <<regs, places, entry, output, default_fill>>
\* Without its own fill a region takes the default of this point of the file.
ParseRegion ==
    LET l == script[ld_line] IN
    /\ Reading("region")
    /\ IF Len(regs) >= MAX_REGIONS \/ l.org = {} \/ l.len = {} THEN Fail("died")
       ELSE /\ Read
            /\ \E o \in l.org, n \in l.len, f \in IF l.fill = {} THEN {default_fill} ELSE {U8(parse_num(v)) : v \in l.fill} :
                 regs' = Append(regs, [name |-> l.name, origin |-> parse_num(o), length |-> parse_num(n), fill |-> f])
            /\ UNCHANGED <<places, defs, entry, output, default_fill>>
ParsePlace ==
    LET l == script[ld_line] IN
    /\ Reading("place")
    /\ IF Len(places) >= MAX_PLACES \/ l.in # "in" THEN Fail("died")
       ELSE /\ Read
            /\ places' = Append(places, [file |-> l.file, region |-> l.region, at |-> {parse_num(v) : v \in l.at}])
            /\ UNCHANGED <<regs, defs, entry, output, default_fill>>

\* -o wins over the script.
EndScript ==
    /\ ld_status = "parse" /\ ld_line > Len(script)
    /\ output' = IF out_override = "" THEN output ELSE out_override
    /\ ld_status' = IF gen_gnu THEN "gnu" ELSE "fill"
    /\ UNCHANGED <<script_vars, ld_line, regs, places, defs, entry, default_fill, cursor, image, files>>

-----------------------------------------------------------------------------
(* link_image.  ld_line counts the placements done.                        *)

\* The image has the sum of the lengths as a u32; memset has no such limit.
FillRegions ==
    /\ ld_status = "fill"
    /\ IF Sum(Lengths(Len(regs))) >= U32 THEN Fail("wild")
       ELSE /\ image' = FlattenSeq([i \in DOMAIN regs |-> [k \in 1 .. regs[i].length |-> regs[i].fill]])
            /\ cursor' = [i \in DOMAIN regs |-> 0]
            /\ ld_line' = 1 /\ ld_status' = "place"
            /\ UNCHANGED <<script_vars, layout_vars, files>>

\* The test is made on the u32 sum.
Fits(reloff, sz, r) == (reloff + sz) % U32 <= regs[r].length

\* Mutant of Advance: the cursor of the region stays where it is.
AdvanceNot(r, end) == cursor

Advance(r, end) == [cursor EXCEPT ![r] = end % U32]

\* One turn of the loop: where the file goes, the test that it fits, the copy.
PlaceFile ==
    LET p == places[ld_line] IN
    /\ ld_status = "place" /\ ld_line <= Len(places)
    /\ IF find_region(p.region) = {} \/ p.file \notin DOMAIN files THEN Fail("error")
       ELSE \E r \in find_region(p.region) :
            LET sz == Len(files[p.file])
                base_off == Sum(Lengths(r - 1))
                reloff == IF p.at # {} THEN CHOOSE v \in p.at : TRUE ELSE cursor[r]
            IN  IF ~Fits(reloff, sz, r) THEN Fail("error")
                ELSE IF base_off + reloff + sz > Len(image) THEN Fail("wild")
                ELSE /\ image' = [i \in DOMAIN image |-> IF i - base_off - reloff \in 1 .. sz
                                    THEN files[p.file][i - base_off - reloff] ELSE image[i]]
                     /\ cursor' = Advance(r, reloff + sz)
                     /\ ld_line' = ld_line + 1
                     /\ UNCHANGED <<script_vars, layout_vars, ld_status, files>>

WriteImage ==
    /\ ld_status = "place" /\ ld_line > Len(places)
    /\ files' = [f \in DOMAIN files \cup {output} |-> IF f = output THEN image ELSE files[f]]
    /\ ld_status' = "done"
    /\ UNCHANGED <<script_vars, layout_vars, ld_line, cursor, image>>

\* -g: regions, a section for each, .bss in the last one, the defined symbols.
gnu_ld == [entry |-> entry, memory |-> regs, sections |-> [i \in DOMAIN regs |-> regs[i].name],
           bss |-> IF regs = <<>> THEN "ram" ELSE Last(regs).name, symbols |-> defs]
EmitGnu ==
    /\ ld_status = "gnu"
    /\ files' = [f \in DOMAIN files \cup {output} |-> IF f = output THEN gnu_ld ELSE files[f]]
    /\ ld_status' = "done"
    /\ UNCHANGED <<script_vars, layout_vars, ld_line, cursor, image>>

LdNext ==
    \/ ParseBlank \/ ParseOther \/ ParseEntry \/ ParseFill \/ ParseOutput
    \/ ParseDefine \/ ParseRegion \/ ParsePlace \/ EndScript
    \/ FillRegions \/ PlaceFile \/ WriteImage \/ EmitGnu

-----------------------------------------------------------------------------
(* What the image should be, read off the whole script at once.            *)

RegionOf(i) == CHOOSE r \in find_region(places[i].region) : TRUE
SizeOf(i) == Len(files[places[i].file])
\* Where a file starts: as told, or where the previous file of its region ends.
Position ==
    LET pos[i \in DOMAIN places] ==
            LET before == {j \in 1 .. i - 1 : RegionOf(j) = RegionOf(i)}
            IN  CASE places[i].at # {} -> CHOOSE v \in places[i].at : TRUE
                  [] places[i].at = {} /\ before = {} -> 0
                  [] OTHER -> pos[Max(before)] + SizeOf(Max(before))
    IN  pos
Covers(i, r, o) == RegionOf(i) = r /\ o - Position[i] \in 0 .. SizeOf(i) - 1
\* The byte at offset o of region r: of the last file placed over it.
ByteAt(r, o) ==
    LET over == {i \in DOMAIN places : Covers(i, r, o)}
    IN  IF over = {} THEN regs[r].fill ELSE files[places[Max(over)].file][o - Position[Max(over)] + 1]

Linked == ld_status = "done" /\ ~gen_gnu

\* The image holds the regions in the order of the script, each as long as it
\* was declared, with every file where the script puts it and the fill byte of
\* the region everywhere else.
ImageExact ==
    Linked /\ output \notin {places[i].file : i \in DOMAIN places} =>
        files[output] = FlattenSeq([r \in DOMAIN regs |-> [k \in 1 .. regs[r].length |-> ByteAt(r, k - 1)]])

\* The linker writes outside its image only for a script whose lengths, or
\* whose offset and file size, add up to more than a u32 holds.
WildOnlyByWrap ==
    ld_status = "wild" =>
        \/ Sum(Lengths(Len(regs))) >= U32
        \/ \E i \in DOMAIN places : LET p == places[i] IN
              /\ p.file \in DOMAIN files
              /\ \E r \in find_region(p.region) : \E v \in p.at \cup {regs[r].length} :
                    v + Len(files[p.file]) >= U32

\* rivet-ld puts every byte where the script says, or refuses the script; it goes
\* wild only where a u32 wraps.
ImagePlaced == ImageExact /\ WildOnlyByWrap
=============================================================================
