-------------------------------- MODULE Tree ---------------------------------
(***************************************************************************)
(* include/rivet/dt.h: the walk over a flattened device tree.  The blob is *)
(* built node by node, as a firmware lays it out, while the tree it stands *)
(* for is noted beside it; riv_fdt_walk then reads it.  A word is its      *)
(* value after riv_fdt_be32, except for the first word of a name, which is *)
(* the length of the name; a name's other words and a property's data may  *)
(* hold any value, those of the tags included.                             *)
(***************************************************************************)
EXTENDS Integers, Sequences

CONSTANTS TREE_WORDS,  \* bound on the words of the blob
          NameLengths, \* the lengths of names in use
          PropLengths, \* the lengths of properties in use, in bytes
          Noise        \* the values of data words

ASSUME TreeAssumption == TREE_WORDS \in Nat /\ NameLengths \subseteq Nat /\ PropLengths \subseteq Nat /\ Noise \subseteq Nat

RIV_FDT_BEGIN_NODE == 1
RIV_FDT_END_NODE == 2
RIV_FDT_PROP == 3
RIV_FDT_NOP == 4
RIV_FDT_END == 9
FDT_OTHER == 7  \* a tag that the walk does not know

VARIABLES blob,    \* the words of the structure block
          open,    \* nodes begun and not ended
          nodes,   \* every node's name and depth, in the order of the blob
          walk     \* riv_fdt_walk: its phase, p, depth, the calls of cb, what it returned

tree_vars == <<blob, open, nodes, walk>>

TreeInit ==
    /\ blob = <<>> /\ open = 0 /\ nodes = <<>>
    /\ walk = [phase |-> "building", p |-> 1, depth |-> 0, visits |-> <<>>, ret |-> 0, stop |-> 0]

-----------------------------------------------------------------------------
(* The firmware                                                            *)

Lay(words) ==
    /\ walk.phase = "building" /\ Len(blob) + Len(words) <= TREE_WORDS
    /\ blob' = blob \o words /\ UNCHANGED walk

Filler(k, v) == [i \in 1 .. k |-> v]

\* One root; a name of l characters and its end fill whole words.
LayBegin == \E l \in NameLengths, v \in Noise :
    /\ open > 0 \/ nodes = <<>>
    /\ Lay(<<RIV_FDT_BEGIN_NODE, l>> \o Filler(l \div 4, v))
    /\ nodes' = Append(nodes, <<l, open>>) /\ open' = open + 1
LayProp == \E l \in PropLengths, v \in Noise :
    open > 0 /\ Lay(<<RIV_FDT_PROP, l, v>> \o Filler((l + 3) \div 4, v)) /\ UNCHANGED <<open, nodes>>
LayNop == Lay(<<RIV_FDT_NOP>>) /\ UNCHANGED <<open, nodes>>
LayOther == (\A i \in DOMAIN blob : blob[i] # FDT_OTHER) /\ Lay(<<FDT_OTHER>>) /\ UNCHANGED <<open, nodes>>
LayEnd == open > 0 /\ Lay(<<RIV_FDT_END_NODE>>) /\ open' = open - 1 /\ UNCHANGED nodes

\* The walk begins on a whole tree, with a callback that gives up at its
\* stop'th call, or never if stop is 0; or on a blob whose magic is another's.
riv_fdt_walk == \E stop \in 0 .. Len(nodes), valid \in BOOLEAN :
    /\ walk.phase = "building" /\ open = 0 /\ nodes # <<>>
    /\ blob' = Append(blob, RIV_FDT_END)
    /\ walk' = [walk EXCEPT !.phase = IF valid THEN "walking" ELSE "done", !.ret = IF valid THEN 0 ELSE -1, !.stop = stop]
    /\ UNCHANGED <<open, nodes>>

-----------------------------------------------------------------------------
(* One turn of the loop for each tag.                                      *)

Turn(tag) == walk.phase = "walking" /\ blob[walk.p] = tag /\ UNCHANGED <<blob, open, nodes>>

VisitEnd == Turn(RIV_FDT_END) /\ walk' = [walk EXCEPT !.phase = "done"]

VisitNop == Turn(RIV_FDT_NOP) /\ walk' = [walk EXCEPT !.p = @ + 1]

\* cb is called with the depth before it grows; its answer ends the walk.
VisitBegin ==
    /\ Turn(RIV_FDT_BEGIN_NODE)
    /\ LET l == blob[walk.p + 1]
           called == [walk EXCEPT !.visits = Append(@, <<l, walk.depth>>)]
       IN  walk' = IF Len(called.visits) = walk.stop THEN [called EXCEPT !.phase = "done", !.ret = 1]
                   ELSE [called EXCEPT !.depth = @ + 1, !.p = @ + 1 + ((l + 4) \div 4)]

VisitEndNode == Turn(RIV_FDT_END_NODE) /\ walk' = [walk EXCEPT !.p = @ + 1, !.depth = @ - 1]

\* Mutant of VisitProp: data that does not fill its last word is rounded down.
VisitPropShort == Turn(RIV_FDT_PROP) /\ walk' = [walk EXCEPT !.p = @ + 3 + (blob[walk.p + 1] \div 4)]
\* The length, nameoff and the data are skipped.
VisitProp == Turn(RIV_FDT_PROP) /\ walk' = [walk EXCEPT !.p = @ + 3 + ((blob[walk.p + 1] + 3) \div 4)]

\* Any other tag is malformed.
VisitOther ==
    /\ walk.phase = "walking" /\ UNCHANGED <<blob, open, nodes>>
    /\ blob[walk.p] \notin {RIV_FDT_BEGIN_NODE, RIV_FDT_END_NODE, RIV_FDT_PROP, RIV_FDT_NOP, RIV_FDT_END}
    /\ walk' = [walk EXCEPT !.phase = "done", !.ret = -1]

TreeNext == LayBegin \/ LayProp \/ LayNop \/ LayOther \/ LayEnd \/ riv_fdt_walk
            \/ VisitEnd \/ VisitNop \/ VisitBegin \/ VisitEndNode \/ VisitProp \/ VisitOther

TreeSpec == TreeInit /\ [][TreeNext]_tree_vars

-----------------------------------------------------------------------------
\* The callback of riv_fdt_walk sees the nodes of the tree in order, each with
\* its depth and nothing that only looks like one; a walk that nobody ends sees
\* all of them, comes back to depth 0 and stands at the end.
TreeWalked ==
    /\ Len(walk.visits) <= Len(nodes) /\ walk.visits = SubSeq(nodes, 1, Len(walk.visits))
    /\ walk.phase = "done" =>
         \/ walk.ret = 0 /\ walk.visits = nodes /\ walk.depth = 0 /\ walk.p = Len(blob)
         \/ walk.ret = 1 /\ Len(walk.visits) = walk.stop
         \/ walk.ret = -1 /\ (walk.visits = <<>> \/ blob[walk.p] = FDT_OTHER)
=============================================================================
