-------------------------------- MODULE Hash --------------------------------
(***************************************************************************)
(* include/rivet/hash.h.  The hash function is any function from keys to   *)
(* slots, chosen at the start; a key too long for its slot is stored cut.  *)
(***************************************************************************)
EXTENDS Integers, FiniteSets, SequencesExt

CONSTANTS HASH_CAP,     \* a power of two
          Keys, Vals,
          LongKeys,     \* keys longer than RIV_HASH_KEYLEN - 1
          CutTo         \* what is stored of them, itself a key

VARIABLES slots, count,
          home,         \* riv_hash_fnv64(key) & (cap - 1)
          dict,         \* key -> value, as the user thinks of it
          stopped,      \* a delete stopped shifting with the cluster not at its end
          long_set      \* a key was stored cut

hash_vars == <<slots, count, home, dict, stopped, long_set>>

Stored(k) == IF k \in LongKeys THEN CutTo ELSE k
Succ(i) == (i + 1) % HASH_CAP
Empty == [used |-> FALSE, key |-> CutTo, val |-> 0]

\* One key at slot 0: the others are relative to it.
HashInit(homes) ==
    /\ slots = [i \in 0 .. HASH_CAP - 1 |-> Empty] /\ count = 0
    /\ home \in [Keys -> homes] /\ home[CutTo] = 0
    /\ dict = <<>> /\ stopped = FALSE /\ long_set = FALSE

\* The slot where probing for k ends: the first one that is unused or has it.
Probe(k) ==
    LET at(step) == (home[k] + step) % HASH_CAP
        ends == {step \in 0 .. HASH_CAP - 1 : ~slots[at(step)].used \/ slots[at(step)].key = k}
    IN  IF ends = {} THEN {} ELSE {at(Min(ends))}

riv_hash_set(k, v) ==
    \E i \in Probe(k) :
        /\ slots' = [slots EXCEPT ![i] = [used |-> TRUE, key |-> IF slots[i].used THEN @.key ELSE Stored(k), val |-> v]]
        /\ count' = IF slots[i].used THEN count ELSE count + 1
        /\ dict' = [j \in DOMAIN dict \cup {k} |-> IF j = k THEN v ELSE dict[j]]
        /\ long_set' = (long_set \/ k \in LongKeys)
        /\ UNCHANGED <<home, stopped>>

riv_hash_get(k) == {slots[i].val : i \in {j \in Probe(k) : slots[j].used}}

\* Mutant of Movable: a key is moved even out of its home.
MovableAny(hole, next, desired) == TRUE

Movable(hole, next, desired) ==
    \/ next > hole /\ (desired <= hole \/ desired > next)
    \/ next < hole /\ desired <= hole /\ desired > next

\* The loop behind the hole: s is the table and the hole.  It is run three
\* times round the table.
Shift(i) ==
    LET step(s, n) ==
            LET next == Succ(s.hole)
                moves == s.slots[next].used /\ Movable(s.hole, next, home[s.slots[next].key])
            IN  CASE s.done -> s
                  [] moves -> [s EXCEPT !.slots[s.hole] = s.slots[next], !.hole = next]
                  [] OTHER -> [s EXCEPT !.slots[s.hole].used = FALSE, !.done = TRUE, !.early = s.slots[next].used]
    IN  FoldLeft(step, [slots |-> slots, hole |-> i, done |-> FALSE, early |-> FALSE], [n \in 1 .. 3 * HASH_CAP |-> n])

riv_hash_del(k) ==
    \E i \in Probe(k) :
        /\ slots[i].used /\ Shift(i).done
        /\ slots' = Shift(i).slots
        /\ count' = count - 1
        /\ stopped' = (stopped \/ Shift(i).early)
        /\ dict' = [j \in DOMAIN dict \ {k} |-> dict[j]]
        /\ UNCHANGED <<home, long_set>>

HashNext == \E k \in Keys : riv_hash_del(k) \/ \E v \in Vals : riv_hash_set(k, v)

-----------------------------------------------------------------------------
\* Under every hash function the table answers for every key what was last set
\* and not deleted, and holds each key once; until a delete stops shifting
\* before the end of its cluster, or a key was too long to be stored.
HashIsDict ==
    stopped \/ long_set \/
        /\ \A k \in Keys : riv_hash_get(k) = IF k \in DOMAIN dict THEN {dict[k]} ELSE {}
        /\ count = Cardinality(DOMAIN dict)

\* Whatever happened, a delete ends, and count is the number of slots in use.
HashCounts ==
    /\ count = Cardinality({i \in DOMAIN slots : slots[i].used})
    /\ \A i \in DOMAIN slots : slots[i].used => Shift(i).done

\* "Lookup: returns 1 and writes *out on hit" (hash.h): a key that was set, not
\* cut and not deleted, is found.
LookupHits == \A k \in DOMAIN dict \ LongKeys : riv_hash_get(k) # {}

\* riv_hash is a map from keys to values, and its count and its delete loop are
\* right even where it is not.
HashIsMap == HashIsDict /\ HashCounts
=============================================================================
