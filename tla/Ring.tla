-------------------------------- MODULE Ring --------------------------------
(***************************************************************************)
(* include/rivet/ring.h: the single-producer, single-consumer byte ring.   *)
(*                                                                         *)
(* One step per access to shared memory, so that the two sides (a task and *)
(* an interrupt handler, or two CPUs) interleave between a load of an      *)
(* index, the access to buf, and the store of the other index.  All index  *)
(* accesses are sequentially consistent (atomic.h), so a step reads and    *)
(* writes the current memory.  head and tail are free-running counters     *)
(* that wrap at W (2^32 in the code) and are masked on use.                *)
(***************************************************************************)
EXTENDS Integers, Sequences

CONSTANTS Byte,  \* what one riv_u8 may hold
          Cap,   \* capacity, mask + 1
          W,     \* number of values of an index, 2^32 for riv_u32
          MaxN   \* longest riv_ring_write or riv_ring_read that is issued

\* riv_ring_init accepts a power of two, so Cap divides 2^32 and is at most
\* half of it.  Nothing else about powers of two is used.
ASSUME RingAssumption == /\ Cap \in Nat \ {0}
                         /\ W \in Nat
                         /\ \E k \in 2 .. W : W = k * Cap
                         /\ MaxN \in Nat
                         /\ Byte # {}

VARIABLES head, tail, buf,   \* the riv_ring
          pp, pb, ph, pleft, \* producer: control, byte, local h, bytes left
          sent,              \* result of the producer's last push
          cp, ct, cb, cleft, \* consumer: control, local t, byte, bytes left
          taken,             \* result of the consumer's last pop
          seen               \* h loaded by a riv_ring_count, per side

ring == <<head, tail, buf>>
prod == <<pp, pb, ph, pleft, sent>>
cons == <<cp, ct, cb, cleft, taken>>
vars == <<ring, prod, cons, seen>>

Index == 0 .. W - 1
Fresh == <<"fresh">>
Refused == <<"refused">>
Done(b) == <<"ok", b>>

\* riv_u32 arithmetic on two indices: a - b, a + n for n <= W, and & mask.
Sub(a, b) == IF a >= b THEN a - b ELSE a - b + W
Add(a, n) == IF a + n >= W THEN a + n - W ELSE a + n
Slot(a) == a % Cap

Init == /\ head = 0 /\ tail = 0
        /\ buf \in [0 .. Cap - 1 -> Byte]
        /\ pp = "idle" /\ pb \in Byte /\ ph = 0 /\ pleft = 0 /\ sent = Fresh
        /\ cp = "idle" /\ ct = 0 /\ cb \in Byte /\ cleft = 0 /\ taken = Fresh
        /\ seen = [side \in {"prod", "cons"} |-> 0]

-----------------------------------------------------------------------------
(* The producer: riv_ring_write calls riv_ring_push until one is refused.  *)

WriteCall == /\ pp = "idle" /\ pleft = 0
             /\ pleft' \in 1 .. MaxN
             /\ UNCHANGED <<ring, pp, pb, ph, sent, cons, seen>>

PushLoadHead == /\ pp = "idle" /\ pleft > 0
                /\ pb' \in Byte
                /\ ph' = head
                /\ pp' = "loadTail"
                /\ UNCHANGED <<ring, pleft, sent, cons, seen>>

\* Mutant of PushLoadTail: the full test lets one byte too many in.
PushLoadTailOffByOne ==
    /\ pp = "loadTail"
    /\ IF Sub(ph, tail) > Cap
         THEN pp' = "idle" /\ sent' = Refused /\ pleft' = 0
         ELSE pp' = "write" /\ UNCHANGED <<sent, pleft>>
    /\ UNCHANGED <<ring, pb, ph, cons, seen>>

\* t is not kept: after the test only h is used.
PushLoadTail ==
    /\ pp = "loadTail"
    /\ IF Sub(ph, tail) > Cap - 1
         THEN pp' = "idle" /\ sent' = Refused /\ pleft' = 0
         ELSE pp' = "write" /\ UNCHANGED <<sent, pleft>>
    /\ UNCHANGED <<ring, pb, ph, cons, seen>>

\* Mutant of PushWrite: head is stored before the byte is in the buffer.
PushWriteLate == /\ pp = "write"
                 /\ head' = Add(ph, 1)
                 /\ pp' = "publish"
                 /\ UNCHANGED <<tail, buf, pb, ph, pleft, sent, cons, seen>>

PushWrite == /\ pp = "write"
             /\ buf' = [buf EXCEPT ![Slot(ph)] = pb]
             /\ pp' = "publish"
             /\ UNCHANGED <<head, tail, pb, ph, pleft, sent, cons, seen>>

PushPublish == /\ pp = "publish"
               /\ head' = Add(ph, 1)
               /\ sent' = Done(pb)
               /\ pleft' = pleft - 1
               /\ pp' = "idle"
               /\ UNCHANGED <<tail, buf, pb, ph, cons, seen>>

-----------------------------------------------------------------------------
(* The consumer: riv_ring_read calls riv_ring_pop until one is refused.    *)

ReadCall == /\ cp = "idle" /\ cleft = 0
            /\ cleft' \in 1 .. MaxN
            /\ UNCHANGED <<ring, prod, cp, ct, cb, taken, seen>>

PopLoadTail == /\ cp = "idle" /\ cleft > 0
               /\ ct' = tail
               /\ cp' = "loadHead"
               /\ UNCHANGED <<ring, prod, cb, cleft, taken, seen>>

PopLoadHead ==
    /\ cp = "loadHead"
    /\ IF head = ct
         THEN cp' = "idle" /\ taken' = Refused /\ cleft' = 0
         ELSE cp' = "read" /\ UNCHANGED <<taken, cleft>>
    /\ UNCHANGED <<ring, prod, ct, cb, seen>>

PopRead == /\ cp = "read"
           /\ cb' = buf[Slot(ct)]
           /\ cp' = "publish"
           /\ UNCHANGED <<ring, prod, ct, cleft, taken, seen>>

\* Mutant of PopPublish: the consumer rewinds both indices of an empty ring.
PopPublishRewind ==
    /\ cp = "publish"
    /\ LET t == Add(ct, 1) IN
         IF t = head THEN head' = 0 /\ tail' = 0
                     ELSE tail' = t /\ UNCHANGED head
    /\ taken' = Done(cb)
    /\ cleft' = cleft - 1
    /\ cp' = "idle"
    /\ UNCHANGED <<buf, prod, ct, cb, seen>>

PopPublish == /\ cp = "publish"
              /\ tail' = Add(ct, 1)
              /\ taken' = Done(cb)
              /\ cleft' = cleft - 1
              /\ cp' = "idle"
              /\ UNCHANGED <<head, buf, prod, ct, cb, seen>>

-----------------------------------------------------------------------------
(* riv_ring_count, and with it riv_ring_empty and riv_ring_full, called by *)
(* either side between two of its operations.                              *)

CountLoadHead ==
    \/ /\ pp = "idle" /\ pp' = "count"
       /\ seen' = [seen EXCEPT !["prod"] = head]
       /\ UNCHANGED <<ring, pb, ph, pleft, sent, cons>>
    \/ /\ cp = "idle" /\ cp' = "count"
       /\ seen' = [seen EXCEPT !["cons"] = head]
       /\ UNCHANGED <<ring, prod, ct, cb, cleft, taken>>

\* The value returned, in the state in which tail is loaded.
CountResult(side) == Sub(seen[side], tail)

CountLoadTail ==
    \/ /\ pp = "count" /\ pp' = "idle"
       /\ UNCHANGED <<ring, pb, ph, pleft, sent, cons, seen>>
    \/ /\ cp = "count" /\ cp' = "idle"
       /\ UNCHANGED <<ring, prod, ct, cb, cleft, taken, seen>>

-----------------------------------------------------------------------------
Producer == WriteCall \/ PushLoadHead \/ PushLoadTail \/ PushWrite \/ PushPublish
Consumer == ReadCall \/ PopLoadTail \/ PopLoadHead \/ PopRead \/ PopPublish
Next == Producer \/ Consumer \/ CountLoadHead \/ CountLoadTail

Spec == Init /\ [][Next]_vars

-----------------------------------------------------------------------------
(* Properties.                                                             *)

\* Every variable stays in its range; in particular the free-running indices
\* wrap instead of growing (riv_ring.head and riv_ring.tail are riv_u32).
TypeOK == /\ head \in Index /\ tail \in Index
          /\ buf \in [0 .. Cap - 1 -> Byte]
          /\ pp \in {"idle", "loadTail", "write", "publish", "count"}
          /\ pb \in Byte /\ ph \in Index /\ pleft \in 0 .. MaxN
          /\ cp \in {"idle", "loadHead", "read", "publish", "count"}
          /\ ct \in Index /\ cb \in Byte /\ cleft \in 0 .. MaxN
          /\ seen \in [{"prod", "cons"} -> Index]
          /\ sent \in {Fresh, Refused} \cup {Done(b) : b \in Byte}
          /\ taken \in {Fresh, Refused} \cup {Done(b) : b \in Byte}

\* The plain (non-atomic) accesses to buf never race: while the producer is
\* about to store a byte and the consumer about to load one, they are at
\* different slots, although each decided from an index the other has moved.
NoRace == pp = "write" /\ cp = "read" => Slot(ph) # Slot(ct)

\* riv_ring_count is safe to act on from either side: what the consumer is
\* told never exceeds the bytes it can pop when the call returns, and what the
\* producer is told is never less than the bytes that occupy the ring.
CountSafe == /\ cp = "count" => CountResult("cons") <= Sub(head, tail)
             /\ pp = "count" => CountResult("prod") >= Sub(head, tail)
             /\ Sub(head, tail) <= Cap

\* The bytes stored in the ring, oldest first.
Queue == [i \in 1 .. Sub(head, tail) |-> buf[Slot(Add(tail, i - 1))]]

F == INSTANCE Fifo WITH q <- Queue

\* The ring implements the bounded queue of Fifo: bytes come out once, in the
\* order they went in, unmodified, across index wrap-around; riv_ring_push
\* returns 0 only if the ring was full, and riv_ring_pop only if it was empty,
\* at one instant of the call.
Linearizable == F!Spec
=============================================================================
