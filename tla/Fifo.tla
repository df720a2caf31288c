-------------------------------- MODULE Fifo --------------------------------
(***************************************************************************)
(* What include/rivet/ring.h promises its two callers: a bounded first-in  *)
(* first-out queue of bytes in which each push and each pop takes effect   *)
(* in one instant.  A push may be refused only while the queue is full, a  *)
(* pop only while it is empty.  Ring implements this specification.        *)
(***************************************************************************)
EXTENDS Naturals, Sequences

CONSTANTS Byte, \* what one riv_u8 may hold
          Cap   \* capacity of the queue

VARIABLES q,     \* the bytes stored, oldest first
          sent,  \* byte stored by the last push, or the reason there is none
          taken  \* byte returned by the last pop, or the reason there is none

vars == <<q, sent, taken>>

Fresh == <<"fresh">>     \* no call has returned yet
Refused == <<"refused">> \* the last call returned 0
Done(b) == <<"ok", b>>   \* the last call returned 1 for byte b

Init == q = <<>> /\ sent = Fresh /\ taken = Fresh

Push(b) == /\ Len(q) < Cap
           /\ q' = Append(q, b)
           /\ sent' = Done(b)
           /\ UNCHANGED taken

PushFull == /\ Len(q) = Cap
            /\ sent' = Refused
            /\ UNCHANGED <<q, taken>>

Pop == /\ q # <<>>
       /\ taken' = Done(Head(q))
       /\ q' = Tail(q)
       /\ UNCHANGED sent

PopEmpty == /\ q = <<>>
            /\ taken' = Refused
            /\ UNCHANGED <<q, sent>>

Next == (\E b \in Byte : Push(b)) \/ PushFull \/ Pop \/ PopEmpty

Spec == Init /\ [][Next]_vars
=============================================================================
