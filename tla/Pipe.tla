-------------------------------- MODULE Pipe --------------------------------
(***************************************************************************)
(* include/rivet/pipe.h: the blocking byte pipe.  Its ring is only touched *)
(* with the guard held, so it is the queue that Ring implements; its two   *)
(* wait queues are slept on with no cond_lock, after the guard has been    *)
(* released.                                                               *)
(***************************************************************************)
EXTENDS Waitq, FiniteSets

CONSTANTS Writer, Reader, Closer, \* who may call which operation
          Cap,      \* RIV_PIPE_CAP
          MaxN,     \* longest write or read
          MaxBytes  \* bound on the bytes each writer offers

ASSUME PipeAssumption == /\ {"readers", "writers"} \subseteq Queue
                         /\ Writer \cup Reader \cup Closer \subseteq User
                         /\ Cap \in Nat \ {0} /\ MaxN \in Nat /\ MaxBytes \in Nat

VARIABLES data,   \* the bytes in the ring, oldest first: <<writer, number>>
          closed, \* riv_pipe.closed
          want,   \* number of the last byte each writer has been asked to write
          pos,    \* number of the last byte it has stored
          asked,  \* n of the riv_pipe_read each execution is in, 0 outside one
          moved,  \* local of each execution: w, or r, of the current round
          sawEnd, \* local of a reader: `closed` as it was under the guard
          rcvd,   \* bytes of each writer that have been read
          eof     \* some riv_pipe_read of one byte or more has returned 0

pipe == <<data, closed, want, pos, asked, moved, sawEnd, rcvd, eof>>
vars == <<base, pipe>>

LeastOf(a, b) == IF a < b THEN a ELSE b

Init == /\ BootedInit /\ guard = Null
        /\ data = <<>> /\ closed = FALSE /\ eof = FALSE
        /\ want = [w \in Writer |-> 0] /\ pos = [w \in Writer |-> 0]
        /\ rcvd = [w \in Writer |-> 0]
        /\ asked = [e \in Exec |-> 0]
        /\ moved = [e \in Exec |-> 0] /\ sawEnd = [e \in Exec |-> FALSE]

-----------------------------------------------------------------------------
(* riv_pipe_write.  With n = 0 it returns at once and touches nothing.     *)

WriteCall == /\ At("user") /\ cpu \in Writer
             /\ \E n \in 1 .. MaxN :
                  /\ want[cpu] + n <= MaxBytes
                  /\ want' = [want EXCEPT ![cpu] = @ + n]
                  /\ pos' = [pos EXCEPT ![cpu] = want[cpu]]
             /\ Local("w_lock")
             /\ UNCHANGED <<guard, data, closed, asked, moved, sawEnd, rcvd, eof>>

WriteLock == SpinLock("w_lock", "w_body") /\ UNCHANGED pipe

\* Mutants of WriteBody: every round starts at the first byte of the caller's
\* buffer; a closed pipe still accepts bytes.
WriteBodyRestart ==
    /\ At("w_body")
    /\ LET w == LeastOf(want[cpu] - pos[cpu], Cap - Len(data)) IN
         IF closed
           THEN Local("w_closed") /\ UNCHANGED <<data, pos, moved>>
           ELSE /\ data' = data \o [i \in 1 .. w |-> <<cpu, i>>]
                /\ pos' = [pos EXCEPT ![cpu] = @ + w]
                /\ moved' = [moved EXCEPT ![cpu] = w]
                /\ Local("w_unlock")
    /\ UNCHANGED <<guard, closed, want, asked, sawEnd, rcvd, eof>>

WriteBodyAfterClose ==
    /\ At("w_body")
    /\ LET w == LeastOf(want[cpu] - pos[cpu], Cap - Len(data)) IN
         IF FALSE
           THEN Local("w_closed") /\ UNCHANGED <<data, pos, moved>>
           ELSE /\ data' = data \o [i \in 1 .. w |-> <<cpu, pos[cpu] + i>>]
                /\ pos' = [pos EXCEPT ![cpu] = @ + w]
                /\ moved' = [moved EXCEPT ![cpu] = w]
                /\ Local("w_unlock")
    /\ UNCHANGED <<guard, closed, want, asked, sawEnd, rcvd, eof>>

\* riv_ring_write stores what fits.
WriteBody ==
    /\ At("w_body")
    /\ LET w == LeastOf(want[cpu] - pos[cpu], Cap - Len(data)) IN
         IF closed
           THEN Local("w_closed") /\ UNCHANGED <<data, pos, moved>>
           ELSE /\ data' = data \o [i \in 1 .. w |-> <<cpu, pos[cpu] + i>>]
                /\ pos' = [pos EXCEPT ![cpu] = @ + w]
                /\ moved' = [moved EXCEPT ![cpu] = w]
                /\ Local("w_unlock")
    /\ UNCHANGED <<guard, closed, want, asked, sawEnd, rcvd, eof>>

WriteClosed == SpinUnlock("w_closed", "user") /\ UNCHANGED pipe

\* Mutant of WriteUnlock: readers are not woken.
WriteUnlockMute ==
    /\ SpinUnlock("w_unlock", IF pos[cpu] < want[cpu] THEN "w_sleep" ELSE "user")
    /\ UNCHANGED pipe

WriteUnlock ==
    /\ SpinUnlock("w_unlock", IF moved[cpu] > 0 THEN "w_wake"
                              ELSE IF pos[cpu] < want[cpu] THEN "w_sleep" ELSE "user")
    /\ UNCHANGED pipe

WriteWake == /\ At("w_wake")
             /\ WakeOne("readers", IF pos[cpu] < want[cpu] THEN "w_sleep" ELSE "user")
             /\ UNCHANGED <<guard, pipe>>

\* riv_waitq_sleep(&p->writers, NULL).
WriteSleep == /\ At("w_sleep")
              /\ WaitqEnqueue("writers") /\ Goto("w_yield")
              /\ UNCHANGED <<schedLock, machine, ret, picked, guard, pipe>>
WriteYield == At("w_yield") /\ YieldSelect("w_lock") /\ UNCHANGED <<guard, pipe>>

-----------------------------------------------------------------------------
(* riv_pipe_read.                                                          *)

ReadCall == /\ At("user") /\ cpu \in Reader
            /\ \E n \in 0 .. MaxN : asked' = [asked EXCEPT ![cpu] = n]
            /\ Local("r_lock")
            /\ UNCHANGED <<guard, data, closed, want, pos, moved, sawEnd, rcvd, eof>>

ReadLock == SpinLock("r_lock", "r_body") /\ UNCHANGED pipe

\* riv_ring_read takes what is there, up to the n of the call; then `closed` is
\* copied, still under the guard.
ReadBody ==
    /\ At("r_body")
    /\ LET r == LeastOf(asked[cpu], Len(data)) IN
         /\ data' = SubSeq(data, r + 1, Len(data))
         /\ moved' = [moved EXCEPT ![cpu] = r]
         /\ rcvd' = [w \in Writer |->
                       rcvd[w] + Cardinality({i \in 1 .. r : data[i][1] = w})]
    /\ sawEnd' = [sawEnd EXCEPT ![cpu] = closed]
    /\ Local("r_unlock")
    /\ UNCHANGED <<guard, closed, want, pos, asked, eof>>

\* A round that moved bytes or saw `closed` is the last one of its call.
ReadReturn ==
    /\ asked' = [asked EXCEPT ![cpu] = IF moved[cpu] > 0 \/ sawEnd[cpu] THEN 0 ELSE @]
    /\ eof' = (eof \/ (moved[cpu] = 0 /\ sawEnd[cpu] /\ asked[cpu] > 0))

\* Mutant of ReadUnlock: writers are not woken.
ReadUnlockMute ==
    /\ SpinUnlock("r_unlock", IF moved[cpu] > 0 \/ sawEnd[cpu] THEN "user" ELSE "r_sleep")
    /\ ReadReturn
    /\ UNCHANGED <<data, closed, want, pos, moved, sawEnd, rcvd>>

ReadUnlock ==
    /\ SpinUnlock("r_unlock", IF moved[cpu] > 0 THEN "r_wake"
                              ELSE IF sawEnd[cpu] THEN "user" ELSE "r_sleep")
    /\ ReadReturn
    /\ UNCHANGED <<data, closed, want, pos, moved, sawEnd, rcvd>>

ReadWake == /\ At("r_wake") /\ WakeOne("writers", "user")
            /\ UNCHANGED <<guard, pipe>>

\* riv_waitq_sleep(&p->readers, NULL).
ReadSleep == /\ At("r_sleep")
             /\ WaitqEnqueue("readers") /\ Goto("r_yield")
             /\ UNCHANGED <<schedLock, machine, ret, picked, guard, pipe>>
ReadYield == At("r_yield") /\ YieldSelect("r_lock") /\ UNCHANGED <<guard, pipe>>

-----------------------------------------------------------------------------
(* riv_pipe_close: wake_all is a loop of riv_waitq_wake_one, and the timer *)
(* can come between two rounds.                                            *)

Close == /\ At("user") /\ cpu \in Closer /\ ~closed
         /\ \/ GuardHang /\ UNCHANGED pipe
            \/ /\ guard = Null
               /\ closed' = TRUE
               /\ Local("c_readers")
               /\ UNCHANGED <<guard, data, want, pos, asked, moved, sawEnd, rcvd, eof>>

WakeAll(q, l, next) == /\ At(l)
                       /\ WakeOne(q, IF waitq[q] = <<>> THEN next ELSE l)
                       /\ UNCHANGED <<guard, pipe>>

CloseReaders == WakeAll("readers", "c_readers", "c_writers")
\* Mutant of CloseWriters: only the readers are told.
CloseWritersSkipped == At("c_writers") /\ Local("user") /\ UNCHANGED <<guard, pipe>>
CloseWriters == WakeAll("writers", "c_writers", "user")

\* What the execution on the CPU does of its own accord, and the timer.
OwnStep == \/ WriteCall \/ WriteLock \/ WriteBody \/ WriteClosed \/ WriteUnlock
           \/ WriteWake \/ WriteSleep \/ WriteYield
           \/ ReadCall \/ ReadLock \/ ReadBody \/ ReadUnlock
           \/ ReadWake \/ ReadSleep \/ ReadYield
           \/ Close \/ CloseReaders \/ CloseWriters
           \/ ((UserYield \/ SwitchStep) /\ UNCHANGED pipe)
Timer == TickStep /\ UNCHANGED pipe

Next == OwnStep \/ Timer

Spec == Init /\ [][Next]_vars

\* A process that gets the CPU again and again executes, and yields between its
\* calls; the timer, if there is one, keeps firing.
Fairness == /\ \A p \in Proc : SF_vars(cpu = p /\ OwnStep)
            /\ \A p \in Proc : SF_vars(cpu = p /\ UserYield /\ UNCHANGED pipe)
            /\ WF_vars(Timer)

FairSpec == Spec /\ Fairness

-----------------------------------------------------------------------------
(* Properties.                                                             *)

Labels == {"w_lock", "w_body", "w_closed", "w_unlock", "w_wake", "w_sleep", "w_yield",
           "r_lock", "r_body", "r_unlock", "r_wake", "r_sleep", "r_yield",
           "c_readers", "c_writers"}

\* Every variable has its type, and the ring never holds more than its capacity.
TypeOK == /\ KernelTypeOK(Labels) /\ guard \in Exec
          /\ data \in Seq(Writer \X (1 .. MaxBytes)) /\ Len(data) <= Cap
          /\ closed \in BOOLEAN /\ eof \in BOOLEAN
          /\ want \in [Writer -> 0 .. MaxBytes] /\ pos \in [Writer -> 0 .. MaxBytes]
          /\ asked \in [Exec -> 0 .. MaxN]
          /\ moved \in [Exec -> 0 .. MaxN] /\ sawEnd \in [Exec -> BOOLEAN]
          /\ rcvd \in [Writer -> 0 .. MaxBytes]

\* Nothing is lost, repeated or reordered: the bytes of each writer that are in
\* the ring are the ones after the last one read, in order, and up to the last
\* one stored; also when a write is split over several sleeps and readers and
\* writers compete.  A write to a closed pipe stores nothing.
OfWriter(w, k) == {i \in 1 .. k : data[i][1] = w}
InOrder == \A w \in Writer :
    /\ ~closed => pos[w] = rcvd[w] + Cardinality(OfWriter(w, Len(data)))
    /\ \A i \in OfWriter(w, Len(data)) : data[i][2] = rcvd[w] + Cardinality(OfWriter(w, i))

\* End of file is final: when a riv_pipe_read that asked for a byte or more has
\* returned 0 the pipe is closed and empty, and no write that was under way adds
\* a byte to it any more.  (A read of 0 bytes also returns 0 on a closed pipe,
\* whatever is in it: its 0 is not an end of file.)
EofIsFinal == eof => closed /\ data = <<>>

Reading(p) == pc[p] \in {"r_lock", "r_body", "r_unlock", "r_sleep", "r_yield"}
              \/ ret[p] = "r_lock"
Writing(p) == pc[p] \in {"w_lock", "w_body", "w_unlock", "w_sleep", "w_yield"}
              \/ ret[p] = "w_lock"

\* A reader that wants bytes blocks only while the pipe is empty: with bytes in
\* it, its riv_pipe_read gets some.  That is so for the only reader of a pipe: a
\* transfer wakes one process, and with several readers it may wake one that
\* takes less than there is, and nothing wakes the next.  (A read of 0 bytes
\* sleeps whatever is there, until the pipe is closed.)
ReaderServed == \A p \in Reader :
    Reading(p) /\ asked[p] > 0 /\ data # <<>> ~> ~Reading(p) \/ data = <<>>

\* The only writer of a pipe blocks only while it is full: with room in it, its
\* riv_pipe_write stores more bytes and returns, or the pipe is full again.
WriterServed == \A p \in Writer :
    Writing(p) /\ Len(data) < Cap ~> ~Writing(p) \/ Len(data) = Cap

\* riv_pipe_close releases everybody: nobody stays blocked on a closed pipe.
CloseReleases == \A p \in Reader \cup Writer :
    closed /\ (Reading(p) \/ Writing(p)) ~> ~Reading(p) /\ ~Writing(p)

\* The kernel under these calls stays in one piece: the variables have their
\* types, no process is linked twice, and every context is its process's own.
Consistent == TypeOK /\ LinkedOnce /\ ContextOwned
=============================================================================
