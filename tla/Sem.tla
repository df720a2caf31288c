--------------------------------- MODULE Sem --------------------------------
(***************************************************************************)
(* include/rivet/sem.h: the counting semaphore on top of the wait queue,   *)
(* posted by processes and by an interrupt handler.                        *)
(***************************************************************************)
EXTENDS Waitq, FiniteSets

CONSTANTS Initial, \* count given to riv_sem_init
          MaxPost, \* bound on the number of riv_sem_post calls
          IsrPosts \* whether an interrupt handler posts too

ASSUME SemAssumption == "waiters" \in Queue /\ Initial \in Nat /\ MaxPost \in Nat /\ IsrPosts \in BOOLEAN

VARIABLES count,  \* riv_sem.count
          val,    \* count as loaded by the `count--` of each execution
          posted, \* posts so far
          taken   \* units handed out by riv_sem_wait and riv_sem_trywait

sem == <<count, val, posted, taken>>
vars == <<base, sem>>

Init == /\ BootedInit /\ guard = Null
        /\ count = Initial /\ val = [e \in Exec |-> 0]
        /\ posted = 0 /\ taken = 0

-----------------------------------------------------------------------------
(* riv_sem_wait: load and store of `count--` are separate instructions.    *)

WaitCall == /\ At("user") /\ cpu \in User
            /\ Local("wait")
            /\ UNCHANGED <<guard, sem>>

\* Mutant of WaitSpin: the count is used without the guard.
WaitSpinless == At("wait") /\ Local("test") /\ UNCHANGED <<guard, sem>>

WaitSpin == SpinLock("wait", "test") /\ UNCHANGED sem

WaitTest == /\ At("test")
            /\ IF count > 0
                 THEN val' = [val EXCEPT ![cpu] = count] /\ Local("take")
                 ELSE val' = val /\ Local("sleep")
            /\ UNCHANGED <<guard, count, posted, taken>>

WaitTake == /\ At("take")
            /\ count' = val[cpu] - 1
            /\ val' = [val EXCEPT ![cpu] = 0]
            /\ taken' = taken + 1
            /\ Local("got")
            /\ UNCHANGED <<guard, posted>>

WaitReturn == SpinUnlock("got", "user") /\ UNCHANGED sem

\* riv_waitq_sleep ends with the guard held, then the loop takes the guard.
WaitSleep == /\ \/ SleepEnqueue("waiters") \/ SleepUnlock
                \/ SleepYield \/ SleepRelock("wait")
             /\ UNCHANGED sem

-----------------------------------------------------------------------------
(* riv_sem_trywait and riv_sem_post.                                       *)

TryWait == /\ At("user") /\ cpu \in User
           /\ \/ GuardHang /\ UNCHANGED sem
              \/ /\ guard = Null /\ count > 0
                 /\ count' = count - 1 /\ taken' = taken + 1
                 /\ Local("user") /\ UNCHANGED <<guard, val, posted>>

\* Mutant of Post: only the post that makes the count non-zero wakes a waiter.
PostFirstOnly == /\ At("user") /\ posted < MaxPost
                 /\ \/ GuardHang /\ UNCHANGED sem
                    \/ /\ guard = Null
                       /\ count' = count + 1 /\ posted' = posted + 1
                       /\ Local(IF count = 0 THEN "wake" ELSE "user")
                       /\ UNCHANGED <<guard, val, taken>>

Post == /\ At("user") /\ posted < MaxPost
        /\ \/ GuardHang /\ UNCHANGED sem
           \/ /\ guard = Null
              /\ count' = count + 1 /\ posted' = posted + 1
              /\ Local("wake") /\ UNCHANGED <<guard, val, taken>>

PostWake == At("wake") /\ WakeOne("waiters", "user") /\ UNCHANGED <<guard, sem>>

\* riv_sem_post in an interrupt handler: interrupts stay off to the end.
IsrPost ==
    /\ IsrPosts /\ irq /\ posted < MaxPost
    /\ \/ GuardHang /\ UNCHANGED sem
       \/ /\ guard = Null
          /\ count' = count + 1 /\ posted' = posted + 1
          /\ \/ waitq["waiters"] = <<>> /\ UNCHANGED kernel
             \/ /\ waitq["waiters"] # <<>> /\ ~schedLock
                /\ Wake("waiters") /\ UNCHANGED <<schedLock, machine, control>>
             \/ waitq["waiters"] # <<>> /\ schedLock /\ Hang
          /\ UNCHANGED <<guard, val, taken>>

\* What the execution on the CPU does of its own accord, and the interrupts.
OwnStep == \/ WaitCall \/ WaitSpin \/ WaitTest \/ WaitTake \/ WaitReturn \/ WaitSleep
           \/ TryWait \/ Post \/ PostWake
           \/ ((UserYield \/ SwitchStep) /\ UNCHANGED sem)
Interrupt == IsrPost \/ (TickStep /\ UNCHANGED sem)

Next == OwnStep \/ Interrupt

Spec == Init /\ [][Next]_vars

\* A process that gets the CPU again and again executes, and comes back to a
\* yield.
FairSpec == Spec /\ \A p \in Proc : SF_vars(cpu = p /\ OwnStep)

-----------------------------------------------------------------------------
(* Properties.                                                             *)

\* Every variable has its type; the count is never negative.
TypeOK == /\ KernelTypeOK({"wait", "test", "take", "got", "wake"} \cup SleepLabels)
          /\ guard \in Exec /\ count \in Nat /\ val \in [Exec -> Nat]
          /\ posted \in 0 .. MaxPost /\ taken \in Nat

\* Units are conserved: the unguarded load and store of `count--` never undo a
\* post or a wait that ran in between.
Conservation == count + taken = Initial + posted

\* Every unit that is available while processes sleep is accounted for by a
\* poster that has its riv_waitq_wake_one still to come or by a process on its
\* way back to the test: wake-ups are neither lost nor too few.
EnoughWakeups ==
    waitq["waiters"] # <<>> /\ ~At("hung") =>
        count <= Cardinality({e \in Proc : \/ pc[e] = "wake"
                                           \/ Returning(e, "waiters", {"wait", "test"})})

\* A process blocked in riv_sem_wait while units are available gets one, or
\* somebody else does: post wakes a waiter and the waiter returns.
Blocked(p) == pc[p] \notin {"user", "wake", "switch"} \/ ret[p] = "sleep_relock"
PostIsTaken == \A p \in Proc : Blocked(p) /\ count > 0 ~> ~Blocked(p) \/ count = 0

\* The kernel under these calls stays in one piece: the variables have their
\* types, no process is linked twice, and every context is its process's own.
Consistent == TypeOK /\ LinkedOnce /\ ContextOwned
=============================================================================
