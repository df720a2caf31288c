-------------------------------- MODULE Waitq -------------------------------
(***************************************************************************)
(* A blocking primitive's guard (a riv_spin) and riv_waitq_sleep with that *)
(* guard as cond_lock, as mutex.h and sem.h use them.  The guard is taken  *)
(* by riv_spin_lock with interrupts on in the blocking calls, so its       *)
(* holder can be preempted, and by spin_locked in the others.              *)
(***************************************************************************)
EXTENDS Kernel

CONSTANT User \* processes that call the primitive; the others compute and yield

ASSUME WaitqAssumption == User \subseteq Proc

VARIABLE guard \* the execution that holds the guard, or Null

base == <<kernel, guard>>

\* riv_spin_lock(guard) at label l.  A caller that finds it held busy-waits: it
\* takes no step, and only the timer can give the CPU to somebody else.
SpinLock(l, next) == /\ At(l) /\ guard = Null
                     /\ guard' = cpu
                     /\ Local(next)

\* riv_spin_unlock(guard) at label l.
SpinUnlock(l, next) == At(l) /\ guard' = Null /\ Local(next)

\* A spin_locked(guard) block that has to wait: interrupts are off, so the
\* holder can never run to release it.
GuardHang == guard # Null /\ Hang /\ UNCHANGED guard

\* riv_waitq_sleep(q, guard), entered at "sleep" and returning to l: onto the
\* queue, release the guard, give up the CPU, take the guard again.
SleepEnqueue(q) == /\ At("sleep")
                   /\ WaitqEnqueue(q)
                   /\ Goto("sleep_unlock")
                   /\ UNCHANGED <<schedLock, machine, ret, picked, guard>>
SleepUnlock == SpinUnlock("sleep_unlock", "sleep_yield")
SleepYield == At("sleep_yield") /\ YieldSelect("sleep_relock") /\ UNCHANGED guard
SleepRelock(l) == SpinLock("sleep_relock", l)

SleepLabels == {"sleep", "sleep_unlock", "sleep_yield", "sleep_relock"}

\* Outside the primitive a process computes, and may call riv_proc_yield.
UserYield == At("user") /\ YieldSelect("user") /\ UNCHANGED guard
SwitchStep == Switch /\ UNCHANGED guard
TickStep == Tick /\ UNCHANGED guard

\* A process that has left the wait queue q and has not yet got what it waited
\* for: it is on its way back to test the condition.
Returning(e, q, retry) ==
    /\ e \notin Members(waitq[q])
    /\ \/ pc[e] \in retry \cup {"sleep_unlock", "sleep_yield", "sleep_relock"}
       \/ pc[e] = "switch" /\ ret[e] = "sleep_relock"
=============================================================================
