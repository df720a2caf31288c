-------------------------------- MODULE Mutex -------------------------------
(***************************************************************************)
(* include/rivet/mutex.h: the sleeping mutex on top of the wait queue,     *)
(* used by processes that lock only what they do not hold and unlock only  *)
(* what they hold, on the preemptible one-CPU kernel of Kernel.            *)
(***************************************************************************)
EXTENDS Waitq

ASSUME MutexAssumption == "waiters" \in Queue \* riv_mutex.waiters

VARIABLES owner, \* riv_mutex.owner
          holds  \* processes whose lock or trylock has returned successfully

mutex_vars == <<base, owner, holds>>

MutexInit == BootedInit /\ guard = Null /\ owner = Null /\ holds = {}

-----------------------------------------------------------------------------
(* riv_mutex_lock.                                                         *)

LockCall == /\ At("user") /\ cpu \in User \ holds
            /\ Local("lock")
            /\ UNCHANGED <<guard, owner, holds>>

LockSpin == SpinLock("lock", "test") /\ UNCHANGED <<owner, holds>>

\* Mutant of LockTest: the guard is released before the caller is queued.
LockTestUnguarded == /\ At("test")
                     /\ IF owner = Null
                          THEN Local("claim") /\ UNCHANGED guard
                          ELSE Local("sleep") /\ guard' = Null
                     /\ UNCHANGED <<owner, holds>>

LockTest == /\ At("test")
            /\ Local(IF owner = Null THEN "claim" ELSE "sleep")
            /\ UNCHANGED <<guard, owner, holds>>

\* `me` is riv_sched.current: this execution runs only as its own process.
LockClaim == /\ At("claim")
             /\ owner' = current
             /\ Local("got")
             /\ UNCHANGED <<guard, holds>>

\* Mutant of LockReturn: the guard is not released on the way out.
LockReturnGuarded == /\ At("got") /\ Local("user")
                     /\ holds' = holds \cup {cpu}
                     /\ UNCHANGED <<owner, guard>>

LockReturn == /\ SpinUnlock("got", "user")
              /\ holds' = holds \cup {cpu}
              /\ UNCHANGED owner

\* riv_waitq_sleep(&m->waiters, &m->guard) ends with the guard held, and the
\* loop of riv_mutex_lock then takes the guard.
LockSleep == /\ \/ SleepEnqueue("waiters") \/ SleepUnlock
                \/ SleepYield \/ SleepRelock("lock")
             /\ UNCHANGED <<owner, holds>>

-----------------------------------------------------------------------------
(* riv_mutex_trylock, riv_mutex_unlock.                                    *)

\* Mutant of TryLock: the owner is not looked at.
TryLockBlind == /\ At("user") /\ cpu \in User \ holds
                /\ \/ GuardHang /\ UNCHANGED <<owner, holds>>
                   \/ /\ guard = Null
                      /\ owner' = current /\ holds' = holds \cup {cpu}
                      /\ Local("user") /\ UNCHANGED guard

TryLock == /\ At("user") /\ cpu \in User \ holds
           /\ \/ GuardHang /\ UNCHANGED <<owner, holds>>
              \/ /\ guard = Null /\ owner = Null
                 /\ owner' = current /\ holds' = holds \cup {cpu}
                 /\ Local("user") /\ UNCHANGED guard

Unlock == /\ At("user") /\ cpu \in holds
          /\ holds' = holds \ {cpu}
          /\ \/ GuardHang /\ UNCHANGED owner
             \/ /\ guard = Null
                /\ owner' = Null
                /\ Local("wake") /\ UNCHANGED guard

UnlockWake == /\ At("wake") /\ WakeOne("waiters", "user")
              /\ UNCHANGED <<guard, owner, holds>>

Background == (UserYield \/ SwitchStep \/ TickStep) /\ UNCHANGED <<owner, holds>>

MutexNext == \/ LockCall \/ LockSpin \/ LockTest \/ LockClaim \/ LockReturn
        \/ LockSleep \/ TryLock \/ Unlock \/ UnlockWake \/ Background

MutexSpec == MutexInit /\ [][MutexNext]_mutex_vars

-----------------------------------------------------------------------------
(* Properties.                                                             *)

\* Every variable has its type.
MutexTypeOK == /\ KernelTypeOK({"lock", "test", "claim", "got", "wake"} \cup SleepLabels)
          /\ guard \in Exec /\ owner \in Exec /\ holds \subseteq Proc

\* At most one process is past riv_mutex_lock or riv_mutex_trylock and not yet
\* in riv_mutex_unlock, and it is the recorded owner: preemption between the
\* test of m->owner and the assignment never lets a second one in.
MutualExclusion == \A p \in holds : owner = p

\* No wake-up is lost: while the mutex is free and processes wait for it, the
\* last unlocker has its riv_waitq_wake_one still to come, or a process that
\* was woken is on its way back to the test.
NoLostWakeup ==
    owner = Null /\ waitq["waiters"] # <<>> /\ ~At("hung") =>
        \E e \in Proc : pc[e] = "wake" \/ Returning(e, "waiters", {"lock", "test", "claim"})

\* What can stop the CPU: a trylock or unlock spins with interrupts off only on
\* a guard whose holder was preempted inside riv_mutex_lock, or behind a yield
\* that leaked riv_sched.lock.  No way out of the mutex leaves its guard held.
StoppedByHolder ==
    At("hung") => \/ schedLock
                  \/ guard # cpu /\ pc[guard] \in {"lock", "test", "claim", "got", "sleep", "sleep_unlock"}

\* The kernel under these calls stays in one piece: the variables have their
\* types, no process is linked twice, and every context is its process's own.
MutexConsistent == MutexTypeOK /\ LinkedOnce /\ ContextOwned
=============================================================================
