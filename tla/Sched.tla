-------------------------------- MODULE Sched -------------------------------
(***************************************************************************)
(* The life of processes in include/rivet/proc.h: boot creates the first   *)
(* ones and hands over the CPU; a running process may create, reap, yield  *)
(* or exit at any time, and the timer may preempt it at any instruction.   *)
(***************************************************************************)
EXTENDS Kernel

CONSTANT Immortal \* processes that boot starts and that never call riv_proc_exit

ASSUME SchedAssumption == Immortal \subseteq Proc

VARIABLES parent, \* riv_proc.parent
          kid     \* local of an execution: the process it is creating

vars == <<kernel, parent, kid>>

Init == /\ pstate = [p \in Proc |-> "UNUSED"]
        /\ runq = <<>> /\ current = Null /\ cpu = Null
        /\ schedLock = FALSE /\ irq = FALSE
        /\ waitq = [q \in Queue |-> <<>>]
        /\ ctx = [p \in Proc |-> p]
        /\ flags = [e \in Exec |-> TRUE]
        /\ pc = [e \in Exec |-> "user"]
        /\ ret = [e \in Exec |-> "user"]
        /\ picked = [e \in Exec |-> <<Null, Null>>]
        /\ parent = [p \in Proc |-> Null]
        /\ kid = [e \in Exec |-> Null]

\* riv_proc_alloc, then the caller fills in the new process's context.  With
\* the table full it returns NULL and nothing changes.
ProcAlloc ==
    /\ At("user")
    /\ \/ schedLock /\ Hang /\ UNCHANGED <<parent, kid>>
       \/ \E p \in Proc :
            /\ ~schedLock
            /\ pstate[p] = "UNUSED" /\ \A o \in 1 .. p - 1 : pstate[o] # "UNUSED"
            /\ pstate' = [pstate EXCEPT ![p] = "READY"]
            /\ parent' = [parent EXCEPT ![p] = current]
            /\ ctx' = [ctx EXCEPT ![p] = p]
            /\ flags' = [flags EXCEPT ![p] = TRUE]
            /\ pc' = [pc EXCEPT ![p] = "user", ![cpu] = "made"]
            /\ kid' = [kid EXCEPT ![cpu] = p]
            /\ UNCHANGED <<runq, current, waitq, schedLock, irq, cpu, ret, picked>>

\* riv_proc_ready on the process just set up.
ProcReady ==
    /\ At("made")
    /\ \/ schedLock /\ Hang /\ UNCHANGED kid
       \/ /\ ~schedLock
          /\ MakeReady(kid[cpu])
          /\ kid' = [kid EXCEPT ![cpu] = Null]
          /\ Goto("user")
          /\ UNCHANGED <<current, waitq, schedLock, machine, ret, picked>>
    /\ UNCHANGED parent

\* riv_proc_free, called by the parent for a child that has exited.
ProcFree ==
    /\ At("user")
    /\ \E p \in Proc :
         /\ current # Null /\ parent[p] = current /\ pstate[p] = "ZOMBIE"
         /\ \/ schedLock /\ Hang
            \/ /\ ~schedLock
               /\ pstate' = [pstate EXCEPT ![p] = "UNUSED"]
               /\ runq' = Without(runq, p)
               /\ waitq' = [q \in Queue |-> Without(waitq[q], p)]
               /\ UNCHANGED <<current, schedLock, machine, control>>
    /\ UNCHANGED <<parent, kid>>

\* riv_proc_yield from a process, or from boot once what it starts is ready.
Yield == /\ At("user")
         /\ cpu = Null => Immortal \subseteq Members(runq)
         /\ YieldSelect("user")
         /\ UNCHANGED <<parent, kid>>

\* riv_proc_exit: no lock is taken to become a zombie, then it yields forever.
ProcExit == /\ At("user") /\ current # Null /\ cpu \notin Immortal
            /\ pstate' = [pstate EXCEPT ![current] = "ZOMBIE"]
            /\ Goto("exit")
            /\ UNCHANGED <<runq, current, waitq, schedLock, machine, ret, picked>>
            /\ UNCHANGED <<parent, kid>>

ExitYield == At("exit") /\ YieldSelect("exit") /\ UNCHANGED <<parent, kid>>

ProcSwitch == Switch /\ UNCHANGED <<parent, kid>>
ProcTick == Tick /\ UNCHANGED <<parent, kid>>

Next == ProcAlloc \/ ProcReady \/ ProcFree \/ Yield \/ ProcExit \/ ExitYield
        \/ ProcSwitch \/ ProcTick

\* The processor completes a yield it has begun, boot hands over, and the timer
\* keeps firing.  A process is not required to make any call.
Fairness == /\ WF_vars(ProcSwitch) /\ WF_vars(ProcTick) /\ WF_vars(ExitYield)
            /\ WF_vars(cpu = Null /\ Next)

Spec == Init /\ [][Next]_vars
FairSpec == Spec /\ Fairness

-----------------------------------------------------------------------------
(* Properties.                                                             *)

\* Every variable has its type; no queue is longer than the process table.
TypeOK == /\ KernelTypeOK({"made", "exit"})
          /\ parent \in [Proc -> Exec] /\ kid \in [Exec -> Exec]

\* No process is lost: one that is READY is in the run queue, except while its
\* creator is between riv_proc_alloc and riv_proc_ready.
NoneLost == \A p \in Proc : pstate[p] = "READY" =>
                p \in Members(runq) \/ \E e \in Exec : kid[e] = p

\* riv_proc_exit is final: a zombie is never scheduled again; its slot comes
\* back to life only through riv_proc_free and riv_proc_alloc.
ZombieStaysDead ==
    [][\A p \in Proc : pstate[p] = "ZOMBIE" => pstate'[p] \in {"ZOMBIE", "UNUSED"}]_vars

\* Round robin: a process in the run queue gets the CPU, however long the
\* running ones compute and however many are created, as long as no yield has
\* left riv_sched.lock held.
RoundRobin == \A p \in Proc : p \in Members(runq) ~> current = p \/ schedLock

\* The kernel under these calls stays in one piece: the variables have their
\* types, no process is linked twice, and every context is its process's own.
Consistent == TypeOK /\ LinkedOnce /\ ContextOwned
=============================================================================
