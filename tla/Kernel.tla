------------------------------- MODULE Kernel -------------------------------
(***************************************************************************)
(* The one-CPU kernel substrate shared by the blocking primitives:         *)
(* include/rivet/proc.h (process table, run queue, yield, timer tick),     *)
(* waitq.h (sleep and wake), spin.h and irq.h (locks that mask            *)
(* interrupts) and list.h (the queues, as sequences).                      *)
(*                                                                         *)
(* Granularity.  riv_sched.current is one global, so there is one CPU and  *)
(* interleaving comes only from the timer interrupt and from giving up the *)
(* CPU.  A spin_locked block runs with interrupts off and is one step.  If *)
(* its lock is already held the CPU spins with interrupts off, and nobody  *)
(* is left to release the lock: that is the step Hang.  A wait queue's own *)
(* lock is only ever held inside such a step, so it is not a variable.     *)
(*                                                                         *)
(* An execution (a kernel stack and the registers running on it) is named  *)
(* by the process it was created for; Null is the boot execution and also  *)
(* the NULL process.  cpu is the execution on the processor, current the   *)
(* process that riv_sched believes is running: they differ between the     *)
(* release of riv_sched.lock and riv_ctx_switch.                           *)
(***************************************************************************)
EXTENDS Naturals, Sequences

CONSTANTS NProc,   \* RIV_PROC_MAX, slots of riv_sched.table
          Queue,   \* the wait queues of the system
          Preempt  \* when the timer interrupt is taken: "off" (no timer),
                   \* "anywhere" interrupts are enabled, or "outside_switch":
                   \* not between riv_sched.lock's release and riv_ctx_switch

ASSUME KernelAssumption == /\ NProc \in Nat \ {0}
                           /\ Preempt \in {"off", "outside_switch", "anywhere"}

Proc == 1 .. NProc
Null == 0
Exec == Proc \cup {Null}
ProcState == {"UNUSED", "READY", "RUNNING", "SLEEPING", "ZOMBIE"}

VARIABLES pstate,    \* riv_proc.state of each slot
          runq,      \* riv_sched.runq
          current,   \* riv_sched.current
          schedLock, \* riv_sched.lock is held
          waitq,     \* the processes linked into each wait queue
          irq,       \* interrupts are enabled
          cpu,       \* the execution on the processor
          ctx,       \* the execution saved in each riv_proc.ctx
          flags,     \* interrupt flag with which an execution resumes
          pc,        \* where each execution is
          ret,       \* where it continues after a yield
          picked     \* locals `cur` and `next` of its riv_proc_yield

table == <<pstate, runq, current, waitq>>
machine == <<irq, cpu, ctx, flags>>
control == <<pc, ret, picked>>
kernel == <<table, schedLock, machine, control>>

Goto(l) == pc' = [pc EXCEPT ![cpu] = l]
At(l) == pc[cpu] = l
Members(s) == {s[i] : i \in DOMAIN s}

\* riv_list_del: the node of p is unlinked, from the place where it is linked.
Without(s, p) ==
    LET k == CHOOSE i \in DOMAIN s : s[i] = p
    IN  IF p \in Members(s)
          THEN [i \in 1 .. Len(s) - 1 |-> IF i < k THEN s[i] ELSE s[i + 1]]
          ELSE s

-----------------------------------------------------------------------------
(* spin.h, irq.h: what a spin_locked block does when it cannot enter.      *)

Hang == /\ irq' = FALSE
        /\ Goto("hung")
        /\ UNCHANGED <<table, schedLock, cpu, ctx, flags, ret, picked>>

-----------------------------------------------------------------------------
(* riv_proc_yield.                                                         *)

\* Mutants of Requeued: a process that sleeps or has exited is queued as well;
\* the preempted process is forgotten; it goes to the front.
RequeuedAlways == IF current # Null THEN Append(runq, current) ELSE runq
RequeuedNever == runq
RequeuedFront == IF current # Null /\ pstate[current] = "RUNNING"
                   THEN <<current>> \o runq ELSE runq

\* The run queue once a current process that still wants to run is at its end.
Requeued == IF current # Null /\ pstate[current] = "RUNNING"
              THEN Append(runq, current) ELSE runq

\* The body of the locked block when the run queue is not empty.
Elect == LET next == Head(Requeued) IN
    /\ runq # <<>>
    /\ runq' = Tail(Requeued)
    /\ current' = next
    /\ pstate' = [p \in Proc |->
                    IF p = next THEN "RUNNING"
                    ELSE IF p = current /\ pstate[p] = "RUNNING" THEN "READY"
                    ELSE pstate[p]]
    /\ UNCHANGED waitq

\* riv_ctx_switch(save, load), supplied by the port: registers and interrupt
\* flag go to save->ctx, those of load->ctx are resumed.
CtxSwitch(save, load, flag) ==
    /\ ctx' = IF save = Null THEN ctx ELSE [ctx EXCEPT ![save] = cpu]
    /\ flags' = [flags EXCEPT ![cpu] = flag]
    /\ cpu' = ctx[load]
    /\ irq' = flags[ctx[load]]

\* Called by the execution on the CPU, which continues at l.  On an empty run
\* queue the code breaks out of the spin_locked block, so the expression that
\* releases the lock and restores the interrupt flag is not evaluated.
YieldSelect(l) ==
    \/ schedLock /\ Hang
    \/ /\ ~schedLock /\ runq = <<>>
       /\ schedLock' = TRUE /\ irq' = FALSE
       /\ Goto(l)
       /\ UNCHANGED <<table, cpu, ctx, flags, ret, picked>>
    \/ /\ ~schedLock /\ Elect
       /\ IF current' = current
            THEN Goto(l) /\ UNCHANGED <<ret, picked>>
            ELSE /\ Goto("switch")
                 /\ ret' = [ret EXCEPT ![cpu] = l]
                 /\ picked' = [picked EXCEPT ![cpu] = <<current, current'>>]
       /\ UNCHANGED <<schedLock, machine>>

\* Mutant of Switch: riv_sched.current is read again instead of using `cur`.
SwitchReread ==
    /\ At("switch")
    /\ CtxSwitch(current, picked[cpu][2], irq)
    /\ Goto(ret[cpu])
    /\ ret' = [ret EXCEPT ![cpu] = "user"]
    /\ picked' = [picked EXCEPT ![cpu] = <<Null, Null>>]
    /\ UNCHANGED <<table, schedLock>>

\* The second half of riv_proc_yield, after the lock has been released and
\* interrupts are again as the caller had them.
Switch ==
    /\ At("switch")
    /\ CtxSwitch(picked[cpu][1], picked[cpu][2], irq)
    /\ Goto(ret[cpu])
    /\ ret' = [ret EXCEPT ![cpu] = "user"]
    /\ picked' = [picked EXCEPT ![cpu] = <<Null, Null>>]
    /\ UNCHANGED <<table, schedLock>>

\* The timer interrupt: riv_sched_tick_irq yields with interrupts off from
\* entry to return, so election and switch are one step.  Returning from the
\* interrupt enables interrupts again, also after the early exit of the block.
Tick ==
    /\ irq /\ Preempt # "off"
    /\ At("switch") => Preempt = "anywhere"
    /\ \/ schedLock /\ Hang
       \/ /\ ~schedLock /\ runq = <<>>
          /\ schedLock' = TRUE
          /\ UNCHANGED <<table, machine, control>>
       \/ /\ ~schedLock /\ Elect
          /\ IF current' = current
               THEN UNCHANGED machine
               ELSE CtxSwitch(current, current', TRUE)
          /\ UNCHANGED <<schedLock, control>>

-----------------------------------------------------------------------------
(* riv_proc_ready, and waitq.h.                                            *)

\* What riv_proc_ready does to the table inside its locked block.
MakeReady(p) == /\ pstate' = [pstate EXCEPT ![p] = "READY"]
                /\ runq' = Append(runq, p)

\* riv_waitq_sleep up to the end of its locked block.  riv_list_del takes the
\* process off whatever list it is linked into.
WaitqEnqueue(q) ==
    /\ pstate' = [pstate EXCEPT ![current] = "SLEEPING"]
    /\ runq' = Without(runq, current)
    /\ waitq' = [r \in Queue |->
                   IF r = q THEN Append(Without(waitq[r], current), current)
                            ELSE Without(waitq[r], current)]
    /\ UNCHANGED current

\* Mutant of Wake: the waiter is made ready but stays in the wait queue.
WakePeek(q) == MakeReady(Head(waitq[q])) /\ UNCHANGED <<waitq, current>>

\* The first waiter of q leaves it for the run queue.
Wake(q) == /\ MakeReady(Head(waitq[q]))
           /\ waitq' = [waitq EXCEPT ![q] = Tail(@)]
           /\ UNCHANGED current

\* riv_waitq_wake_one; the caller continues at l.  riv_proc_ready takes
\* riv_sched.lock inside the block, with interrupts off.
WakeOne(q, l) ==
    \/ /\ waitq[q] = <<>>
       /\ Goto(l)
       /\ UNCHANGED <<table, schedLock, machine, ret, picked>>
    \/ /\ waitq[q] # <<>> /\ ~schedLock
       /\ Wake(q)
       /\ Goto(l)
       /\ UNCHANGED <<schedLock, machine, ret, picked>>
    \/ waitq[q] # <<>> /\ schedLock /\ Hang

\* A step of the execution on the CPU that touches nothing of the kernel.
Local(l) == Goto(l) /\ UNCHANGED <<table, schedLock, machine, ret, picked>>

-----------------------------------------------------------------------------
(* A state that boot code reaches: riv_proc_alloc and riv_proc_ready of    *)
(* every process in turn, with empty wait queues, then its first           *)
(* riv_proc_yield, which elects process 1 and leaves the boot stack.       *)
(* Sched starts earlier, at RIV_PROC_DECLARE, and takes these steps.       *)

BootedInit ==
    /\ pstate = [p \in Proc |-> IF p = 1 THEN "RUNNING" ELSE "READY"]
    /\ runq = [i \in 1 .. NProc - 1 |-> i + 1]
    /\ current = 1 /\ cpu = 1
    /\ schedLock = FALSE /\ irq = TRUE
    /\ waitq = [q \in Queue |-> <<>>]
    /\ ctx = [p \in Proc |-> p]
    /\ flags = [e \in Exec |-> TRUE]
    /\ pc = [e \in Exec |-> "user"]
    /\ ret = [e \in Exec |-> "user"]
    /\ picked = [e \in Exec |-> <<Null, Null>>]

-----------------------------------------------------------------------------
(* Properties of the substrate, checked by every component built on it.    *)

KernelTypeOK(Label) ==
    /\ pstate \in [Proc -> ProcState]
    /\ runq \in Seq(Proc)
    /\ current \in Exec /\ cpu \in Exec
    /\ schedLock \in BOOLEAN /\ irq \in BOOLEAN
    /\ waitq \in [Queue -> Seq(Proc)]
    /\ ctx \in [Proc -> Exec] /\ flags \in [Exec -> BOOLEAN]
    /\ pc \in [Exec -> Label \cup {"user", "switch", "hung"}]
    /\ ret \in [Exec -> Label \cup {"user"}]
    /\ picked \in [Exec -> Exec \X Exec]

\* A process is linked into at most one queue, once, and in the state that
\* goes with the queue.  list.h does not check: adding a node that is already
\* linked would cut the list apart, so riv_proc_yield, riv_proc_ready and
\* riv_waitq_sleep depend on this.
LinkedOnce ==
    /\ \A p \in Members(runq) : pstate[p] = "READY"
    /\ \A i, j \in DOMAIN runq : runq[i] = runq[j] => i = j
    /\ \A q \in Queue : \A i \in DOMAIN waitq[q] :
         /\ pstate[waitq[q][i]] = "SLEEPING"
         /\ \A r \in Queue : \A j \in DOMAIN waitq[r] :
              waitq[q][i] = waitq[r][j] => q = r /\ i = j

\* Only the current process is RUNNING, and every saved context holds the
\* execution of its own process: a switch never resumes a process on another
\* one's stack, and what runs is what riv_sched.current says.
ContextOwned == /\ \A p \in Proc : pstate[p] = "RUNNING" => p = current
                /\ \A p \in Proc : ctx[p] = p
                /\ ~At("switch") /\ ~At("hung") => cpu = current
=============================================================================
