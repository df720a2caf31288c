----------------------------- MODULE SemProofs ------------------------------
(***************************************************************************)
(* The semaphore of Sem, for every number of processes, users and posts    *)
(* and every initial count: units are conserved although `count--` is two  *)
(* instructions and an interrupt handler posts, and no wake-up is lost.    *)
(***************************************************************************)
EXTENDS Sem, KernelProofs, FiniteSetTheorems

Labels == {"wait", "test", "take", "got", "wake"} \cup SleepLabels

\* Where an execution holds the guard.  It also holds it at "wait" when it
\* comes back from riv_waitq_sleep.
Inside == {"test", "take", "got", "sleep", "sleep_unlock"}

\* Whoever has loaded the count holds the guard, and what it loaded is still
\* the count when it stores.
CountInv ==
    /\ guard \in Exec /\ cpu \in Proc /\ current \in Proc
    /\ count \in Nat /\ val \in [Exec -> Nat] /\ posted \in 0 .. MaxPost /\ taken \in Nat
    /\ \A p \in Proc : pc[p] \in Inside => guard = p
    /\ \A p \in Proc : pc[p] = "take" => val[p] = count /\ count > 0
    /\ \A e \in Exec : ret[e] \in {"user", "sleep_relock"}
    /\ Conservation

CInv == KInv(Labels) /\ CountInv

\* The semaphore's own labels are apart from those of the switch and the stop,
\* and no execution resumes inside the guarded code.
LEMMA LabelFacts == /\ Labels \cap {"switch", "hung"} = {} /\ Inside \subseteq Labels
                    /\ {"user", "sleep_relock"} \cap (Inside \cup {"switch", "hung"}) = {}
                    /\ "sleep_relock" \in Labels
  BY Zenon DEF Labels, Inside, SleepLabels

\* riv_sem_init on a booted kernel establishes the invariant.
LEMMA SemInit == ASSUME Init PROVE CInv
<1>1. /\ BootedInit /\ guard = Null /\ count = Initial /\ val = [e \in Exec |-> 0]
      /\ posted = 0 /\ taken = 0
  BY Zenon DEF Init
<1>2. KInv(Labels) BY <1>1, BootedInv, Zenon
<1>3. 1 \in Proc /\ Null \in Exec BY ProcNotNull, KernelAssumption DEF Proc
<1>4. cpu = 1 /\ current = 1 /\ \A e \in Exec : pc[e] = "user" /\ ret[e] = "user"
  BY <1>1, Zenon DEF BootedInit
<1>5. Initial \in Nat /\ 0 \in 0 .. MaxPost BY SemAssumption
<1>6. \A p \in Proc : pc[p] \notin Inside BY <1>4, ProcNotNull, Zenon DEF Inside
<1>7. Conservation BY <1>1, <1>5, Zenon DEF Conservation
<1>8. \A p \in Proc : pc[p] # "take" BY <1>4, ProcNotNull, Zenon
<1> QED BY <1>1, <1>2, <1>3, <1>4, <1>5, <1>6, <1>7, <1>8, Zenon DEF CInv, CountInv

\* Only the execution on the CPU changes its place, and it goes to l.
Moves(l) == /\ cpu \in Proc /\ cpu \in Exec /\ pc'[cpu] = l
            /\ \A e \in Exec : e # cpu => pc'[e] = pc[e]
            /\ UNCHANGED <<current, cpu, ret>>

\* A step of the semaphore's own code that does not touch the kernel.
LEMMA LocalStep ==
    ASSUME CInv, pc[cpu] \in Labels \cup {"user"}, NEW l \in Labels \cup {"user"}, Local(l)
    PROVE  KInv(Labels)' /\ Moves(l)
<1>1. l \notin {"switch", "hung"} /\ pc[cpu] \notin {"switch", "hung"} BY LabelFacts, Zenon
<1>2. /\ KInv(Labels)' /\ cpu \in Exec /\ pc'[cpu] = l /\ \A e \in Exec : e # cpu => pc'[e] = pc[e]
      /\ UNCHANGED <<current, cpu, ret>>
  BY <1>1, LocalInv, Zenon DEF CInv
<1> QED BY <1>2, Zenon DEF CInv, CountInv, Moves

\* A step that leaves the count and the guard alone and does not take its
\* execution into the guarded code, or leaves it there.
LEMMA FrameStep ==
    ASSUME CInv, UNCHANGED <<guard, sem>>, cpu' \in Proc, current' \in Proc,
           \A e \in Exec : pc'[e] = pc[e] \/ pc'[e] \notin Inside,
           \A e \in Exec : ret'[e] \in {"user", "sleep_relock"}
    PROVE  CountInv'
<1>1. UNCHANGED <<guard, count, val, posted, taken>> BY Zenon DEF sem
<1>2. \A p \in Proc : pc'[p] \in Inside => pc[p] \in Inside BY ProcNotNull, Zenon
<1>3. \A p \in Proc : pc'[p] = "take" => pc[p] = "take" BY ProcNotNull, Zenon DEF Inside
<1>4. \A p \in Proc : pc'[p] \in Inside => guard' = p BY <1>1, <1>2, Zenon DEF CInv, CountInv
<1>5. \A p \in Proc : pc'[p] = "take" => val'[p] = count' /\ count' > 0
  BY <1>1, <1>3, Zenon DEF CInv, CountInv
<1>6. Conservation' BY <1>1, Zenon DEF CInv, CountInv, Conservation
<1> QED BY <1>1, <1>4, <1>5, <1>6, Zenon DEF CInv, CountInv

\* The CPU stops on the guard or behind a leaked riv_sched.lock.
LEMMA HangStep == ASSUME CInv, Hang, UNCHANGED <<guard, sem>> PROVE CInv'
<1>1. /\ KInv(Labels)' /\ cpu \in Exec /\ pc'[cpu] = "hung" /\ \A e \in Exec : e # cpu => pc'[e] = pc[e]
      /\ UNCHANGED <<current, cpu, ret>>
  BY HangInv, Zenon DEF CInv
<1>2. \A e \in Exec : pc'[e] = pc[e] \/ pc'[e] \notin Inside BY <1>1, Zenon DEF Inside
<1>3. CountInv' BY <1>1, <1>2, FrameStep, Zenon DEF CInv, CountInv
<1> QED BY <1>1, <1>3, Zenon DEF CInv

-----------------------------------------------------------------------------
(* riv_sem_wait.                                                           *)

\* The guard is taken: nobody else is in the guarded code.
LEMMA SpinStep ==
    ASSUME CInv, UNCHANGED sem, NEW l \in {"test", "wait"},
           SpinLock("wait", l) \/ SpinLock("sleep_relock", l)
    PROVE  CInv'
<1>1. pc[cpu] \in Labels \cup {"user"} /\ l \in Labels \cup {"user"} /\ Local(l) /\ guard = Null /\ guard' = cpu
  BY Zenon DEF SpinLock, At, Labels, SleepLabels
<1>2. KInv(Labels)' /\ Moves(l) BY <1>1, LocalStep, Zenon
<1>3. UNCHANGED <<count, val, posted, taken>> BY Zenon DEF sem
<1>4. \A p \in Proc : pc[p] \notin Inside BY <1>1, ProcNotNull, Zenon DEF CInv, CountInv
<1>5. \A p \in Proc : p # cpu => pc'[p] \notin Inside BY <1>2, <1>4, ProcNotNull, Zenon DEF Moves
<1>6. \A p \in Proc : pc'[p] # "take" BY <1>2, <1>5, Zenon DEF Moves, Inside
<1>7. Conservation' BY <1>3, Zenon DEF CInv, CountInv, Conservation
<1> QED BY <1>1, <1>2, <1>3, <1>5, <1>6, <1>7, Zenon DEF CInv, CountInv, Moves

\* The guard is released by its holder, which was alone in the guarded code.
LEMMA SpinUnlockStep ==
    ASSUME CInv, UNCHANGED sem,
           SpinUnlock("got", "user") \/ SpinUnlock("sleep_unlock", "sleep_yield")
    PROVE  CInv'
<1>1. PICK l \in {"user", "sleep_yield"} : Local(l) /\ pc[cpu] \in {"got", "sleep_unlock"} /\ guard' = Null
  BY Zenon DEF SpinUnlock, At
<1>2. pc[cpu] \in Labels \cup {"user"} /\ l \in Labels \cup {"user"} /\ l \notin Inside
      /\ pc[cpu] \in Inside
  BY <1>1, Zenon DEF Labels, SleepLabels, Inside
<1>3. KInv(Labels)' /\ Moves(l) BY <1>1, <1>2, LocalStep, Zenon
<1>4. UNCHANGED <<count, val, posted, taken>> BY Zenon DEF sem
<1>5. guard = cpu BY <1>2, Zenon DEF CInv, CountInv
<1>6. \A p \in Proc : pc'[p] \notin Inside
  BY <1>2, <1>3, <1>5, ProcNotNull, Zenon DEF CInv, CountInv, Moves
<1>7. \A p \in Proc : pc'[p] # "take" BY <1>6, Zenon DEF Inside
<1>8. Conservation' BY <1>4, Zenon DEF CInv, CountInv, Conservation
<1> QED BY <1>1, <1>3, <1>4, <1>6, <1>7, <1>8, ProcNotNull, Zenon DEF CInv, CountInv, Moves

\* The test of riv_sem_wait loads the count, with the guard held.
LEMMA WaitTestInv == ASSUME CInv, WaitTest PROVE CInv'
<1>1. pc[cpu] = "test" /\ UNCHANGED <<guard, count, posted, taken>> BY Zenon DEF WaitTest, At
<1>2. guard = cpu BY <1>1, Zenon DEF CInv, CountInv, Inside
<1>3. PICK l \in {"take", "sleep"} :
        /\ Local(l)
        /\ l = "take" => count > 0 /\ val' = [val EXCEPT ![cpu] = count]
        /\ l = "sleep" => val' = val
  BY Zenon DEF WaitTest
<1>4. KInv(Labels)' /\ Moves(l) BY <1>1, <1>3, LocalStep, Zenon DEF Labels, SleepLabels
<1>5. \A p \in Proc : p # cpu => pc'[p] \notin Inside
  BY <1>2, <1>4, ProcNotNull, Zenon DEF CInv, CountInv, Moves
<1>6. val' \in [Exec -> Nat] /\ (l = "take" => val'[cpu] = count)
  BY <1>3, <1>4, Zenon DEF CInv, CountInv, Moves
<1>7. \A p \in Proc : pc'[p] = "take" => p = cpu /\ l = "take"
  BY <1>4, <1>5, Zenon DEF Moves, Inside
<1>8. Conservation' BY <1>1, Zenon DEF CInv, CountInv, Conservation
<1> QED BY <1>1, <1>2, <1>3, <1>4, <1>5, <1>6, <1>7, <1>8, Zenon DEF CInv, CountInv, Moves

\* The store of riv_sem_wait finds the count as it was loaded.
LEMMA WaitTakeInv == ASSUME CInv, WaitTake PROVE CInv'
<1>1. /\ pc[cpu] = "take" /\ Local("got") /\ UNCHANGED <<guard, posted>>
      /\ count' = val[cpu] - 1 /\ val' = [val EXCEPT ![cpu] = 0] /\ taken' = taken + 1
  BY Zenon DEF WaitTake, At
<1>2. guard = cpu /\ val[cpu] = count /\ count > 0 BY <1>1, Zenon DEF CInv, CountInv, Inside
<1>3. KInv(Labels)' /\ Moves("got") BY <1>1, LocalStep, Zenon DEF Labels
<1>4. \A p \in Proc : p # cpu => pc'[p] \notin Inside
  BY <1>2, <1>3, ProcNotNull, Zenon DEF CInv, CountInv, Moves
<1>5. \A p \in Proc : pc'[p] # "take" BY <1>3, <1>4, Zenon DEF Moves, Inside
<1>6. val' \in [Exec -> Nat] BY <1>1, Zenon DEF CInv, CountInv
<1>7. count' \in Nat /\ taken' \in Nat /\ count' = count - 1 BY <1>1, <1>2 DEF CInv, CountInv
<1>8. Conservation' BY <1>1, <1>7, SemAssumption DEF CInv, CountInv, Conservation
<1> QED BY <1>1, <1>2, <1>3, <1>4, <1>5, <1>6, <1>7, <1>8, Zenon DEF CInv, CountInv, Moves

\* riv_waitq_sleep queues the caller, which holds the guard.
LEMMA SleepEnqueueInv == ASSUME CInv, SleepEnqueue("waiters"), UNCHANGED sem PROVE CInv'
<1>1. /\ pc[cpu] = "sleep" /\ WaitqEnqueue("waiters") /\ guard' = guard
      /\ pc' = [pc EXCEPT ![cpu] = "sleep_unlock"]
      /\ UNCHANGED <<schedLock, irq, cpu, ctx, flags, ret, picked>>
  BY Zenon DEF SleepEnqueue, At, Goto, machine
<1>2. cpu = current /\ cpu \in Proc /\ cpu \in Exec /\ guard = cpu
  BY <1>1, ProcNotNull, Zenon DEF CInv, CountInv, KInv, MachineInv, Inside
<1>3. TableInv' BY <1>1, <1>2, SemAssumption, EnqueueTable, Zenon DEF CInv, KInv
<1>4. current' = current BY <1>1, Zenon DEF WaitqEnqueue
<1>5. MachineInv(Labels)' BY <1>1, <1>2, <1>4, Zenon DEF CInv, KInv, MachineInv, Labels, SleepLabels
<1>6. \A e \in Exec : (e = cpu /\ pc'[e] = "sleep_unlock") \/ (e # cpu /\ pc'[e] = pc[e])
  BY <1>1, <1>2, Zenon DEF CInv, KInv, MachineInv
<1>7. UNCHANGED <<count, val, posted, taken>> BY Zenon DEF sem
<1>8. \A p \in Proc : pc'[p] \in Inside => guard' = p
  BY <1>1, <1>2, <1>6, ProcNotNull, Zenon DEF CInv, CountInv
<1>9. \A p \in Proc : pc'[p] = "take" => val'[p] = count' /\ count' > 0
  BY <1>6, <1>7, ProcNotNull, Zenon DEF CInv, CountInv
<1>10. Conservation' BY <1>7, Zenon DEF CInv, CountInv, Conservation
<1>11. CountInv' BY <1>1, <1>4, <1>7, <1>8, <1>9, <1>10, Zenon DEF CInv, CountInv
<1> QED BY <1>3, <1>5, <1>11, Zenon DEF CInv, KInv

\* riv_proc_yield, from user code or from riv_waitq_sleep.
LEMMA YieldStep ==
    ASSUME CInv, pc[cpu] \notin {"switch", "hung"}, NEW l \in {"user", "sleep_relock"},
           YieldSelect(l), UNCHANGED <<guard, sem>>
    PROVE  CInv'
<1>1. l \in Labels \cup {"user"} /\ l \notin Inside \cup {"switch", "hung"} BY LabelFacts, Zenon
<1>2. /\ KInv(Labels)' /\ cpu' = cpu
      /\ \A e \in Exec : e # cpu => pc'[e] = pc[e] /\ ret'[e] = ret[e]
      /\ ret'[cpu] \in {ret[cpu], l} /\ pc'[cpu] \in {l, "switch", "hung"}
      /\ UNCHANGED table \/ Elect
  <2>1. l \notin {"switch", "hung"} BY <1>1, Zenon
  <2> QED BY <1>1, <2>1, YieldInv, Zenon DEF CInv
<1>3. current' \in Proc
  <2>1. CASE Elect
    <3>1. current' \in Members(runq) BY <2>1, ElectTable, Zenon DEF CInv, KInv
    <3> QED BY <3>1, MembersAreProc, Zenon DEF CInv, KInv, TableInv
  <2>2. CASE UNCHANGED table BY <2>2, Zenon DEF CInv, CountInv, table
  <2> QED BY <1>2, <2>1, <2>2, Zenon
<1>4. \A e \in Exec : pc'[e] = pc[e] \/ pc'[e] \notin Inside BY <1>1, <1>2, Zenon DEF Inside
<1>5. \A e \in Exec : ret'[e] \in {"user", "sleep_relock"} BY <1>2, Zenon DEF CInv, CountInv
<1>6. CountInv' BY <1>2, <1>3, <1>4, <1>5, FrameStep, Zenon DEF CInv, CountInv
<1> QED BY <1>2, <1>6, Zenon DEF CInv

\* Every step of riv_waitq_sleep keeps the invariant.
LEMMA WaitSleepInv == ASSUME CInv, WaitSleep PROVE CInv'
<1>1. UNCHANGED sem BY Zenon DEF WaitSleep
<1>2. CASE SleepYield
  <2>1. pc[cpu] \notin {"switch", "hung"} /\ YieldSelect("sleep_relock") /\ guard' = guard
    BY <1>2, Zenon DEF SleepYield, At
  <2> QED BY <1>1, <2>1, YieldStep, Zenon
<1>3. CASE SleepUnlock BY <1>1, <1>3, SpinUnlockStep, Zenon DEF SleepUnlock
<1>4. CASE SleepRelock("wait") BY <1>1, <1>4, SpinStep, Zenon DEF SleepRelock
<1> QED BY <1>1, <1>2, <1>3, <1>4, SleepEnqueueInv, Zenon DEF WaitSleep

-----------------------------------------------------------------------------
(* riv_sem_trywait and riv_sem_post: no guarded code runs when the guard is *)
(* free, so a whole spin_locked block may change the count.                *)

\* The count moves by d, in the same step as the units handed out or posted.
LEMMA FreeStep ==
    ASSUME CInv, guard = Null, UNCHANGED <<guard, val>>, cpu' \in Proc, current' \in Proc,
           count' \in Nat, taken' \in Nat, posted' \in 0 .. MaxPost, Conservation',
           \A e \in Exec : pc'[e] = pc[e] \/ pc'[e] \notin Inside,
           \A e \in Exec : ret'[e] \in {"user", "sleep_relock"}
    PROVE  CountInv'
<1>1. \A p \in Proc : pc'[p] \notin Inside BY ProcNotNull, Zenon DEF CInv, CountInv
<1>2. \A p \in Proc : pc'[p] # "take" BY <1>1, Zenon DEF Inside
<1> QED BY <1>1, <1>2, Zenon DEF CInv, CountInv

\* riv_sem_trywait takes a unit in one spin_locked block.
LEMMA TryWaitInv == ASSUME CInv, TryWait PROVE CInv'
<1>1. CASE GuardHang /\ UNCHANGED sem BY <1>1, HangStep, Zenon DEF GuardHang
<1>2. CASE /\ guard = Null /\ count > 0
           /\ count' = count - 1 /\ taken' = taken + 1
           /\ Local("user") /\ UNCHANGED <<guard, val, posted>>
  <2>1. pc[cpu] = "user" BY Zenon DEF TryWait, At
  <2>2. KInv(Labels)' /\ Moves("user") BY <1>2, <2>1, LocalStep, Zenon
  <2>3. count' \in Nat /\ taken' \in Nat /\ posted' \in 0 .. MaxPost BY <1>2 DEF CInv, CountInv
  <2>4. Conservation' BY <1>2, SemAssumption DEF CInv, CountInv, Conservation
  <2>5. \A e \in Exec : pc'[e] = pc[e] \/ pc'[e] \notin Inside BY <2>2, Zenon DEF Moves, Inside
  <2>6. cpu' \in Proc /\ current' \in Proc /\ \A e \in Exec : ret'[e] \in {"user", "sleep_relock"}
    BY <2>2, Zenon DEF CInv, CountInv, Moves
  <2>7. CountInv' BY <1>2, <2>3, <2>4, <2>5, <2>6, FreeStep, Zenon
  <2> QED BY <2>2, <2>7, Zenon DEF CInv
<1> QED BY <1>1, <1>2, Zenon DEF TryWait

\* A post adds one unit and one to the number of posts.
LEMMA PostedOne ==
    ASSUME CInv, posted < MaxPost, count' = count + 1, posted' = posted + 1, taken' = taken
    PROVE  count' \in Nat /\ taken' \in Nat /\ posted' \in 0 .. MaxPost /\ Conservation'
  BY SemAssumption DEF CInv, CountInv, Conservation

\* riv_sem_post adds a unit in one spin_locked block.
LEMMA PostInv == ASSUME CInv, Post PROVE CInv'
<1>1. CASE GuardHang /\ UNCHANGED sem BY <1>1, HangStep, Zenon DEF GuardHang
<1>2. CASE /\ guard = Null /\ count' = count + 1 /\ posted' = posted + 1
           /\ Local("wake") /\ UNCHANGED <<guard, val, taken>>
  <2>1. pc[cpu] = "user" /\ posted < MaxPost BY Zenon DEF Post, At
  <2>2. KInv(Labels)' /\ Moves("wake") BY <1>2, <2>1, LocalStep, Zenon DEF Labels
  <2>3. \A e \in Exec : pc'[e] = pc[e] \/ pc'[e] \notin Inside BY <2>2, Zenon DEF Moves, Inside
  <2>4. cpu' \in Proc /\ current' \in Proc /\ \A e \in Exec : ret'[e] \in {"user", "sleep_relock"}
    BY <2>2, Zenon DEF CInv, CountInv, Moves
  <2>5. CountInv' BY <1>2, <2>1, <2>3, <2>4, PostedOne, FreeStep, Zenon
  <2> QED BY <2>2, <2>5, Zenon DEF CInv
<1> QED BY <1>1, <1>2, Zenon DEF Post

\* The wake-up of riv_sem_post leaves the count alone.
LEMMA PostWakeInv == ASSUME CInv, PostWake PROVE CInv'
<1>1. pc[cpu] = "wake" /\ WakeOne("waiters", "user") /\ UNCHANGED <<guard, sem>>
  BY Zenon DEF PostWake, At
<1>2. /\ KInv(Labels)' /\ UNCHANGED <<cpu, ret>>
      /\ pc' = [pc EXCEPT ![cpu] = "user"] \/ Hang
  BY <1>1, SemAssumption, WakeOneInv, Zenon DEF CInv
<1>3. CASE Hang BY <1>1, <1>3, HangStep, Zenon
<1>4. CASE pc' = [pc EXCEPT ![cpu] = "user"]
  <2>1. current' = current BY <1>1, Zenon DEF WakeOne, Wake, Hang, table
  <2>2. \A e \in Exec : pc'[e] = pc[e] \/ pc'[e] \notin Inside
    BY <1>4 DEF CInv, KInv, MachineInv, Inside
  <2>3. CountInv' BY <1>1, <1>2, <2>1, <2>2, FrameStep, Zenon DEF CInv, CountInv
  <2> QED BY <1>2, <2>3, Zenon DEF CInv
<1> QED BY <1>2, <1>3, <1>4, Zenon

\* A post in an interrupt handler may fall into a switch: the process it wakes
\* sleeps, so the one that has just been elected stays elected.
LEMMA IsrPostInv == ASSUME CInv, IsrPost PROVE CInv'
<1>1. CASE GuardHang /\ UNCHANGED sem BY <1>1, HangStep, Zenon DEF GuardHang
<1>2. CASE /\ guard = Null /\ count' = count + 1 /\ posted' = posted + 1
           /\ \/ waitq["waiters"] = <<>> /\ UNCHANGED kernel
              \/ /\ waitq["waiters"] # <<>> /\ ~schedLock
                 /\ Wake("waiters") /\ UNCHANGED <<schedLock, machine, control>>
              \/ waitq["waiters"] # <<>> /\ schedLock /\ Hang
           /\ UNCHANGED <<guard, val, taken>>
  <2>1. posted < MaxPost BY Zenon DEF IsrPost
  <2>2. CASE UNCHANGED kernel
    <3>1. UNCHANGED <<pstate, runq, current, waitq, schedLock, irq, cpu, ctx, flags, pc, ret, picked>>
      BY <2>2, Zenon DEF kernel, table, machine, control
    <3>2. TableInv' BY <3>1 DEF CInv, KInv, TableInv, LinkedOnce, Members
    <3>3. MachineInv(Labels)' BY <3>1, Zenon DEF CInv, KInv, MachineInv
    <3>4. CountInv' BY <1>2, <2>1, <3>1, PostedOne, FreeStep, Zenon DEF CInv, CountInv
    <3> QED BY <3>2, <3>3, <3>4, Zenon DEF CInv, KInv
  <2>3. CASE /\ waitq["waiters"] # <<>>
             /\ Wake("waiters") /\ UNCHANGED <<schedLock, machine, control>>
    <3>1. UNCHANGED <<current, schedLock, irq, cpu, ctx, flags, pc, ret, picked>>
      BY <2>3, Zenon DEF machine, control, Wake
    <3>2. TableInv' BY <2>3, SemAssumption, WakeTable, Zenon DEF CInv, KInv
    <3>3. pc[cpu] = "switch" => pstate'[current] = "RUNNING"
      <4>1. /\ Head(waitq["waiters"]) \in Members(waitq["waiters"])
        BY <2>3, SemAssumption, WakeTable, Zenon DEF CInv, KInv
      <4>2. pstate[Head(waitq["waiters"])] = "SLEEPING"
        BY <4>1, SemAssumption DEF CInv, KInv, TableInv, LinkedOnce, Members
      <4>3. pstate' = [pstate EXCEPT ![Head(waitq["waiters"])] = "READY"]
        BY <2>3, Zenon DEF Wake, MakeReady
      <4> QED BY <4>2, <4>3, Zenon DEF CInv, KInv, TableInv, MachineInv
    <3>4. MachineInv(Labels)' BY <3>1, <3>3, SMTT(30) DEF CInv, KInv, MachineInv
    <3>5. CountInv' BY <1>2, <2>1, <3>1, PostedOne, FreeStep, Zenon DEF CInv, CountInv
    <3> QED BY <3>2, <3>4, <3>5, Zenon DEF CInv, KInv
  <2>4. CASE Hang
    <3>1. /\ KInv(Labels)' /\ cpu \in Exec /\ pc'[cpu] = "hung"
          /\ \A e \in Exec : e # cpu => pc'[e] = pc[e]
          /\ UNCHANGED <<current, cpu, ret>>
      BY <2>4, HangInv, Zenon DEF CInv
    <3>2. \A e \in Exec : pc'[e] = pc[e] \/ pc'[e] \notin Inside BY <3>1, Zenon DEF Inside
    <3>3. CountInv' BY <1>2, <2>1, <3>1, <3>2, PostedOne, FreeStep, Zenon DEF CInv, CountInv
    <3> QED BY <3>1, <3>3, Zenon DEF CInv
  <2> QED BY <1>2, <2>2, <2>3, <2>4, Zenon
<1> QED BY <1>1, <1>2, Zenon DEF IsrPost

-----------------------------------------------------------------------------
(* The scheduler's steps and the theorems.                                 *)

\* The elected process is resumed outside the guarded code.
LEMMA SwitchInvS == ASSUME CInv, SwitchStep, UNCHANGED sem PROVE CInv'
<1>1. Switch /\ guard' = guard BY Zenon DEF SwitchStep
<1>2. /\ KInv(Labels)' /\ pc' = [pc EXCEPT ![cpu] = ret[cpu]] /\ cpu' = current
      /\ ret' = [ret EXCEPT ![cpu] = "user"] /\ UNCHANGED table
  BY <1>1, LabelFacts, SwitchInv, Zenon DEF CInv
<1>3. cpu \in Exec /\ current' = current BY <1>2, ProcNotNull, SMTT(30) DEF CInv, CountInv, table
<1>4. \A e \in Exec : pc'[e] = pc[e] \/ pc'[e] \notin Inside
  BY <1>2, <1>3, LabelFacts DEF CInv, CountInv, KInv, MachineInv
<1>5. \A e \in Exec : ret'[e] \in {"user", "sleep_relock"}
  BY <1>2, <1>3 DEF CInv, CountInv, KInv, MachineInv
<1>6. CountInv' BY <1>1, <1>2, <1>3, <1>4, <1>5, FrameStep, Zenon DEF CInv, CountInv
<1> QED BY <1>2, <1>6, Zenon DEF CInv

\* A timer interrupt anywhere outside the switch keeps the invariant.
LEMMA TickInvS == ASSUME CInv, Preempt # "anywhere", TickStep, UNCHANGED sem PROVE CInv'
<1>1. Tick /\ guard' = guard BY Zenon DEF TickStep
<1>2. /\ KInv(Labels)' /\ ret' = ret
      /\ \/ Hang
         \/ pc' = pc /\ UNCHANGED <<table, machine>>
         \/ pc' = pc /\ Elect /\ cpu' = current'
  BY <1>1, TickInv, Zenon DEF CInv
<1>3. CASE Hang BY <1>1, <1>3, HangStep, Zenon
<1>4. CASE \/ pc' = pc /\ UNCHANGED <<table, machine>>
           \/ pc' = pc /\ Elect /\ cpu' = current'
  <2>1. cpu' \in Proc /\ current' \in Proc
    <3>1. CASE UNCHANGED <<table, machine>> BY <3>1, Zenon DEF CInv, CountInv, table, machine
    <3>2. CASE Elect /\ cpu' = current'
      <4>1. current' \in Members(runq) BY <3>2, ElectTable, Zenon DEF CInv, KInv
      <4> QED BY <3>2, <4>1, MembersAreProc, Zenon DEF CInv, KInv, TableInv
    <3> QED BY <1>4, <3>1, <3>2, Zenon
  <2>2. CountInv' BY <1>1, <1>2, <1>4, <2>1, FrameStep, Zenon DEF CInv, CountInv
  <2> QED BY <1>2, <2>2, Zenon DEF CInv
<1> QED BY <1>2, <1>3, <1>4, Zenon

\* Every step keeps the invariant.
LEMMA SemNext == ASSUME CInv, Preempt # "anywhere", [Next]_vars PROVE CInv'
<1>1. CASE WaitCall
  <2>1. pc[cpu] = "user" /\ Local("wait") /\ UNCHANGED <<guard, sem>> BY <1>1, Zenon DEF WaitCall, At
  <2>2. KInv(Labels)' /\ Moves("wait") BY <2>1, LocalStep, Zenon DEF Labels
  <2>3. \A e \in Exec : pc'[e] = pc[e] \/ pc'[e] \notin Inside BY <2>2, Zenon DEF Moves, Inside
  <2>4. CountInv' BY <2>1, <2>2, <2>3, FrameStep, Zenon DEF CInv, CountInv, Moves
  <2> QED BY <2>2, <2>4, Zenon DEF CInv
<1>2. CASE WaitSpin BY <1>2, SpinStep, Zenon DEF WaitSpin
<1>3. CASE WaitReturn BY <1>3, SpinUnlockStep, Zenon DEF WaitReturn
<1>4. CASE UserYield /\ UNCHANGED sem
  <2>1. pc[cpu] \notin {"switch", "hung"} /\ YieldSelect("user") /\ guard' = guard
    BY <1>4, Zenon DEF UserYield, At
  <2> QED BY <1>4, <2>1, YieldStep, Zenon
<1>5. CASE UNCHANGED vars
  <2>1. UNCHANGED <<pstate, runq, current, waitq, schedLock, irq, cpu, ctx, flags, pc, ret, picked, guard, sem>>
    BY <1>5, SMTT(30) DEF vars, base, kernel, table, machine, control
  <2>2. TableInv' BY <2>1 DEF CInv, KInv, TableInv, LinkedOnce, Members
  <2>3. MachineInv(Labels)' BY <2>1, Zenon DEF CInv, KInv, MachineInv
  <2>4. CountInv' BY <2>1, FrameStep, Zenon DEF CInv, CountInv
  <2> QED BY <2>2, <2>3, <2>4, Zenon DEF CInv, KInv
<1>6. CASE (UserYield \/ SwitchStep) /\ UNCHANGED sem BY <1>4, <1>6, SwitchInvS, Zenon
<1>7. CASE OwnStep
  BY <1>1, <1>2, <1>3, <1>6, <1>7, WaitTestInv, WaitTakeInv, WaitSleepInv, TryWaitInv,
     PostInv, PostWakeInv, Zenon DEF OwnStep
<1>8. CASE Interrupt BY <1>8, IsrPostInv, TickInvS, Zenon DEF Interrupt
<1> QED BY <1>5, <1>7, <1>8, Zenon DEF Next

\* CInv holds in every reachable state: whoever is between the load and the
\* store of `count--` holds the guard, which keeps every poster out.
THEOREM SemInvariance == ASSUME Preempt # "anywhere" PROVE Spec => []CInv
  BY SemInit, SemNext, PTL DEF Spec

\* riv_sem_wait, riv_sem_trywait and riv_sem_post, the latter also in an
\* interrupt handler, neither lose nor make up a unit.
THEOREM UnitsAreConserved == ASSUME Preempt # "anywhere" PROVE Spec => []Conservation
<1>1. CInv => Conservation BY Zenon DEF CInv, CountInv
<1> QED BY <1>1, SemInvariance, PTL

\* The count is never negative, and the process table, the queues and the
\* contexts stay consistent under wait, post, sleep, wake-up and preemption.
THEOREM SemIsConsistent == ASSUME Preempt # "anywhere" PROVE Spec => []Consistent
<1>1. ASSUME CInv PROVE Consistent
  <2>1. KernelTypeOK(Labels) /\ LinkedOnce /\ ContextOwned BY <1>1, KInvImplies, Zenon DEF CInv
  <2> QED BY <1>1, <2>1, Zenon DEF CInv, CountInv, Consistent, TypeOK, Labels
<1> QED BY <1>1, SemInvariance, PTL

-----------------------------------------------------------------------------
(* Wake-ups.                                                               *)

\* A process that has left the wait queue and not yet tested the count again:
\* inside riv_waitq_sleep, or back from it with the guard.
Woken(e) ==
    /\ e \notin Members(waitq["waiters"])
    /\ \/ pc[e] \in {"sleep_unlock", "sleep_yield", "sleep_relock"}
       \/ pc[e] = "switch" /\ ret[e] = "sleep_relock"
       \/ pc[e] = "wait" /\ guard = e

\* Who accounts for an available unit: a poster about to wake, a woken waiter.
Credit == {e \in Proc : pc[e] = "wake" \/ Woken(e)}

\* A process goes to sleep on a count of 0, which stays 0 until it is queued.
ZeroInv == \A p \in Proc : pc[p] = "sleep" => count = 0

\* Until riv_sched.lock leaks or the CPU stops, a queued process is inside
\* riv_waitq_sleep and does not run on past its yield.
QueueInv ==
    ~schedLock /\ ~At("hung") => \A p \in Members(waitq["waiters"]) :
         \/ pc[p] \in {"sleep_unlock", "sleep_yield"}
         \/ pc[p] = "switch" /\ ret[p] = "sleep_relock"
         \/ pc[p] = "sleep_relock" /\ p # cpu

CreditInv == waitq["waiters"] # <<>> /\ ~At("hung") => count <= Cardinality(Credit)

WInv == ZeroInv /\ QueueInv /\ CreditInv

\* riv_sem_init on a booted kernel: nobody sleeps.
LEMMA WakesInit == ASSUME Init PROVE WInv
<1>1. BootedInit /\ \A e \in Exec : pc[e] = "user" BY Zenon DEF Init, BootedInit
<1>2. waitq["waiters"] = <<>> BY <1>1, SemAssumption, Zenon DEF BootedInit
<1>3. Members(waitq["waiters"]) = {} BY <1>2 DEF Members
<1> QED BY <1>1, <1>2, <1>3, ProcNotNull, Zenon DEF WInv, ZeroInv, QueueInv, CreditInv

\* The credit is a finite set, now and after the step.
LEMMA CreditFinite ==
    /\ IsFiniteSet(Credit) /\ Cardinality(Credit) \in Nat
    /\ IsFiniteSet(Credit') /\ Cardinality(Credit') \in Nat
<1>1. IsFiniteSet(Proc) BY KernelAssumption, FS_Interval, 1 \in Int, NProc \in Int, Zenon DEF Proc
<1>2. Credit \in SUBSET Proc /\ Credit' \in SUBSET Proc BY Zenon DEF Credit
<1>3. IsFiniteSet(Credit) /\ IsFiniteSet(Credit') BY <1>1, <1>2, FS_Subset, Zenon
<1> QED BY <1>3, FS_CardinalityType, Zenon

\* More units need more credit: by as much as the credit grows.
LEMMA CreditAtLeast ==
    ASSUME CInv, CInv', CreditInv, pc[cpu] # "hung",
           waitq'["waiters"] # <<>> => waitq["waiters"] # <<>>,
           \/ count' <= count /\ Credit \subseteq Credit'
           \/ count' = count + 1 /\ \E h \in Credit' : h \notin Credit /\ Credit \subseteq Credit'
           \/ count' = count /\ \E h \in Credit' : h \notin Credit /\ Credit \ {cpu} \subseteq Credit'
    PROVE  CreditInv'
<1> DEFINE C == Credit
           D == Credit'
<1> SUFFICES ASSUME waitq'["waiters"] # <<>> PROVE count' <= Cardinality(D)
  BY Zenon DEF CreditInv
<1>1. count <= Cardinality(C) BY Zenon DEF CreditInv, At
<1>2. count \in Nat /\ count' \in Nat BY Zenon DEF CInv, CountInv
<1>3. IsFiniteSet(C) /\ Cardinality(C) \in Nat /\ IsFiniteSet(D) /\ Cardinality(D) \in Nat
  BY CreditFinite, Zenon
<1> HIDE DEF C, D
<1>4. CASE count' <= count /\ C \subseteq D
  <2>1. Cardinality(C) <= Cardinality(D) BY <1>3, <1>4, FS_Subset, Zenon
  <2> QED BY <1>1, <1>2, <1>3, <1>4, <2>1
<1>5. CASE count' = count + 1 /\ \E h \in D : h \notin C /\ C \subseteq D
  <2>1. PICK h \in D : h \notin C /\ C \subseteq D BY <1>5, Zenon
  <2>2. Cardinality(C \cup {h}) = Cardinality(C) + 1 BY <1>3, <2>1, FS_AddElement, ZenonT(60)
  <2>3. C \cup {h} \in SUBSET D BY <2>1, Zenon
  <2>4. Cardinality(C \cup {h}) <= Cardinality(D) BY <1>3, <2>3, FS_Subset, Zenon
  <2> QED BY <1>1, <1>2, <1>3, <1>5, <2>2, <2>4
<1>6. CASE count' = count /\ \E h \in D : h \notin C /\ C \ {cpu} \subseteq D
  <2>1. PICK h \in D : h \notin C /\ C \ {cpu} \subseteq D BY <1>6, Zenon
  <2>2. IsFiniteSet(C \ {cpu}) /\ Cardinality(C \ {cpu}) \in {Cardinality(C), Cardinality(C) - 1}
    BY <1>3, FS_RemoveElement, Zenon
  <2>3. h \notin C \ {cpu} BY <2>1, Zenon
  <2>4. Cardinality((C \ {cpu}) \cup {h}) = Cardinality(C \ {cpu}) + 1 BY <2>2, <2>3, FS_AddElement, Zenon
  <2>5. (C \ {cpu}) \cup {h} \in SUBSET D BY <2>1, Zenon
  <2>6. Cardinality((C \ {cpu}) \cup {h}) <= Cardinality(D) BY <1>3, <2>5, FS_Subset, Zenon
  <2> QED BY <1>1, <1>2, <1>3, <1>6, <2>2, <2>4, <2>6
<1> QED BY <1>4, <1>5, <1>6, Zenon DEF C, D

\* Executions other than the one on the CPU keep their credit.
LEMMA CreditKept ==
    ASSUME CInv, Members(waitq'["waiters"]) \subseteq Members(waitq["waiters"]),
           \A e \in Exec : e # cpu => pc'[e] = pc[e] /\ ret'[e] = ret[e],
           \A p \in Proc : pc[p] = "wait" /\ guard = p => guard' = p
    PROVE  \A e \in Credit : e # cpu => e \in Credit'
<1> SUFFICES ASSUME NEW e \in Proc, e # cpu, pc[e] = "wake" \/ Woken(e)
             PROVE  pc'[e] = "wake" \/ Woken(e)'
  BY Zenon DEF Credit
<1>1. pc'[e] = pc[e] /\ ret'[e] = ret[e] BY ProcNotNull, Zenon
<1> QED BY <1>1, Zenon DEF Woken

\* Nobody who waits for the guard it already holds loses it to the execution
\* that is inside the guarded code.
LEMMA GuardKept ==
    ASSUME CInv, guard' = guard \/ guard = Null \/ pc[cpu] \in Inside
    PROVE  \A p \in Proc : pc[p] = "wait" /\ guard = p => guard' = p
<1>1. pc[cpu] \in Inside => guard = cpu BY Zenon DEF CInv, CountInv
<1> QED BY <1>1, ProcNotNull, Zenon DEF Inside

\* A step of the semaphore's own code that leaves the kernel alone.
LEMMA LocalWakes ==
    ASSUME CInv, CInv', WInv, pc[cpu] \in (Labels \cup {"user"}) \ {"sleep_yield"},
           NEW l \in Labels \cup {"user"}, Local(l),
           pc[cpu] = "sleep_unlock" => l = "sleep_yield",
           guard' = guard \/ guard = Null \/ pc[cpu] \in Inside,
           \/ count' <= count /\ (cpu \in Credit => cpu \in Credit')
           \/ count' = count + 1 /\ pc[cpu] = "user" /\ l = "wake",
           ZeroInv'
    PROVE  WInv'
<1>1. KInv(Labels)' /\ Moves(l) BY LocalStep, Zenon
<1>2. UNCHANGED <<waitq, schedLock>> BY Zenon DEF Local, table
<1>3. pc[cpu] \notin {"switch", "hung"} BY LabelFacts, SMTT(30)
<1>4. cpu \in Proc /\ Members(waitq["waiters"]) \subseteq Exec
  BY SemAssumption, MembersAreProc, ProcNotNull, SMTT(30) DEF CInv, CountInv, KInv, TableInv
<1>5. QueueInv'
  <2>1. ~schedLock /\ cpu \in Members(waitq["waiters"]) => pc[cpu] = "sleep_unlock"
    BY <1>3, Zenon DEF WInv, QueueInv, At
  <2> QED BY <1>1, <1>2, <1>3, <1>4, <2>1, SMTT(30) DEF WInv, QueueInv, Moves, At
<1>6. \A e \in Credit : e # cpu => e \in Credit'
  BY <1>1, <1>2, GuardKept, CreditKept, ZenonT(60) DEF Moves
<1>7. CASE count' <= count /\ (cpu \in Credit => cpu \in Credit')
  <2>1. Credit \subseteq Credit' BY <1>6, <1>7, Zenon
  <2>2. CreditInv' BY <1>2, <1>3, <1>7, <2>1, CreditAtLeast, SMTT(30) DEF WInv
  <2> QED BY <1>5, <2>2, Zenon DEF WInv
<1>8. CASE count' = count + 1 /\ pc[cpu] = "user" /\ l = "wake"
  <2>1. cpu \notin Credit BY <1>8, Zenon DEF Credit, Woken
  <2>2. cpu \in Credit' BY <1>1, <1>4, <1>8, Zenon DEF Credit, Moves
  <2>3. Credit \subseteq Credit' BY <1>6, <2>1, Zenon
  <2>4. CreditInv' BY <1>2, <1>3, <1>8, <2>1, <2>2, <2>3, CreditAtLeast, SMTT(30) DEF WInv
  <2> QED BY <1>5, <2>4, Zenon DEF WInv
<1> QED BY <1>7, <1>8, Zenon

\* The CPU stops; whoever is about to sleep has seen the count of now.
LEMMA HangWakes ==
    ASSUME CInv, WInv, Hang, count' = count \/ guard = Null PROVE WInv'
<1>1. /\ cpu \in Exec /\ pc'[cpu] = "hung" /\ \A e \in Exec : e # cpu => pc'[e] = pc[e]
      /\ cpu' = cpu
  BY HangInv, Zenon DEF CInv
<1>2. \A p \in Proc : pc'[p] = "sleep" => pc[p] = "sleep" BY <1>1, ProcNotNull, Zenon
<1>3. guard = Null => \A p \in Proc : pc[p] # "sleep" BY ProcNotNull, Zenon DEF CInv, CountInv, Inside
<1>4. ZeroInv' BY <1>2, <1>3, Zenon DEF WInv, ZeroInv
<1> QED BY <1>1, <1>4, Zenon DEF WInv, QueueInv, CreditInv, At

\* Every step of the semaphore's own code keeps the wake-ups.
LEMMA OwnWakes ==
    ASSUME CInv, CInv', WInv,
           \/ WaitCall \/ WaitSpin \/ WaitTest \/ WaitTake \/ WaitReturn \/ TryWait \/ Post
           \/ (SleepUnlock /\ UNCHANGED sem) \/ (SleepRelock("wait") /\ UNCHANGED sem)
    PROVE  WInv'
<1>1. /\ cpu \in Proc /\ cpu \in Exec /\ count \in Nat
      /\ \A p \in Proc : pc[p] \in Inside => guard = p
      /\ \A p \in Proc : p \in Exec
  BY ProcNotNull, Zenon DEF CInv, CountInv
<1>2. ASSUME NEW l \in Labels \cup {"user"}, Local(l), pc[cpu] \in Labels \cup {"user"}, l # "sleep", count' = count
      PROVE  ZeroInv'
  <2>1. KInv(Labels)' /\ Moves(l) BY <1>2, LocalStep, Zenon
  <2> QED BY <1>1, <1>2, <2>1, Zenon DEF Moves, WInv, ZeroInv
<1>3. ASSUME NEW l \in Labels \cup {"user"}, Local(l), pc[cpu] \in Labels \cup {"user"}, l # "sleep",
             guard = Null \/ pc[cpu] = "take"
      PROVE  ZeroInv'
  <2>1. KInv(Labels)' /\ Moves(l) BY <1>3, LocalStep, Zenon
  <2>2. \A p \in Proc : p # cpu => pc[p] # "sleep" BY <1>1, <1>3, ProcNotNull, Zenon DEF Inside
  <2> QED BY <1>1, <1>3, <2>1, <2>2, Zenon DEF Moves, ZeroInv
<1>4. CASE WaitCall
  <2>1. pc[cpu] = "user" /\ Local("wait") /\ guard' = guard /\ count' = count BY <1>4, Zenon DEF WaitCall, At, sem
  <2>2. cpu \notin Credit BY <2>1, Zenon DEF Credit, Woken
  <2>3. ZeroInv' BY <1>2, <2>1, Zenon DEF Labels
  <2> QED BY <1>1, <2>1, <2>2, <2>3, LocalWakes DEF Labels
<1>5. CASE WaitSpin
  <2>1. pc[cpu] = "wait" /\ Local("test") /\ guard = Null /\ count' = count BY <1>5, Zenon DEF WaitSpin, SpinLock, At, sem
  <2>2. cpu \notin Credit BY <1>1, <2>1, ProcNotNull, Zenon DEF Credit, Woken
  <2>3. ZeroInv' BY <1>2, <2>1, Zenon DEF Labels
  <2> QED BY <1>1, <2>1, <2>2, <2>3, LocalWakes DEF Labels
<1>6. CASE WaitTest
  <2>1. PICK l \in {"take", "sleep"} :
          Local(l) /\ pc[cpu] = "test" /\ guard' = guard /\ count' = count /\ (l = "sleep" => ~(count > 0))
    BY <1>6, Zenon DEF WaitTest, At
  <2>2. cpu \notin Credit BY <2>1, Zenon DEF Credit, Woken
  <2>3. l \in Labels /\ pc[cpu] \in Labels /\ pc[cpu] \in Inside BY <2>1, Zenon DEF Labels, SleepLabels, Inside
  <2>4. ZeroInv'
    <3>1. KInv(Labels)' /\ Moves(l) BY <2>1, <2>3, LocalStep, SMTT(30)
    <3> QED BY <1>1, <2>1, <3>1 DEF Moves, WInv, ZeroInv
  <2> QED BY <1>1, <2>1, <2>2, <2>3, <2>4, LocalWakes, SMTT(30)
<1>7. CASE WaitTake
  <2>1. pc[cpu] = "take" /\ Local("got") /\ guard' = guard /\ count' = val[cpu] - 1 BY <1>7, Zenon DEF WaitTake, At
  <2>2. val[cpu] = count BY <1>1, <2>1, Zenon DEF CInv, CountInv
  <2>3. cpu \notin Credit BY <2>1, Zenon DEF Credit, Woken
  <2>4. ZeroInv' BY <1>3, <2>1, Zenon DEF Labels
  <2>5. count' <= count BY <1>1, <2>1, <2>2
  <2> QED BY <2>1, <2>3, <2>4, <2>5, LocalWakes DEF Labels
<1>8. CASE WaitReturn
  <2>1. pc[cpu] = "got" /\ Local("user") /\ count' = count BY <1>8, Zenon DEF WaitReturn, SpinUnlock, At, sem
  <2>2. cpu \notin Credit BY <2>1, Zenon DEF Credit, Woken
  <2>3. ZeroInv' BY <1>2, <2>1, Zenon DEF Labels
  <2>4. pc[cpu] \in Inside /\ pc[cpu] \in Labels BY <2>1, Zenon DEF Inside, Labels
  <2> QED BY <1>1, <2>1, <2>2, <2>3, <2>4, LocalWakes
<1>9. CASE TryWait
  <2>1. CASE GuardHang /\ UNCHANGED sem BY <2>1, HangWakes, Zenon DEF GuardHang, sem
  <2>2. CASE guard = Null /\ count' = count - 1 /\ Local("user") /\ guard' = guard
    <3>1. pc[cpu] = "user" BY <1>9, Zenon DEF TryWait, At
    <3>2. cpu \notin Credit BY <3>1, Zenon DEF Credit, Woken
    <3>3. ZeroInv' BY <1>3, <2>2, <3>1, Zenon
    <3>4. count' <= count BY <1>1, <2>2
    <3> QED BY <2>2, <3>1, <3>2, <3>3, <3>4, LocalWakes
  <2> QED BY <1>9, <2>1, <2>2, Zenon DEF TryWait
<1>10. CASE Post
  <2>1. CASE GuardHang /\ UNCHANGED sem BY <2>1, HangWakes, Zenon DEF GuardHang, sem
  <2>2. CASE guard = Null /\ count' = count + 1 /\ Local("wake") /\ guard' = guard
    <3>1. pc[cpu] = "user" BY <1>10, Zenon DEF Post, At
    <3>2. ZeroInv' BY <1>3, <2>2, <3>1, Zenon DEF Labels
    <3> QED BY <2>2, <3>1, <3>2, LocalWakes, Zenon DEF Labels
  <2> QED BY <1>10, <2>1, <2>2 DEF Post
<1>11. CASE SleepUnlock /\ UNCHANGED sem
  <2>1. pc[cpu] = "sleep_unlock" /\ Local("sleep_yield") /\ count' = count
    BY <1>11, Zenon DEF SleepUnlock, SpinUnlock, At, sem
  <2>2. pc[cpu] \in Inside /\ pc[cpu] \in Labels /\ "sleep_yield" \in Labels BY <2>1, Zenon DEF Inside, Labels, SleepLabels
  <2>3. ZeroInv' BY <1>2, <2>1, <2>2, SMTT(30)
  <2>4. pc'[cpu] = "sleep_yield" /\ waitq' = waitq BY <2>1, <2>2, LocalStep, SMTT(30) DEF Moves, Local, table
  <2>5. cpu \in Credit => cpu \in Credit' BY <2>1, <2>4, Zenon DEF Credit, Woken
  <2> QED BY <1>1, <2>1, <2>2, <2>3, <2>5, LocalWakes
<1>12. CASE SleepRelock("wait") /\ UNCHANGED sem
  <2>1. pc[cpu] = "sleep_relock" /\ Local("wait") /\ count' = count /\ guard = Null /\ guard' = cpu
    BY <1>12, Zenon DEF SleepRelock, SpinLock, At, sem
  <2>2. pc[cpu] \in Labels /\ "wait" \in Labels BY <2>1, Zenon DEF Labels, SleepLabels
  <2>3. ZeroInv' BY <1>2, <2>1, <2>2, SMTT(30)
  <2>4. pc'[cpu] = "wait" /\ waitq' = waitq BY <2>1, <2>2, LocalStep, SMTT(30) DEF Moves, Local, table
  <2>5. cpu \in Credit => cpu \in Credit' BY <2>1, <2>4, Zenon DEF Credit, Woken
  <2> QED BY <1>1, <2>1, <2>2, <2>3, <2>5, LocalWakes
<1> QED BY <1>4, <1>5, <1>6, <1>7, <1>8, <1>9, <1>10, <1>11, <1>12, SMTT(30)

\* The queue grows only while the count is 0: the sleeper holds the guard.
LEMMA EnqueueWakes ==
    ASSUME CInv, CInv', WInv, SleepEnqueue("waiters"), UNCHANGED sem PROVE WInv'
<1>1. /\ pc[cpu] = "sleep" /\ WaitqEnqueue("waiters") /\ count' = count
      /\ pc' = [pc EXCEPT ![cpu] = "sleep_unlock"] /\ UNCHANGED <<schedLock, cpu, ret>>
  BY SMTT(30) DEF SleepEnqueue, At, Goto, machine, sem
<1>2. cpu = current /\ cpu \in Proc /\ cpu \in Exec
  BY <1>1, ProcNotNull, SMTT(30) DEF CInv, CountInv, KInv, MachineInv
<1>3. pc'[cpu] = "sleep_unlock" /\ \A e \in Exec : e # cpu => pc'[e] = pc[e]
  BY <1>1, <1>2 DEF CInv, KInv, MachineInv
<1>4. count = 0 BY <1>1, <1>2, Zenon DEF WInv, ZeroInv
<1>5. ZeroInv' BY <1>1, <1>4, Zenon DEF ZeroInv
<1>6. CreditInv' BY <1>1, <1>4, CreditFinite DEF CreditInv
<1>7. Members(waitq'["waiters"]) \subseteq Members(waitq["waiters"]) \cup {cpu}
  BY <1>1, <1>2, SemAssumption, EnqueueTable, Zenon DEF CInv, KInv
<1>8. Members(waitq["waiters"]) \subseteq Exec
  BY SemAssumption, MembersAreProc, ProcNotNull, Zenon DEF CInv, KInv, TableInv
<1>9. QueueInv' BY <1>1, <1>3, <1>7, <1>8 DEF WInv, QueueInv, At
<1> QED BY <1>5, <1>6, <1>9, Zenon DEF WInv

\* A yield: a sleeper that gives up the CPU stays on its way.
LEMMA YieldWakes ==
    ASSUME CInv, CInv', WInv, UNCHANGED <<guard, sem>>, NEW l \in {"user", "sleep_relock"},
           YieldSelect(l), pc[cpu] = IF l = "user" THEN "user" ELSE "sleep_yield"
    PROVE  WInv'
<1>1. l \in Labels \cup {"user"} /\ l \notin {"switch", "hung"} /\ pc[cpu] \notin {"switch", "hung"}
  BY LabelFacts, SMTT(30)
<1>2. /\ KInv(Labels)' /\ cpu' = cpu /\ waitq' = waitq /\ (schedLock => schedLock')
      /\ \A e \in Exec : e # cpu => pc'[e] = pc[e] /\ ret'[e] = ret[e]
      /\ \/ pc'[cpu] = l
         \/ pc'[cpu] = "switch" /\ ret'[cpu] = l
         \/ pc'[cpu] = "hung"
      /\ pc'[cpu] = l => (schedLock' \/ pstate'[cpu] = "RUNNING")
  BY <1>1, YieldInv, SMTT(30) DEF CInv
<1>3. cpu \in Proc /\ count' = count /\ count \in Nat BY Zenon DEF CInv, CountInv, sem
<1>4. ZeroInv' BY <1>2, <1>3, ProcNotNull, SMTT(30) DEF WInv, ZeroInv
<1>5. CASE pc'[cpu] = "hung" BY <1>2, <1>4, <1>5, Zenon DEF WInv, QueueInv, CreditInv, At
<1>6. CASE pc'[cpu] # "hung"
  <2>1. Members(waitq["waiters"]) \subseteq Exec
        /\ \A p \in Members(waitq["waiters"]) : pstate'[p] = "SLEEPING"
    <3>1. Members(waitq["waiters"]) \subseteq Exec
      BY SemAssumption, MembersAreProc, ProcNotNull, SMTT(30) DEF CInv, KInv, TableInv
    <3>2. \A p \in Members(waitq'["waiters"]) : pstate'[p] = "SLEEPING"
      BY <1>2, SemAssumption DEF KInv, TableInv, LinkedOnce, Members
    <3> QED BY <1>2, <3>1, <3>2
  <2>2. QueueInv' BY <1>1, <1>2, <2>1, SMTT(30) DEF WInv, QueueInv, At
  <2>3. cpu \in Credit => cpu \in Credit' BY <1>2, <1>3, <1>6, SMTT(30) DEF Credit, Woken
  <2>4. \A e \in Credit : e # cpu => e \in Credit' BY <1>2, GuardKept, CreditKept, SMTT(30)
  <2>5. CreditInv' BY <1>1, <1>2, <1>3, <2>3, <2>4, CreditAtLeast DEF WInv
  <2> QED BY <1>4, <2>2, <2>5, Zenon DEF WInv
<1> QED BY <1>5, <1>6, Zenon

\* The elected process is resumed: it was RUNNING, so it is in no wait queue.
LEMMA SwitchWakes == ASSUME CInv, CInv', WInv, SwitchStep, UNCHANGED sem PROVE WInv'
<1>1. Switch /\ guard' = guard /\ count' = count BY Zenon DEF SwitchStep, sem
<1>2. /\ pc[cpu] = "switch" /\ pc' = [pc EXCEPT ![cpu] = ret[cpu]]
      /\ cpu' = current /\ cpu' # cpu /\ pstate[cpu'] = "RUNNING"
      /\ ret' = [ret EXCEPT ![cpu] = "user"] /\ UNCHANGED <<table, schedLock>>
  BY <1>1, LabelFacts, SwitchInv, SMTT(30) DEF CInv
<1>3. waitq' = waitq /\ cpu \in Proc /\ cpu \in Exec /\ count \in Nat /\ ret[cpu] \in {"user", "sleep_relock"}
  BY <1>2, ProcNotNull, SMTT(30) DEF CInv, CountInv, table
<1>4. pc'[cpu] = ret[cpu] /\ \A e \in Exec : e # cpu => pc'[e] = pc[e] /\ ret'[e] = ret[e]
  BY <1>2, <1>3, SMTT(30) DEF CInv, KInv, MachineInv
<1>5. ZeroInv' BY <1>1, <1>3, <1>4, ProcNotNull DEF WInv, ZeroInv
<1>6. Members(waitq["waiters"]) \subseteq Exec /\ cpu' \notin Members(waitq["waiters"])
  <2>1. \A p \in Members(waitq["waiters"]) : pstate[p] = "SLEEPING"
    BY SemAssumption, SMTT(30) DEF CInv, KInv, TableInv, LinkedOnce, Members
  <2> QED BY <1>2, <2>1, SemAssumption, MembersAreProc, ProcNotNull, SMTT(30) DEF CInv, KInv, TableInv
<1>7. QueueInv' BY <1>2, <1>3, <1>4, <1>6, SMTT(30) DEF WInv, QueueInv, At
<1>8. cpu \in Credit => cpu \in Credit' BY <1>2, <1>3, <1>4, SMTT(30) DEF Credit, Woken
<1>9. \A e \in Credit : e # cpu => e \in Credit' BY <1>1, <1>3, <1>4, GuardKept, CreditKept, SMTT(30)
<1>10. CreditInv' BY <1>1, <1>2, <1>3, <1>8, <1>9, CreditAtLeast, SMTT(30) DEF WInv
<1> QED BY <1>5, <1>7, <1>10, Zenon DEF WInv

\* A timer interrupt outside the switch moves nobody.
LEMMA TickWakes ==
    ASSUME CInv, CInv', WInv, Preempt # "anywhere", TickStep, UNCHANGED sem PROVE WInv'
<1>1. Tick /\ guard' = guard /\ count' = count /\ count \in Nat BY Zenon DEF TickStep, sem, CInv, CountInv
<1>2. /\ pc[cpu] \notin {"switch", "hung"} /\ ret' = ret /\ (schedLock => schedLock')
      /\ \/ Hang
         \/ pc' = pc /\ UNCHANGED <<table, machine>> /\ schedLock'
         \/ pc' = pc /\ Elect /\ pstate'[cpu'] = "RUNNING"
  BY <1>1, TickInv, Zenon DEF CInv
<1>3. CASE Hang BY <1>1, <1>3, HangWakes, Zenon
<1>4. CASE \/ pc' = pc /\ UNCHANGED <<table, machine>> /\ schedLock'
           \/ pc' = pc /\ Elect /\ pstate'[cpu'] = "RUNNING"
  <2>1. pc' = pc /\ waitq' = waitq BY <1>4, Zenon DEF table, Elect
  <2>2. ZeroInv' BY <1>1, <2>1 DEF WInv, ZeroInv
  <2>3. schedLock' \/ cpu' \notin Members(waitq'["waiters"])
    <3>1. \A p \in Members(waitq'["waiters"]) : pstate'[p] = "SLEEPING"
      BY SemAssumption, SMTT(30) DEF CInv, KInv, TableInv, LinkedOnce, Members
    <3> QED BY <1>4, <3>1, SMTT(30)
  <2>4. QueueInv' BY <1>2, <2>1, <2>3, ZenonT(40) DEF WInv, QueueInv, At
  <2>5. Credit \subseteq Credit' BY <1>1, <1>2, <2>1, Zenon DEF Credit, Woken
  <2>6. CreditInv' BY <1>1, <1>2, <2>1, <2>5, CreditAtLeast, SMTT(30) DEF WInv
  <2> QED BY <2>2, <2>4, <2>6 DEF WInv
<1> QED BY <1>2, <1>3, <1>4, SMTT(30)

\* The first waiter leaves the queue and accounts for a unit from then on.
LEMMA HeadGetsCredit ==
    ASSUME CInv, WInv, waitq["waiters"] # <<>>, Wake("waiters"), ~schedLock, pc[cpu] # "hung",
           UNCHANGED <<guard, ret, cpu>>, pc[cpu] = "wake" \/ pc' = pc,
           \A e \in Exec : e # cpu => pc'[e] = pc[e]
    PROVE  /\ Members(waitq'["waiters"]) \subseteq Members(waitq["waiters"])
           /\ Members(waitq["waiters"]) \subseteq Exec
           /\ \E h \in Credit' : h \notin Credit
           /\ \A e \in Credit : e # cpu => e \in Credit'
           /\ pc' = pc => Credit \subseteq Credit'
<1>1. PICK h \in Proc : /\ h \in Members(waitq["waiters"])
                        /\ Members(waitq'["waiters"]) = Members(waitq["waiters"]) \ {h}
  <2>1. LET g == Head(waitq["waiters"])
        IN  g \in Proc /\ g \in Members(waitq["waiters"])
            /\ Members(waitq'["waiters"]) = Members(waitq["waiters"]) \ {g}
    BY SemAssumption, WakeTable, SMTT(30) DEF CInv, KInv
  <2> QED BY <2>1, SMTT(30)
<1>2. \/ pc[h] \in {"sleep_unlock", "sleep_yield", "sleep_relock"}
      \/ pc[h] = "switch" /\ ret[h] = "sleep_relock"
  BY <1>1, Zenon DEF WInv, QueueInv, At
<1>3. h \in Exec /\ pc'[h] = pc[h] BY <1>2, ProcNotNull, SMTT(30)
<1>4. h \notin Credit BY <1>1, <1>2, SMTT(30) DEF Credit, Woken
<1>5. h \in Credit' BY <1>1, <1>2, <1>3 DEF Credit, Woken
<1>6. Members(waitq["waiters"]) \subseteq Exec
  BY SemAssumption, MembersAreProc, ProcNotNull, SMTT(30) DEF CInv, KInv, TableInv
<1>7. \A e \in Credit : e # cpu => e \in Credit' BY <1>1, CreditKept, SMTT(30)
<1>8. pc' = pc => Credit \subseteq Credit' BY <1>1, Zenon DEF Credit, Woken
<1> QED BY <1>1, <1>4, <1>5, <1>6, <1>7, <1>8, SMTT(30)

\* The poster's credit passes to the waiter that it wakes.
LEMMA PostWakeWakes == ASSUME CInv, CInv', WInv, PostWake PROVE WInv'
<1>1. pc[cpu] = "wake" /\ WakeOne("waiters", "user") /\ guard' = guard /\ count' = count
  BY Zenon DEF PostWake, At, sem
<1>2. /\ UNCHANGED <<schedLock, cpu, ret>>
      /\ \/ pc' = [pc EXCEPT ![cpu] = "user"] /\ waitq["waiters"] = <<>> /\ waitq' = waitq
         \/ pc' = [pc EXCEPT ![cpu] = "user"] /\ waitq["waiters"] # <<>> /\ Wake("waiters") /\ ~schedLock
         \/ Hang
  BY <1>1, SemAssumption, WakeOneInv, Zenon DEF CInv
<1>3. CASE Hang BY <1>1, <1>3, HangWakes
<1>4. CASE pc' = [pc EXCEPT ![cpu] = "user"]
  <2>1. cpu \in Exec /\ pc'[cpu] = "user" /\ \A e \in Exec : e # cpu => pc'[e] = pc[e]
    BY <1>4 DEF CInv, KInv, MachineInv
  <2>2. ZeroInv' BY <1>1, <2>1, ProcNotNull, SMTT(30) DEF WInv, ZeroInv
  <2>3. CASE waitq["waiters"] = <<>> /\ waitq' = waitq
    <3>1. Members(waitq'["waiters"]) = {} BY <2>3 DEF Members
    <3> QED BY <2>2, <2>3, <3>1, Zenon DEF WInv, QueueInv, CreditInv
  <2>4. CASE waitq["waiters"] # <<>> /\ Wake("waiters") /\ ~schedLock
    <3>1. /\ Members(waitq'["waiters"]) \subseteq Members(waitq["waiters"])
          /\ Members(waitq["waiters"]) \subseteq Exec
          /\ \E h \in Credit' : h \notin Credit
          /\ \A e \in Credit : e # cpu => e \in Credit'
      BY <1>1, <1>2, <2>1, <2>4, HeadGetsCredit
    <3>2. cpu \notin Members(waitq["waiters"]) BY <1>1, <2>4 DEF WInv, QueueInv, At
    <3>3. QueueInv' BY <1>1, <1>2, <2>1, <3>1, <3>2, SMTT(30) DEF WInv, QueueInv, At
    <3>4. CreditInv' BY <1>1, <2>4, <3>1, CreditAtLeast DEF WInv
    <3> QED BY <2>2, <3>3, <3>4, SMTT(30) DEF WInv
  <2> QED BY <1>2, <1>3, <2>3, <2>4, SMTT(30)
<1> QED BY <1>2, <1>3, <1>4

\* A post in an interrupt handler adds a unit and wakes a waiter at once.
LEMMA IsrPostWakes == ASSUME CInv, CInv', WInv, IsrPost PROVE WInv'
<1>1. pc[cpu] # "hung" BY Zenon DEF IsrPost, CInv, KInv, MachineInv
<1>2. CASE GuardHang /\ UNCHANGED sem BY <1>2, HangWakes, Zenon DEF GuardHang, sem
<1>3. CASE guard = Null /\ Hang BY <1>3, HangWakes, Zenon
<1>4. CASE /\ guard = Null /\ count' = count + 1 /\ guard' = guard
           /\ \/ waitq["waiters"] = <<>> /\ UNCHANGED kernel
              \/ /\ waitq["waiters"] # <<>> /\ ~schedLock
                 /\ Wake("waiters") /\ UNCHANGED <<schedLock, machine, control>>
  <2>1. UNCHANGED <<pc, ret, cpu, schedLock>> BY <1>4, ZenonT(60) DEF kernel, machine, control
  <2>2. ZeroInv' BY <1>4, <2>1, ProcNotNull, ZenonT(60) DEF CInv, CountInv, Inside, ZeroInv
  <2>3. CASE waitq["waiters"] = <<>> /\ UNCHANGED kernel
    <3>1. waitq' = waitq BY <2>3, Zenon DEF kernel, table
    <3>2. Members(waitq'["waiters"]) = {} BY <2>3, <3>1, SMTT(30) DEF Members
    <3> QED BY <2>2, <2>3, <3>1, <3>2, ZenonT(60) DEF WInv, QueueInv, CreditInv
  <2>4. CASE waitq["waiters"] # <<>> /\ ~schedLock /\ Wake("waiters")
    <3>1. /\ Members(waitq'["waiters"]) \subseteq Members(waitq["waiters"])
          /\ \E h \in Credit' : h \notin Credit
          /\ Credit \subseteq Credit'
      BY <1>1, <1>4, <2>1, <2>4, HeadGetsCredit
    <3>2. QueueInv' BY <2>1, <3>1 DEF WInv, QueueInv, At
    <3>3. CreditInv' BY <1>1, <1>4, <2>4, <3>1, CreditAtLeast DEF WInv
    <3> QED BY <2>2, <3>2, <3>3 DEF WInv
  <2> QED BY <1>4, <2>3, <2>4
<1> QED BY <1>2, <1>3, <1>4, SMTT(30) DEF IsrPost

\* Every step keeps the wake-ups.
LEMMA WakesNext ==
    ASSUME CInv, CInv', WInv, Preempt # "anywhere", [Next]_vars PROVE WInv'
<1>1. CASE WaitSleep
  <2>1. UNCHANGED sem BY <1>1, Zenon DEF WaitSleep
  <2>2. CASE SleepYield BY <2>1, <2>2, YieldWakes DEF SleepYield, At
  <2> QED BY <1>1, <2>1, <2>2, EnqueueWakes, OwnWakes DEF WaitSleep
<1>2. CASE UserYield /\ UNCHANGED sem BY <1>2, YieldWakes, Zenon DEF UserYield, At
<1>3. CASE UNCHANGED vars
  <2>1. UNCHANGED <<waitq, schedLock, cpu, pc, ret, guard, count>>
    BY <1>3, Zenon DEF vars, base, kernel, table, machine, control, sem
  <2>2. Credit' = Credit BY <2>1, Zenon DEF Credit, Woken, Members
  <2>3. ZeroInv' /\ CreditInv' BY <2>1, <2>2, Zenon DEF WInv, ZeroInv, CreditInv, At
  <2>4. QueueInv' BY <2>1, Zenon DEF WInv, QueueInv, At, Members
  <2> QED BY <2>3, <2>4, Zenon DEF WInv
<1>4. CASE OwnStep BY <1>1, <1>2, <1>4, OwnWakes, PostWakeWakes, SwitchWakes DEF OwnStep
<1>5. CASE Interrupt BY <1>5, IsrPostWakes, TickWakes, Zenon DEF Interrupt
<1> QED BY <1>3, <1>4, <1>5 DEF Next

\* While processes sleep, every available unit has a poster that is about to
\* wake one of them, or a process that was woken and is on its way back.
THEOREM UnitsHaveWakeups == ASSUME Preempt # "anywhere" PROVE Spec => []EnoughWakeups
<1>1. Spec => []WInv
  BY WakesInit, WakesNext, SemInvariance, PTL DEF Spec
<1>2. ASSUME CInv, WInv PROVE EnoughWakeups
  <2> DEFINE R == {e \in Proc : \/ pc[e] = "wake"
                                \/ Returning(e, "waiters", {"wait", "test"})}
  <2>1. Credit \in SUBSET R BY Zenon DEF Credit, Woken, Returning
  <2>2. IsFiniteSet(R)
    <3>1. IsFiniteSet(Proc) BY KernelAssumption, FS_Interval, 1 \in Int, NProc \in Int, Zenon DEF Proc
    <3>2. R \in SUBSET Proc BY Zenon
    <3> QED BY <3>1, <3>2, FS_Subset, Zenon
  <2> HIDE DEF R
  <2>3. Cardinality(Credit) <= Cardinality(R) BY <2>1, <2>2, FS_Subset, Zenon
  <2>4. Cardinality(R) \in Nat BY <2>2, FS_CardinalityType, Zenon
  <2>5. count \in Nat /\ Cardinality(Credit) \in Nat BY <1>2, CreditFinite, Zenon DEF CInv, CountInv
  <2>6. waitq["waiters"] # <<>> /\ ~At("hung") => count <= Cardinality(R)
    BY <1>2, <2>3, <2>4, <2>5 DEF WInv, CreditInv
  <2> QED BY <2>6, Zenon DEF EnoughWakeups, R
<1> QED BY <1>1, <1>2, SemInvariance, PTL
=============================================================================
