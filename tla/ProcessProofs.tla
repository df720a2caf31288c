--------------------------- MODULE ProcessProofs ----------------------------
(***************************************************************************)
(* The scheduler of Sched and the mutex of Mutex, for every number of      *)
(* processes and users.  No process is linked twice or lost, every context *)
(* stays its own process's, and exit is final; the mutex excludes, loses no*)
(* wake-up, and little can stop the CPU in it.                             *)
(***************************************************************************)
EXTENDS Sched, Mutex, KernelProofs

-----------------------------------------------------------------------------
(* The scheduler.                                                          *)

Labels == {"made", "exit"}

\* Who is where: a process under construction is READY, in no queue and known
\* to one creator, who is alive; what runs is RUNNING until it has exited.
LifeInv ==
    /\ parent \in [Proc -> Exec] /\ kid \in [Exec -> Exec]
    /\ \A p \in Proc : pstate[p] # "SLEEPING"
    /\ \A e \in Exec : ret[e] # "made"
    /\ \A e \in Exec : kid[e] # Null => pc[e] \in {"made", "hung"}
    /\ \A e \in Exec : pc[e] = "made" =>
         kid[e] \in Proc /\ pstate[kid[e]] = "READY" /\ kid[e] \notin Members(runq)
    /\ \A e, f \in Exec : kid[e] = kid[f] /\ kid[e] # Null => e = f
    /\ \A p \in Proc : pc[p] = "made" => pstate[p] \in {"READY", "RUNNING"}
    /\ current \in Proc /\ pc[cpu] \in {"user", "made"} => pstate[current] = "RUNNING"

SInv == KInv(Labels) /\ LifeInv /\ NoneLost

\* The state before the first riv_proc_alloc satisfies the invariant.
LEMMA SchedInit == ASSUME Init PROVE SInv
<1>1. Null \in Exec /\ Null \notin Proc BY ProcNotNull, Zenon
<1>2. /\ Members(runq) = {} /\ DOMAIN runq = {} /\ runq \in Seq(Proc) /\ \A q \in Queue : DOMAIN waitq[q] = {}
      /\ waitq \in [Queue -> Seq(Proc)]
  BY DEF Init, Members
<1>3. LinkedOnce BY <1>2, Zenon DEF LinkedOnce
<1>4. TableInv BY <1>1, <1>2, <1>3, Zenon DEF TableInv, Init, ProcState
<1>5. MachineInv(Labels) BY <1>1, Zenon DEF MachineInv, Init, Exec
<1>6. LifeInv BY <1>1, Zenon DEF LifeInv, Init, Exec
<1>7. NoneLost BY Zenon DEF NoneLost, Init
<1> QED BY <1>4, <1>5, <1>6, <1>7, Zenon DEF SInv, KInv

\* In the code of a process, the process is `current`, on its own stack.
LEMMA OnCpu ==
    ASSUME SInv, pc[cpu] \in {"user", "made", "exit"}
    PROVE  /\ cpu = current /\ cpu \in Exec
           /\ \A e \in Exec : pc[e] \notin {"switch", "hung"}
           /\ \A q \in Queue : waitq[q] \in Seq(Proc) /\ Members(waitq[q]) = {}
           /\ runq \in Seq(Proc) /\ Distinct(runq)
<1>1. cpu = current /\ cpu \in Exec /\ \A e \in Exec : pc[e] \notin {"switch", "hung"}
  BY Zenon DEF SInv, KInv, MachineInv
<1>2. \A q \in Queue : waitq[q] \in Seq(Proc) /\ Members(waitq[q]) = {}
  BY DEF SInv, KInv, TableInv, LinkedOnce, LifeInv, Members
<1>3. runq \in Seq(Proc) /\ Distinct(runq)
  BY Zenon DEF SInv, KInv, TableInv, LinkedOnce, Distinct
<1> QED BY <1>1, <1>2, <1>3, Zenon

\* LinkedOnce when only the run queue and states of unlinked processes change.
LEMMA Relink ==
    ASSUME runq' \in Seq(Proc), Distinct(runq'),
           \A p \in Members(runq') : pstate'[p] = "READY",
           \A q \in Queue : Members(waitq'[q]) = {}
    PROVE  LinkedOnce'
<1>1. \A q \in Queue : DOMAIN waitq'[q] = {} BY Zenon DEF Members
<1> QED BY <1>1, Zenon DEF LinkedOnce, Distinct

\* The CPU stops at a leaked riv_sched.lock.
LEMMA HangStep ==
    ASSUME SInv, Hang, pc[cpu] \in {"user", "made", "exit"}, UNCHANGED <<parent, kid>>
    PROVE  SInv'
<1>1. /\ KInv(Labels)' /\ pc' = [pc EXCEPT ![cpu] = "hung"] /\ UNCHANGED <<pstate, runq, current, cpu, ret>>
  BY HangInv, Zenon DEF SInv, Hang, table
<1>2. /\ cpu \in Exec /\ pc'[cpu] = "hung" /\ \A e \in Exec : e # cpu => pc'[e] = pc[e]
  BY <1>1 DEF SInv, KInv, MachineInv
<1>3. LifeInv' BY <1>1, <1>2 DEF SInv, LifeInv, Members, Exec
<1>4. NoneLost' BY <1>1, Zenon DEF SInv, NoneLost, Members
<1> QED BY <1>1, <1>3, <1>4, Zenon DEF SInv

-----------------------------------------------------------------------------
(* One lemma per action.                                                   *)

\* riv_proc_alloc hands out a slot that is in no queue.
LEMMA ProcAllocInv == ASSUME SInv, ProcAlloc PROVE SInv'
<1>0. pc[cpu] = "user" BY Zenon DEF ProcAlloc, At
<1>1. CASE schedLock /\ Hang /\ UNCHANGED <<parent, kid>>
  BY <1>0, <1>1, HangStep, Zenon
<1>2. ASSUME NEW p \in Proc, ~schedLock, pstate[p] = "UNUSED",
             pstate' = [pstate EXCEPT ![p] = "READY"],
             parent' = [parent EXCEPT ![p] = current],
             ctx' = [ctx EXCEPT ![p] = p],
             flags' = [flags EXCEPT ![p] = TRUE],
             pc' = [pc EXCEPT ![p] = "user", ![cpu] = "made"],
             kid' = [kid EXCEPT ![cpu] = p],
             UNCHANGED <<runq, current, waitq, schedLock, irq, cpu, ret, picked>>
      PROVE  SInv'
  <2>1. /\ cpu = current /\ cpu \in Exec /\ p \in Exec /\ p # Null /\ Proc \subseteq Exec
        /\ \A e \in Exec : pc[e] \notin {"switch", "hung"}
        /\ \A q \in Queue : waitq[q] \in Seq(Proc) /\ Members(waitq[q]) = {}
        /\ runq \in Seq(Proc) /\ Distinct(runq)
    BY <1>0, <1>2, OnCpu, ProcNotNull, Zenon
  <2>2. cpu # p
    BY <1>0, <1>2, <2>1 DEF SInv, LifeInv
  <2>3. p \notin Members(runq) /\ \A r \in Members(runq) : pstate[r] = "READY" /\ r \in Proc
    BY <1>2, MembersAreProc, Zenon DEF SInv, KInv, TableInv, LinkedOnce
  <2>4. LinkedOnce'
    <3>1. \A r \in Members(runq') : pstate'[r] = "READY" BY <1>2, <2>3, Zenon DEF SInv, KInv, TableInv
    <3> QED BY <1>2, <2>1, <3>1, Relink, Zenon
  <2>5. TableInv'
    BY <1>2, <2>4, Zenon DEF SInv, KInv, TableInv, ProcState
  <2>6. /\ pc' \in [Exec -> Labels \cup {"user", "switch", "hung"}]
        /\ pc'[cpu] = "made" /\ pc'[p] = "user"
        /\ \A e \in Exec : e # cpu /\ e # p => pc'[e] = pc[e]
    BY <1>2, <2>1, <2>2 DEF SInv, KInv, MachineInv, Labels
  <2>7. MachineInv(Labels)'
    <3>1. ctx' \in [Proc -> Exec] /\ flags' \in [Exec -> BOOLEAN] /\ \A r \in Proc : ctx'[r] = r
      BY <1>2, <2>1, Zenon DEF SInv, KInv, MachineInv
    <3>2. \A e \in Exec : pc'[e] \notin {"switch", "hung"} BY <2>1, <2>6, Zenon
    <3> QED BY <1>2, <2>1, <2>6, <3>1, <3>2, Zenon DEF SInv, KInv, MachineInv
  <2>8. /\ kid' \in [Exec -> Exec] /\ kid'[cpu] = p /\ \A e \in Exec : e # cpu => kid'[e] = kid[e]
        /\ parent' \in [Proc -> Exec]
    BY <1>2, <2>1 DEF SInv, LifeInv
  <2>9. kid[p] = Null /\ kid[cpu] = Null /\ \A e \in Exec : kid[e] # p
    <3>1. kid[cpu] = Null BY <1>0, <2>1, Zenon DEF SInv, LifeInv
    <3>2. kid[p] = Null BY <1>2, <2>1, Zenon DEF SInv, LifeInv
    <3>3. ASSUME NEW e \in Exec, kid[e] = p PROVE FALSE
      <4>1. pc[e] = "made" BY <2>1, <3>3, Zenon DEF SInv, LifeInv
      <4> QED BY <1>2, <3>3, <4>1, Zenon DEF SInv, LifeInv
    <3> QED BY <3>1, <3>2, <3>3, Zenon
  <2>10. LifeInv'
    <3>1. \A r \in Proc : pstate'[r] # "SLEEPING" BY <1>2 DEF SInv, LifeInv
    <3>2. \A e \in Exec : kid'[e] # Null => pc'[e] \in {"made", "hung"}
      BY <2>1, <2>2, <2>6, <2>8, <2>9 DEF SInv, LifeInv
    <3>3. ASSUME NEW e \in Exec, pc'[e] = "made"
          PROVE  kid'[e] \in Proc /\ pstate'[kid'[e]] = "READY" /\ kid'[e] \notin Members(runq')
      <4>1. CASE e = cpu BY <1>2, <2>3, <2>8, <4>1 DEF SInv, KInv, TableInv
      <4>2. CASE e # cpu
        <5>1. e # p /\ pc[e] = "made" /\ kid'[e] = kid[e] BY <2>6, <2>8, <3>3, <4>2, Zenon
        <5>2. kid[e] \in Proc /\ pstate[kid[e]] = "READY" /\ kid[e] \notin Members(runq)
          BY <5>1, Zenon DEF SInv, LifeInv
        <5> QED BY <1>2, <2>9, <5>1, <5>2, Zenon DEF SInv, KInv, TableInv
      <4> QED BY <4>1, <4>2, Zenon
    <3>4. \A e, f \in Exec : kid'[e] = kid'[f] /\ kid'[e] # Null => e = f
      BY <2>8, <2>9 DEF SInv, LifeInv
    <3>5. \A r \in Proc : pc'[r] = "made" => pstate'[r] \in {"READY", "RUNNING"}
      <4> SUFFICES ASSUME NEW r \in Proc, pc'[r] = "made" PROVE pstate'[r] \in {"READY", "RUNNING"}
        BY Zenon
      <4>1. r # p BY <2>6, Zenon
      <4>2. r = cpu => pstate[r] = "RUNNING" BY <1>0, <2>1 DEF SInv, LifeInv
      <4>3. r # cpu => pc[r] = "made" BY <2>1, <2>6, <4>1, Zenon
      <4> QED BY <1>2, <4>1, <4>2, <4>3, Zenon DEF SInv, LifeInv, KInv, TableInv
    <3>6. current' \in Proc => pstate'[current'] = "RUNNING"
      BY <1>0, <1>2, <2>1, <2>2 DEF SInv, LifeInv, KInv, TableInv
    <3>7. \A e \in Exec : ret'[e] # "made" BY <1>2, Zenon DEF SInv, LifeInv
    <3> QED BY <2>8, <3>1, <3>2, <3>3, <3>4, <3>5, <3>6, <3>7, Zenon DEF LifeInv
  <2>11. NoneLost'
    <3> SUFFICES ASSUME NEW r \in Proc, pstate'[r] = "READY", r \notin Members(runq')
                 PROVE  \E e \in Exec : kid'[e] = r
      BY Zenon DEF NoneLost
    <3>1. CASE r = p BY <2>1, <2>8, <3>1, Zenon
    <3>2. CASE r # p
      <4>1. pstate[r] = "READY" /\ r \notin Members(runq) BY <1>2, <3>2, Zenon DEF SInv, KInv, TableInv
      <4>2. PICK e \in Exec : kid[e] = r BY <4>1, Zenon DEF SInv, NoneLost
      <4>3. e # cpu BY <2>9, <4>2, ProcNotNull, Zenon
      <4> QED BY <2>8, <4>2, <4>3, Zenon
    <3> QED BY <3>1, <3>2, Zenon
  <2> QED BY <2>5, <2>7, <2>10, <2>11, Zenon DEF SInv, KInv
<1> QED BY <1>1, <1>2, Zenon DEF ProcAlloc

\* riv_proc_ready queues a process that was in no queue.
LEMMA ProcReadyInv == ASSUME SInv, ProcReady PROVE SInv'
<1>0. pc[cpu] = "made" /\ UNCHANGED parent BY Zenon DEF ProcReady, At
<1>1. CASE schedLock /\ Hang /\ UNCHANGED kid
  BY <1>0, <1>1, HangStep, Zenon
<1>2. CASE /\ ~schedLock
           /\ MakeReady(kid[cpu])
           /\ kid' = [kid EXCEPT ![cpu] = Null]
           /\ Goto("user")
           /\ UNCHANGED <<current, waitq, schedLock, machine, ret, picked>>
  <2> DEFINE k == kid[cpu]
  <2>1. /\ cpu = current /\ cpu \in Exec /\ \A e \in Exec : pc[e] \notin {"switch", "hung"}
        /\ \A q \in Queue : waitq[q] \in Seq(Proc) /\ Members(waitq[q]) = {}
        /\ runq \in Seq(Proc) /\ Distinct(runq)
    BY <1>0, OnCpu, Zenon
  <2>2. k \in Proc /\ pstate[k] = "READY" /\ k \notin Members(runq)
    BY <1>0, <2>1, Zenon DEF SInv, LifeInv
  <2>3. /\ pstate' = [pstate EXCEPT ![k] = "READY"] /\ runq' = Append(runq, k)
        /\ pc' = [pc EXCEPT ![cpu] = "user"]
        /\ UNCHANGED <<current, waitq, schedLock, irq, cpu, ctx, flags, ret, picked>>
    BY <1>2, Zenon DEF MakeReady, Goto, machine
  <2> HIDE DEF k
  <2>4. pstate' = pstate BY <2>2, <2>3, Zenon DEF SInv, KInv, TableInv
  <2>5. runq' \in Seq(Proc) /\ Distinct(runq') /\ Members(runq') = Members(runq) \cup {k}
    BY <2>1, <2>2, <2>3, AppendDistinct, Zenon
  <2>6. LinkedOnce'
    <3>1. \A r \in Members(runq') : pstate'[r] = "READY"
      BY <2>2, <2>4, <2>5, Zenon DEF SInv, KInv, TableInv, LinkedOnce
    <3> QED BY <2>1, <2>3, <2>5, <3>1, Relink, SMTT(30)
  <2>7. TableInv' BY <2>3, <2>4, <2>5, <2>6, Zenon DEF SInv, KInv, TableInv
  <2>8. /\ pc' \in [Exec -> Labels \cup {"user", "switch", "hung"}]
        /\ pc'[cpu] = "user" /\ \A e \in Exec : e # cpu => pc'[e] = pc[e]
    BY <2>1, <2>3, Zenon DEF SInv, KInv, MachineInv, Labels
  <2>9. MachineInv(Labels)' BY <2>1, <2>3, <2>8, Zenon DEF SInv, KInv, MachineInv
  <2>10. /\ kid' \in [Exec -> Exec] /\ kid'[cpu] = Null /\ \A e \in Exec : e # cpu => kid'[e] = kid[e]
    BY <1>2, <2>1, ProcNotNull DEF SInv, LifeInv
  <2>11. LifeInv'
    <3>1. \A e \in Exec : kid'[e] # Null => pc'[e] \in {"made", "hung"}
      BY <2>8, <2>10, Zenon DEF SInv, LifeInv
    <3>2. ASSUME NEW e \in Exec, pc'[e] = "made"
          PROVE  kid'[e] \in Proc /\ pstate'[kid'[e]] = "READY" /\ kid'[e] \notin Members(runq')
      <4>1. e # cpu /\ pc[e] = "made" /\ kid'[e] = kid[e] BY <2>8, <2>10, <3>2, Zenon
      <4>2. kid[e] # k BY <2>1, <2>2, <4>1, ProcNotNull DEF SInv, LifeInv, k
      <4> QED BY <2>4, <2>5, <4>1, <4>2, Zenon DEF SInv, LifeInv
    <3>3. \A e, f \in Exec : kid'[e] = kid'[f] /\ kid'[e] # Null => e = f
      BY <2>10 DEF SInv, LifeInv
    <3>4. \A r \in Proc : pc'[r] = "made" => pstate'[r] \in {"READY", "RUNNING"}
      BY <2>4, <2>8, ProcNotNull, Zenon DEF SInv, LifeInv
    <3>5. current' \in Proc => pstate'[current'] = "RUNNING"
      BY <1>0, <2>3, <2>4, Zenon DEF SInv, LifeInv
    <3> QED BY <1>0, <2>3, <2>4, <2>10, <3>1, <3>2, <3>3, <3>4, <3>5 DEF SInv, LifeInv
  <2>12. NoneLost'
    <3> SUFFICES ASSUME NEW r \in Proc, pstate'[r] = "READY", r \notin Members(runq')
                 PROVE  \E e \in Exec : kid'[e] = r
      BY Zenon DEF NoneLost
    <3>1. pstate[r] = "READY" /\ r \notin Members(runq) /\ r # k BY <2>4, <2>5, Zenon
    <3>2. PICK e \in Exec : kid[e] = r BY <3>1, Zenon DEF SInv, NoneLost
    <3>3. e # cpu BY <3>1, <3>2, Zenon DEF k
    <3> QED BY <2>10, <3>2, <3>3, Zenon
  <2> QED BY <2>7, <2>9, <2>11, <2>12, Zenon DEF SInv, KInv
<1> QED BY <1>0, <1>1, <1>2, Zenon DEF ProcReady

\* riv_proc_free gives back a process that is in no queue and not on the CPU.
LEMMA ProcFreeInv == ASSUME SInv, ProcFree PROVE SInv'
<1>0. pc[cpu] = "user" /\ UNCHANGED <<parent, kid>> BY Zenon DEF ProcFree, At
<1>1. CASE schedLock /\ Hang
  BY <1>0, <1>1, HangStep, Zenon
<1>2. ASSUME NEW p \in Proc, current # Null, pstate[p] = "ZOMBIE",
             pstate' = [pstate EXCEPT ![p] = "UNUSED"],
             runq' = Without(runq, p),
             waitq' = [q \in Queue |-> Without(waitq[q], p)],
             UNCHANGED <<current, schedLock, machine, control>>
      PROVE  SInv'
  <2>1. /\ cpu = current /\ cpu \in Exec /\ \A e \in Exec : pc[e] \notin {"switch", "hung"}
        /\ \A q \in Queue : waitq[q] \in Seq(Proc) /\ Members(waitq[q]) = {}
        /\ runq \in Seq(Proc) /\ Distinct(runq)
    BY <1>0, OnCpu, Zenon
  <2>2. p # current BY <1>0, <1>2, <2>1 DEF SInv, LifeInv
  <2>3. p \notin Members(runq)
    BY <1>2, Zenon DEF SInv, KInv, TableInv, LinkedOnce
  <2>4. runq' = runq BY <1>2, <2>3, Zenon DEF Without
  <2>5. waitq' = waitq
    <3>1. \A q \in Queue : Without(waitq[q], p) = waitq[q] BY <2>1, Zenon DEF Without
    <3>2. waitq \in [Queue -> Seq(Proc)] BY Zenon DEF SInv, KInv, TableInv
    <3> QED BY <1>2, <3>1, <3>2, Zenon
  <2>6. /\ UNCHANGED <<current, schedLock, irq, cpu, ctx, flags, pc, ret, picked>>
        /\ pstate' \in [Proc -> ProcState] /\ pstate'[p] = "UNUSED"
        /\ \A r \in Proc : r # p => pstate'[r] = pstate[r]
    BY <1>2, Zenon DEF machine, control, SInv, KInv, TableInv, ProcState
  <2>7. LinkedOnce'
    <3>1. \A r \in Members(runq') : pstate'[r] = "READY"
      BY <2>1, <2>3, <2>4, <2>6, MembersAreProc, Zenon DEF SInv, KInv, TableInv, LinkedOnce
    <3> QED BY <2>1, <2>4, <2>5, <3>1, Relink, Zenon
  <2>8. TableInv' BY <2>4, <2>5, <2>6, <2>7, Zenon DEF SInv, KInv, TableInv
  <2>9. MachineInv(Labels)' BY <2>1, <2>6, Zenon DEF SInv, KInv, MachineInv
  <2>10. LifeInv'
    <3>1. ASSUME NEW e \in Exec, pc'[e] = "made"
          PROVE  kid'[e] \in Proc /\ pstate'[kid'[e]] = "READY" /\ kid'[e] \notin Members(runq')
      <4>1. kid[e] \in Proc /\ pstate[kid[e]] = "READY" /\ kid[e] \notin Members(runq)
        BY <2>6, <3>1, Zenon DEF SInv, LifeInv
      <4> QED BY <1>0, <1>2, <2>4, <2>6, <4>1, Zenon
    <3>2. \A r \in Proc : pc'[r] = "made" => pstate'[r] \in {"READY", "RUNNING"}
      BY <1>2, <2>6, Zenon DEF SInv, LifeInv
    <3>3. current' \in Proc => pstate'[current'] = "RUNNING"
      BY <1>0, <2>2, <2>6, Zenon DEF SInv, LifeInv
    <3>4. \A r \in Proc : pstate'[r] # "SLEEPING" BY <2>6 DEF SInv, LifeInv
    <3> QED BY <1>0, <2>6, <3>1, <3>2, <3>3, <3>4 DEF SInv, LifeInv
  <2>11. NoneLost' BY <1>0, <1>2, <2>4, <2>6, Zenon DEF SInv, NoneLost
  <2> QED BY <2>8, <2>9, <2>10, <2>11, Zenon DEF SInv, KInv
<1> QED BY <1>0, <1>1, <1>2, Zenon DEF ProcFree

\* riv_proc_exit leaves a zombie that is about to yield.
LEMMA ProcExitInv == ASSUME SInv, ProcExit PROVE SInv'
<1>1. /\ pc[cpu] = "user" /\ current # Null
      /\ pstate' = [pstate EXCEPT ![current] = "ZOMBIE"] /\ pc' = [pc EXCEPT ![cpu] = "exit"]
      /\ UNCHANGED <<runq, current, waitq, schedLock, irq, cpu, ctx, flags, ret, picked, parent, kid>>
  BY Zenon DEF ProcExit, At, Goto, machine
<1>2. /\ cpu = current /\ cpu \in Exec /\ \A e \in Exec : pc[e] \notin {"switch", "hung"}
      /\ \A q \in Queue : waitq[q] \in Seq(Proc) /\ Members(waitq[q]) = {}
      /\ runq \in Seq(Proc) /\ Distinct(runq)
  BY <1>1, OnCpu, Zenon
<1>3. current \in Proc /\ pstate[current] = "RUNNING"
  BY <1>1, <1>2, Zenon DEF SInv, LifeInv, Exec
<1>4. current \notin Members(runq) /\ \A r \in Members(runq) : pstate[r] = "READY" /\ r \in Proc
  BY <1>3, MembersAreProc, Zenon DEF SInv, KInv, TableInv, LinkedOnce
<1>5. /\ pstate' \in [Proc -> ProcState] /\ pstate'[current] = "ZOMBIE"
      /\ \A r \in Proc : r # current => pstate'[r] = pstate[r]
      /\ pc' \in [Exec -> Labels \cup {"user", "switch", "hung"}]
      /\ pc'[cpu] = "exit" /\ \A e \in Exec : e # cpu => pc'[e] = pc[e]
  BY <1>1, <1>2, <1>3 DEF SInv, KInv, TableInv, MachineInv, Labels, ProcState
<1>6. LinkedOnce'
  <2>1. \A r \in Members(runq') : pstate'[r] = "READY" BY <1>1, <1>4, <1>5, Zenon
  <2> QED BY <1>1, <1>2, <2>1, Relink, Zenon
<1>7. TableInv' BY <1>1, <1>5, <1>6, Zenon DEF SInv, KInv, TableInv
<1>8. MachineInv(Labels)' BY <1>1, <1>2, <1>5, Zenon DEF SInv, KInv, MachineInv
<1>9. LifeInv'
  <2>1. ASSUME NEW e \in Exec, pc'[e] = "made"
        PROVE  kid'[e] \in Proc /\ pstate'[kid'[e]] = "READY" /\ kid'[e] \notin Members(runq')
    <3>1. kid[e] \in Proc /\ pstate[kid[e]] = "READY" /\ kid[e] \notin Members(runq)
      BY <1>5, <2>1, Zenon DEF SInv, LifeInv
    <3> QED BY <1>1, <1>3, <1>5, <3>1, Zenon
  <2>2. \A r \in Proc : pc'[r] = "made" => pstate'[r] \in {"READY", "RUNNING"}
    BY <1>2, <1>5, ProcNotNull DEF SInv, LifeInv
  <2>3. \A r \in Proc : pstate'[r] # "SLEEPING" BY <1>5 DEF SInv, LifeInv
  <2>4. \A e \in Exec : kid'[e] # Null => pc'[e] \in {"made", "hung"} BY <1>1, <1>5, Zenon DEF SInv, LifeInv
  <2> QED BY <1>1, <1>5, <2>1, <2>2, <2>3, <2>4 DEF SInv, LifeInv
<1>10. NoneLost' BY <1>1, <1>5, Zenon DEF SInv, NoneLost
<1> QED BY <1>7, <1>8, <1>9, <1>10, Zenon DEF SInv, KInv

\* An election moves only processes that can run, and forgets none.
LEMMA ElectLife ==
    ASSUME SInv, Elect, UNCHANGED kid
    PROVE  /\ \A p \in Proc : pstate'[p] # "SLEEPING"
           /\ \A p \in Proc : pstate[p] \in {"READY", "RUNNING"} <=> pstate'[p] \in {"READY", "RUNNING"}
           /\ \A p \in Proc : pstate[p] = "READY" /\ p \notin Members(runq)
                                => pstate'[p] = "READY" /\ p \notin Members(runq')
           /\ \A p \in Proc : pstate[p] = "ZOMBIE" => pstate'[p] = "ZOMBIE"
           /\ NoneLost'
<1>1. /\ TableInv /\ TableInv' /\ current' \in Members(runq) /\ pstate[current'] = "READY"
      /\ pstate'[current'] = "RUNNING"
      /\ \A p \in Members(runq') : p \in Members(runq) \/ (p = current /\ pstate[p] = "RUNNING")
      /\ \A p \in Members(runq) : p = current' \/ p \in Members(runq')
      /\ \A p \in Proc : \/ pstate'[p] = pstate[p]
                         \/ p = current'
                         \/ /\ p = current /\ p \in Members(runq')
                            /\ pstate[p] = "RUNNING" /\ pstate'[p] = "READY"
  BY ElectTable, Zenon DEF SInv, KInv
<1>2. \A p \in Proc : pstate'[p] # "SLEEPING" BY <1>1 DEF SInv, LifeInv
<1>3. \A p \in Proc : pstate[p] \in {"READY", "RUNNING"} <=> pstate'[p] \in {"READY", "RUNNING"}
  BY <1>1, Zenon
<1>4. ASSUME NEW p \in Proc, pstate[p] = "READY", p \notin Members(runq)
      PROVE  pstate'[p] = "READY" /\ p \notin Members(runq')
  BY <1>1, <1>4, Zenon
<1>5. \A p \in Proc : pstate[p] = "ZOMBIE" => pstate'[p] = "ZOMBIE" BY <1>1, Zenon
<1>6. NoneLost'
  <2> SUFFICES ASSUME NEW r \in Proc, pstate'[r] = "READY", r \notin Members(runq')
               PROVE  \E e \in Exec : kid'[e] = r
    BY Zenon DEF NoneLost
  <2>1. pstate[r] = "READY" /\ r # current' BY <1>1, Zenon
  <2>2. r \notin Members(runq) BY <1>1, <2>1, Zenon
  <2> QED BY <2>1, <2>2, Zenon DEF SInv, NoneLost
<1> QED BY <1>2, <1>3, <1>4, <1>5, <1>6, Zenon

\* riv_proc_yield, from a process at l, which stays there.
LEMMA YieldLife ==
    ASSUME SInv, NEW l \in {"user", "exit"}, pc[cpu] = l, YieldSelect(l), UNCHANGED <<parent, kid>>
    PROVE  SInv'
<1>1. /\ KInv(Labels)' /\ cpu' = cpu
      /\ \A e \in Exec : e # cpu => pc'[e] = pc[e] /\ ret'[e] = ret[e]
      /\ ret'[cpu] \in {ret[cpu], l}
      /\ \/ pc'[cpu] = l
         \/ pc'[cpu] = "switch" /\ ret'[cpu] = l /\ current' # current
         \/ pc'[cpu] = "hung" /\ schedLock'
      /\ UNCHANGED table \/ Elect
  BY YieldInv DEF SInv, Labels
<1>2. cpu = current /\ cpu \in Exec BY OnCpu, Zenon
<1>3. kid[cpu] = Null /\ \A e \in Exec : pc'[e] = "made" => pc[e] = "made"
  BY <1>1, <1>2, Zenon DEF SInv, LifeInv
<1>4. /\ \A e \in Exec : kid'[e] # Null => pc'[e] \in {"made", "hung"}
      /\ \A e \in Exec : ret'[e] # "made"
  BY <1>1, <1>3 DEF SInv, LifeInv
<1>5. CASE UNCHANGED table
  <2>1. UNCHANGED <<pstate, runq, current, waitq>> BY <1>5, Zenon DEF table
  <2>2. LifeInv' BY <1>1, <1>2, <1>3, <1>4, <2>1, ProcNotNull DEF SInv, LifeInv
  <2>3. NoneLost' BY <2>1, SMTT(30) DEF SInv, NoneLost
  <2> QED BY <1>1, <2>2, <2>3, Zenon DEF SInv
<1>6. CASE Elect
  <2>1. /\ \A p \in Proc : pstate'[p] # "SLEEPING"
        /\ \A p \in Proc : pstate[p] \in {"READY", "RUNNING"} <=> pstate'[p] \in {"READY", "RUNNING"}
        /\ \A p \in Proc : pstate[p] = "READY" /\ p \notin Members(runq)
                             => pstate'[p] = "READY" /\ p \notin Members(runq')
        /\ NoneLost'
    BY <1>6, ElectLife, SMTT(30)
  <2>2. pstate'[current'] = "RUNNING" BY <1>6, ElectTable, SMTT(30) DEF SInv, KInv
  <2>3. LifeInv' BY <1>3, <1>4, <2>1, <2>2, ProcNotNull DEF SInv, LifeInv
  <2> QED BY <1>1, <2>1, <2>3, SMTT(30) DEF SInv
<1> QED BY <1>1, <1>5, <1>6, Zenon

\* The elected process is resumed, and it is no zombie.
LEMMA SwitchLife == ASSUME SInv, ProcSwitch PROVE SInv'
<1>1. Switch /\ UNCHANGED <<parent, kid>> BY Zenon DEF ProcSwitch
<1>2. /\ KInv(Labels)' /\ pc[cpu] = "switch" /\ pc' = [pc EXCEPT ![cpu] = ret[cpu]]
      /\ cpu' = current /\ pstate[cpu'] = "RUNNING" /\ UNCHANGED table
      /\ ret' = [ret EXCEPT ![cpu] = "user"]
  BY <1>1, SwitchInv, Zenon DEF SInv, Labels
<1>3. UNCHANGED <<pstate, runq, current, waitq>> BY <1>2, Zenon DEF table
<1>4. ret[cpu] # "made" /\ cpu \in Exec /\ kid[cpu] = Null
  BY <1>2, ZenonT(60) DEF SInv, LifeInv, KInv, MachineInv
<1>5. /\ \A e \in Exec : pc'[e] = "made" => pc[e] = "made"
      /\ \A e \in Exec : e # cpu => pc'[e] = pc[e]
      /\ \A e \in Exec : ret'[e] # "made"
  BY <1>2, <1>4, SMTT(30) DEF SInv, LifeInv, KInv, MachineInv
<1>6. LifeInv' BY <1>1, <1>2, <1>3, <1>4, <1>5, ProcNotNull DEF SInv, LifeInv
<1>7. NoneLost' BY <1>1, <1>3, Zenon DEF SInv, NoneLost
<1> QED BY <1>2, <1>6, <1>7, Zenon DEF SInv

\* A timer interrupt outside the switch keeps the invariant.
LEMMA TickLife == ASSUME SInv, Preempt # "anywhere", ProcTick PROVE SInv'
<1>1. Tick /\ UNCHANGED <<parent, kid>> BY Zenon DEF ProcTick
<1>2. /\ KInv(Labels)' /\ pc[cpu] \notin {"switch", "hung"} /\ ret' = ret
      /\ \/ schedLock /\ Hang
         \/ pc' = pc /\ UNCHANGED <<table, machine>> /\ schedLock'
         \/ pc' = pc /\ Elect /\ cpu' = current' /\ pstate'[cpu'] = "RUNNING"
            /\ schedLock' = schedLock
  BY <1>1, TickInv, Zenon DEF SInv
<1>3. CASE Hang
  <2>1. pc[cpu] \in {"user", "made", "exit"} BY <1>2 DEF SInv, KInv, MachineInv, Labels
  <2> QED BY <1>1, <1>3, <2>1, HangStep, Zenon
<1>4. CASE pc' = pc /\ UNCHANGED <<table, machine>>
  <2>1. UNCHANGED <<pstate, runq, current, waitq, cpu>> BY <1>4, Zenon DEF table, machine
  <2>2. LifeInv' BY <1>1, <1>2, <1>4, <2>1, Zenon DEF SInv, LifeInv
  <2>3. NoneLost' BY <1>1, <2>1, Zenon DEF SInv, NoneLost
  <2> QED BY <1>2, <2>2, <2>3, Zenon DEF SInv
<1>5. CASE pc' = pc /\ Elect /\ cpu' = current' /\ pstate'[cpu'] = "RUNNING"
  <2>1. /\ \A p \in Proc : pstate'[p] # "SLEEPING"
        /\ \A p \in Proc : pstate[p] \in {"READY", "RUNNING"} <=> pstate'[p] \in {"READY", "RUNNING"}
        /\ \A p \in Proc : pstate[p] = "READY" /\ p \notin Members(runq)
                             => pstate'[p] = "READY" /\ p \notin Members(runq')
        /\ NoneLost'
    BY <1>1, <1>5, ElectLife, SMTT(30)
  <2>2. LifeInv' BY <1>1, <1>2, <1>5, <2>1 DEF SInv, LifeInv
  <2> QED BY <1>2, <2>1, <2>2, Zenon DEF SInv
<1> QED BY <1>2, <1>3, <1>4, <1>5, Zenon

-----------------------------------------------------------------------------
\* Every step keeps the invariant.
LEMMA SchedNext == ASSUME SInv, Preempt # "anywhere", [Next]_vars PROVE SInv'
<1>1. CASE ProcAlloc BY <1>1, ProcAllocInv, Zenon
<1>2. CASE ProcReady BY <1>2, ProcReadyInv, Zenon
<1>3. CASE ProcFree BY <1>3, ProcFreeInv, Zenon
<1>4. CASE Yield BY <1>4, YieldLife, Zenon DEF Yield, At
<1>5. CASE ProcExit BY <1>5, ProcExitInv, Zenon
<1>6. CASE ExitYield BY <1>6, YieldLife, Zenon DEF ExitYield, At
<1>7. CASE ProcSwitch BY <1>7, SwitchLife, Zenon
<1>8. CASE ProcTick BY <1>8, TickLife, Zenon
<1>9. CASE UNCHANGED vars
  <2>1. UNCHANGED <<pstate, runq, current, waitq, schedLock, irq, cpu, ctx, flags, pc, ret, picked, parent, kid>>
    BY <1>9, Zenon DEF vars, kernel, table, machine, control
  <2>2. TableInv' BY <2>1 DEF SInv, KInv, TableInv, LinkedOnce, Members
  <2>3. MachineInv(Labels)' BY <2>1, Zenon DEF SInv, KInv, MachineInv
  <2>4. LifeInv' BY <2>1, Zenon DEF SInv, LifeInv
  <2>5. NoneLost' BY <2>1, Zenon DEF SInv, NoneLost
  <2> QED BY <2>2, <2>3, <2>4, <2>5, Zenon DEF SInv, KInv
<1> QED BY <1>1, <1>2, <1>3, <1>4, <1>5, <1>6, <1>7, <1>8, <1>9, Zenon DEF Next

\* SInv holds in every reachable state, for every number of processes, if the
\* timer does not fire between election and switch.
THEOREM SchedInvariance == ASSUME Preempt # "anywhere" PROVE Spec => []SInv
  BY SchedInit, SchedNext, PTL DEF Spec

\* riv_proc_alloc, riv_proc_ready, riv_proc_free, riv_proc_yield, riv_proc_exit
\* and the timer keep the process table, the run queue and the saved contexts
\* consistent, for every RIV_PROC_MAX.
THEOREM SchedIsConsistent ==
    ASSUME Preempt # "anywhere"
    PROVE  Spec => []Consistent
<1>1. ASSUME SInv PROVE Consistent
  <2>1. KernelTypeOK(Labels) /\ LinkedOnce /\ ContextOwned BY <1>1, KInvImplies, Zenon DEF SInv
  <2> QED BY <1>1, <2>1, Zenon DEF SInv, LifeInv, Consistent, TypeOK, Labels
<1> QED BY <1>1, SchedInvariance, PTL

\* No READY process is ever outside the run queue, except in its creator's hands.
THEOREM NoProcessIsLost == ASSUME Preempt # "anywhere" PROVE Spec => []NoneLost
<1>1. SInv => NoneLost BY Zenon DEF SInv
<1> QED BY <1>1, SchedInvariance, PTL

\* Nothing but riv_proc_free, and then riv_proc_alloc, revives an exited process.
THEOREM ExitIsFinal ==
    ASSUME Preempt # "anywhere"
    PROVE  Spec => ZombieStaysDead
<1>1. ASSUME SInv, [Next]_vars, NEW p \in Proc, pstate[p] = "ZOMBIE"
      PROVE  pstate'[p] \in {"ZOMBIE", "UNUSED"}
  <2>0. pstate \in [Proc -> ProcState] BY <1>1, Zenon DEF SInv, KInv, TableInv
  <2>1. CASE Hang \/ UNCHANGED pstate BY <1>1, <2>1, Zenon DEF Hang, table
  <2>2. CASE Elect /\ UNCHANGED kid BY <1>1, <2>2, ElectLife, Zenon
  <2>3. CASE ProcAlloc BY <1>1, <2>0, <2>1, <2>3, Zenon DEF ProcAlloc
  <2>4. CASE ProcReady
    <3>1. pc[cpu] = "made" BY <2>4, Zenon DEF ProcReady, At
    <3>2. cpu \in Exec BY <1>1, <3>1, OnCpu, Zenon
    <3>3. kid[cpu] \in Proc /\ pstate[kid[cpu]] = "READY" BY <1>1, <3>1, <3>2, Zenon DEF SInv, LifeInv
    <3> QED BY <1>1, <2>0, <2>1, <2>4, <3>3, Zenon DEF ProcReady, MakeReady
  <2>5. CASE ProcFree BY <1>1, <2>0, <2>1, <2>5, Zenon DEF ProcFree
  <2>6. CASE ProcExit BY <1>1, <2>0, <2>6, Zenon DEF ProcExit
  <2>7. CASE Yield \/ ExitYield BY <2>1, <2>2, <2>7, Zenon DEF Yield, ExitYield, YieldSelect, table
  <2>8. CASE ProcSwitch BY <2>1, <2>8, Zenon DEF ProcSwitch, Switch, table
  <2>9. CASE ProcTick BY <2>1, <2>2, <2>9, Zenon DEF ProcTick, Tick, table
  <2>10. CASE UNCHANGED vars BY <2>1, <2>10, Zenon DEF vars, kernel, table
  <2> QED BY <1>1, <2>3, <2>4, <2>5, <2>6, <2>7, <2>8, <2>9, <2>10, Zenon DEF Next
<1>2. SInv /\ [Next]_vars =>
        [\A p \in Proc : pstate[p] = "ZOMBIE" => pstate'[p] \in {"ZOMBIE", "UNUSED"}]_vars
  BY <1>1, Zenon
<1> QED BY <1>2, SchedInvariance, PTL DEF Spec, ZombieStaysDead

-----------------------------------------------------------------------------
(* The mutex.                                                              *)

MutexLabels == {"lock", "test", "claim", "got", "wake"} \cup SleepLabels

\* Where an execution holds the guard.  It also holds it at "lock" when it
\* comes back from riv_waitq_sleep.
Inside == {"test", "claim", "got", "sleep", "sleep_unlock"}

GuardInv ==
    /\ guard \in Exec /\ cpu \in Proc /\ current \in Proc
    /\ \A p \in Proc : pc[p] \in Inside => guard = p
    /\ guard # Null => pc[guard] \in Inside \cup {"lock", "hung"}

\* What the holder of the guard knows about the owner stays true.
OwnerInv ==
    /\ owner \in Exec /\ holds \subseteq Proc
    /\ \A p \in Proc : pc[p] = "claim" => owner = Null
    /\ \A p \in Proc : pc[p] = "got" => owner = p
    /\ \A p \in Proc : pc[p] = "sleep" => owner # Null
    /\ MutualExclusion

\* While riv_sched.lock has not leaked, a queued process is inside
\* riv_waitq_sleep and does not run on past its yield.
QueueInv ==
    /\ \A e \in Exec : ret[e] \in {"user", "sleep_relock"}
    /\ ~schedLock => \A p \in Members(waitq["waiters"]) :
         \/ pc[p] \in {"sleep_unlock", "sleep_yield"}
         \/ pc[p] = "switch" /\ ret[p] = "sleep_relock"
         \/ pc[p] = "sleep_relock" /\ p # cpu

MInv == /\ KInv(MutexLabels) /\ GuardInv /\ OwnerInv /\ QueueInv
        /\ StoppedByHolder /\ NoLostWakeup

\* The mutex's own labels are apart from those of the switch and the stop.
LEMMA LabelFacts == MutexLabels \cap {"switch", "hung"} = {} /\ Inside \subseteq MutexLabels
  BY Zenon DEF MutexLabels, Inside, SleepLabels

\* riv_mutex_init on a booted kernel establishes the invariant.
LEMMA MutexStarts == ASSUME MutexInit PROVE MInv
<1>1. BootedInit /\ guard = Null /\ owner = Null /\ holds = {} BY Zenon DEF MutexInit
<1>2. KInv(MutexLabels) BY <1>1, BootedInv, Zenon
<1>3. 1 \in Proc /\ 1 \in Exec /\ Null \in Exec BY ProcNotNull, KernelAssumption DEF Proc, Exec
<1>4. /\ cpu = 1 /\ current = 1 /\ \A e \in Exec : pc[e] = "user" /\ ret[e] = "user"
      /\ waitq["waiters"] = <<>>
  BY <1>1, MutexAssumption, Zenon DEF BootedInit
<1>5. GuardInv BY <1>1, <1>3, <1>4, ProcNotNull, Zenon DEF GuardInv, Inside
<1>6. OwnerInv BY <1>1, <1>3, <1>4, ProcNotNull, Zenon DEF OwnerInv, MutualExclusion
<1>7. Members(waitq["waiters"]) = {} BY <1>4 DEF Members
<1>8. QueueInv BY <1>4, <1>7, Zenon DEF QueueInv
<1>9. StoppedByHolder BY <1>3, <1>4, Zenon DEF StoppedByHolder, At
<1>10. NoLostWakeup BY <1>4, Zenon DEF NoLostWakeup
<1> QED BY <1>2, <1>5, <1>6, <1>8, <1>9, <1>10, Zenon DEF MInv

\* Whoever runs code of the mutex or of its own is `current`.
LEMMA MutexOnCpu ==
    ASSUME MInv, pc[cpu] \notin {"switch", "hung"}
    PROVE  /\ cpu = current /\ cpu \in Proc /\ cpu \in Exec /\ cpu # Null
           /\ \A e \in Exec : pc[e] \notin {"switch", "hung"}
  BY ProcNotNull, Zenon DEF MInv, KInv, MachineInv, GuardInv

-----------------------------------------------------------------------------
(* The kernel's part.                                                      *)

\* The CPU stops: behind a leaked riv_sched.lock, or at "user" on the guard.
LEMMA MutexHangStep ==
    ASSUME MInv, Hang, pc[cpu] \notin {"switch", "hung"}, UNCHANGED <<guard, owner>>,
           holds' \subseteq holds, schedLock \/ (guard # Null /\ pc[cpu] = "user")
    PROVE  MInv'
<1>1. /\ KInv(MutexLabels)' /\ cpu \in Exec /\ pc'[cpu] = "hung" /\ \A e \in Exec : e # cpu => pc'[e] = pc[e]
      /\ UNCHANGED <<pstate, runq, current, waitq, schedLock, cpu, ret>>
  BY HangInv, Zenon DEF MInv
<1>2. /\ cpu = current /\ cpu \in Proc /\ cpu \in Exec /\ cpu # Null
      /\ \A e \in Exec : pc[e] \notin {"switch", "hung"}
  BY MutexOnCpu, Zenon
<1>3. GuardInv' BY <1>1, <1>2, ProcNotNull, Zenon DEF MInv, GuardInv, Inside
<1>4. OwnerInv' BY <1>1, <1>2, ProcNotNull, Zenon DEF MInv, OwnerInv, MutualExclusion
<1>5. QueueInv'
  <2>1. ~schedLock => cpu \notin Members(waitq["waiters"]) BY <1>2, Zenon DEF MInv, QueueInv
  <2>2. Members(waitq["waiters"]) \subseteq Proc BY MutexAssumption, MembersAreProc, Zenon DEF MInv, KInv, TableInv
  <2> QED BY <1>1, <1>2, <2>1, <2>2, ProcNotNull, Zenon DEF MInv, QueueInv
<1>6. StoppedByHolder'
  <2>1. CASE schedLock BY <1>1, <2>1, Zenon DEF StoppedByHolder
  <2>2. CASE guard # Null /\ pc[cpu] = "user"
    <3>1. guard \in Exec /\ guard # cpu /\ pc[guard] \in Inside \cup {"lock"}
      BY <1>2, <2>2, Zenon DEF MInv, GuardInv, Inside
    <3> QED BY <1>1, <3>1, Zenon DEF StoppedByHolder, Inside
  <2> QED BY <2>1, <2>2, Zenon
<1>7. NoLostWakeup' BY <1>1, Zenon DEF NoLostWakeup, At
<1> QED BY <1>1, <1>3, <1>4, <1>5, <1>6, <1>7, Zenon DEF MInv

\* An execution that will see to the waiters, as NoLostWakeup has it.
OnTheWay(e) == pc[e] = "wake" \/ Returning(e, "waiters", {"lock", "test", "claim"})

\* The caller, which is the current process, goes to l and nobody else moves.
Moves(l) == /\ cpu = current /\ cpu \in Proc /\ cpu \in Exec /\ cpu # Null
            /\ pc[cpu] # "hung" /\ pc'[cpu] = l
            /\ \A e \in Exec : e # cpu => pc'[e] = pc[e]
            /\ UNCHANGED <<pstate, runq, current, waitq, schedLock, cpu, ret>>

\* A step of the mutex's own code that does not touch the kernel.
LEMMA LocalStep ==
    ASSUME MInv, pc[cpu] \in (MutexLabels \cup {"user"}) \ {"sleep_yield"},
           NEW l \in MutexLabels \cup {"user"}, Local(l),
           pc[cpu] = "sleep_unlock" => l = "sleep_yield"
    PROVE  KInv(MutexLabels)' /\ QueueInv' /\ StoppedByHolder' /\ Moves(l)
<1>1. l \notin {"switch", "hung"} /\ pc[cpu] \notin {"switch", "hung"} BY LabelFacts, Zenon
<1>2. /\ KInv(MutexLabels)' /\ pc'[cpu] = l /\ \A e \in Exec : e # cpu => pc'[e] = pc[e]
      /\ UNCHANGED <<pstate, runq, current, waitq, schedLock, cpu, ret>>
  BY <1>1, LocalInv, Zenon DEF MInv
<1>3. /\ cpu = current /\ cpu \in Proc /\ cpu \in Exec /\ cpu # Null
      /\ \A e \in Exec : pc[e] \notin {"switch", "hung"}
  BY <1>1, MutexOnCpu, Zenon
<1>4. StoppedByHolder' BY <1>1, <1>2, Zenon DEF StoppedByHolder, At
<1>5. QueueInv'
  <2>1. Members(waitq["waiters"]) \subseteq Exec
    BY MutexAssumption, MembersAreProc, ProcNotNull, Zenon DEF MInv, KInv, TableInv
  <2>2. ~schedLock /\ cpu \in Members(waitq["waiters"]) => pc[cpu] = "sleep_unlock"
    BY <1>1, Zenon DEF MInv, QueueInv
  <2> QED BY <1>2, <2>1, <2>2, Zenon DEF MInv, QueueInv
<1> QED BY <1>2, <1>3, <1>4, <1>5, Zenon DEF Moves

\* If such a step leaves the mutex free and the caller stays on the way if it
\* was, or is going to wake, then no wake-up is lost.
LEMMA LocalWay ==
    ASSUME MInv, NEW l, Moves(l),
           \/ owner' # Null
           \/ l = "wake"
           \/ owner = Null /\ (OnTheWay(cpu) => OnTheWay(cpu)')
    PROVE  NoLostWakeup'
<1> SUFFICES ASSUME owner' = Null, waitq["waiters"] # <<>>
             PROVE  \E e \in Proc : OnTheWay(e)'
  BY Zenon DEF NoLostWakeup, OnTheWay, Moves
<1>1. CASE l = "wake" BY <1>1, Zenon DEF OnTheWay, Moves
<1>2. CASE owner = Null /\ (OnTheWay(cpu) => OnTheWay(cpu)')
  <2>1. PICK e \in Proc : OnTheWay(e) BY <1>2, SMTT(30) DEF MInv, NoLostWakeup, OnTheWay, At, Moves
  <2>2. CASE e = cpu BY <1>2, <2>1, <2>2, SMTT(30) DEF OnTheWay, Returning, Moves
  <2>3. CASE e # cpu BY <2>1, <2>3, ProcNotNull, Zenon DEF OnTheWay, Returning, Moves
  <2> QED BY <2>2, <2>3, Zenon
<1> QED BY <1>1, <1>2, Zenon

-----------------------------------------------------------------------------
(* One lemma per action.                                                   *)

\* Entering riv_mutex_lock touches nothing.
LEMMA LockCallInv == ASSUME MInv, LockCall PROVE MInv'
<1>1. pc[cpu] = "user" /\ Local("lock") /\ UNCHANGED <<guard, owner, holds>>
  BY Zenon DEF LockCall, At
<1>2. KInv(MutexLabels)' /\ QueueInv' /\ StoppedByHolder' /\ Moves("lock")
  BY <1>1, LocalStep, Zenon DEF MutexLabels
<1>3. GuardInv' BY <1>1, <1>2, ProcNotNull, SMTT(30) DEF MInv, GuardInv, Inside, Moves
<1>4. OwnerInv' BY <1>1, <1>2, ProcNotNull, SMTT(30) DEF MInv, GuardInv, OwnerInv, MutualExclusion, Inside, Moves
<1>5. owner' = Null => owner = Null /\ (OnTheWay(cpu) => OnTheWay(cpu)') BY <1>1, <1>2, Zenon DEF OnTheWay, Returning, Moves
<1>6. NoLostWakeup' BY <1>1, <1>2, <1>5, LocalWay, Zenon
<1> QED BY <1>2, <1>3, <1>4, <1>6, Zenon DEF MInv

\* riv_mutex_lock takes a free guard: nobody else is in the guarded code.
LEMMA LockSpinInv == ASSUME MInv, LockSpin PROVE MInv'
<1>1. pc[cpu] = "lock" /\ guard = Null /\ guard' = cpu /\ Local("test") /\ UNCHANGED <<owner, holds>>
  BY Zenon DEF LockSpin, SpinLock, At
<1>2. KInv(MutexLabels)' /\ QueueInv' /\ StoppedByHolder' /\ Moves("test")
  BY <1>1, LocalStep, Zenon DEF MutexLabels
<1>3. GuardInv' BY <1>1, <1>2, ProcNotNull, SMTT(30) DEF MInv, GuardInv, Inside, Moves
<1>4. OwnerInv' BY <1>1, <1>2, ProcNotNull, SMTT(30) DEF MInv, GuardInv, OwnerInv, MutualExclusion, Inside, Moves
<1>5. owner' = Null => owner = Null /\ (OnTheWay(cpu) => OnTheWay(cpu)') BY <1>1, <1>2, Zenon DEF OnTheWay, Returning, Moves
<1>6. NoLostWakeup' BY <1>1, <1>2, <1>5, LocalWay, Zenon
<1> QED BY <1>2, <1>3, <1>4, <1>6, Zenon DEF MInv

\* The test of `owner` leaves the tester with what it has seen.
LEMMA LockTestInv == ASSUME MInv, LockTest PROVE MInv'
<1>1. pc[cpu] = "test" /\ Local(IF owner = Null THEN "claim" ELSE "sleep") /\ UNCHANGED <<guard, owner, holds>>
  BY Zenon DEF LockTest, At
<1>2. KInv(MutexLabels)' /\ QueueInv' /\ StoppedByHolder' /\ Moves(IF owner = Null THEN "claim" ELSE "sleep")
  BY <1>1, LocalStep, SMTT(30) DEF MutexLabels, SleepLabels
<1>3. GuardInv' BY <1>1, <1>2, ProcNotNull, SMTT(30) DEF MInv, GuardInv, Inside, Moves
<1>4. OwnerInv' BY <1>1, <1>2, ProcNotNull, SMTT(30) DEF MInv, GuardInv, OwnerInv, MutualExclusion, Inside, Moves
<1>5. owner' = Null => owner = Null /\ (OnTheWay(cpu) => OnTheWay(cpu)') BY <1>1, <1>2, Zenon DEF OnTheWay, Returning, Moves
<1>6. NoLostWakeup' BY <1>1, <1>2, <1>5, LocalWay, Zenon
<1> QED BY <1>2, <1>3, <1>4, <1>6, Zenon DEF MInv

\* The claim finds the mutex still free, as tested: the guard is held between.
LEMMA LockClaimInv == ASSUME MInv, LockClaim PROVE MInv'
<1>1. pc[cpu] = "claim" /\ owner' = current /\ Local("got") /\ UNCHANGED <<guard, holds>>
  BY Zenon DEF LockClaim, At
<1>2. KInv(MutexLabels)' /\ QueueInv' /\ StoppedByHolder' /\ Moves("got")
  BY <1>1, LocalStep, Zenon DEF MutexLabels
<1>3. GuardInv' BY <1>1, <1>2, ProcNotNull, Zenon DEF MInv, GuardInv, Inside, Moves
<1>4. OwnerInv' BY <1>1, <1>2, ProcNotNull, SMTT(30) DEF MInv, GuardInv, OwnerInv, MutualExclusion, Inside, Moves
<1>5. owner' # Null BY <1>1, <1>2, Zenon DEF Moves
<1>6. NoLostWakeup' BY <1>1, <1>2, <1>5, LocalWay, Zenon
<1> QED BY <1>2, <1>3, <1>4, <1>6, Zenon DEF MInv

\* riv_mutex_lock returns as the owner and releases the guard.
LEMMA LockReturnInv == ASSUME MInv, LockReturn PROVE MInv'
<1>1. pc[cpu] = "got" /\ guard' = Null /\ Local("user") /\ holds' = holds \cup {cpu} /\ UNCHANGED owner
  BY Zenon DEF LockReturn, SpinUnlock, At
<1>2. KInv(MutexLabels)' /\ QueueInv' /\ StoppedByHolder' /\ Moves("user")
  BY <1>1, LocalStep, Zenon DEF MutexLabels
<1>3. GuardInv' BY <1>1, <1>2, ProcNotNull, SMTT(30) DEF MInv, GuardInv, Inside, Moves
<1>4. OwnerInv' BY <1>1, <1>2, ProcNotNull, SMTT(30) DEF MInv, GuardInv, OwnerInv, MutualExclusion, Inside, Moves
<1>5. owner' # Null BY <1>1, <1>2, Zenon DEF MInv, OwnerInv, Moves
<1>6. NoLostWakeup' BY <1>1, <1>2, <1>5, LocalWay, Zenon
<1> QED BY <1>2, <1>3, <1>4, <1>6, Zenon DEF MInv

\* riv_waitq_sleep releases the guard; the sleeper is queued by now.
LEMMA SleepUnlockInv ==
    ASSUME MInv, SleepUnlock, UNCHANGED <<owner, holds>>
    PROVE  MInv'
<1>1. pc[cpu] = "sleep_unlock" /\ guard' = Null /\ Local("sleep_yield") /\ UNCHANGED <<owner, holds>>
  BY Zenon DEF SleepUnlock, SpinUnlock, At
<1>2. KInv(MutexLabels)' /\ QueueInv' /\ StoppedByHolder' /\ Moves("sleep_yield")
  BY <1>1, LocalStep, Zenon DEF MutexLabels, SleepLabels
<1>3. GuardInv' BY <1>1, <1>2, ProcNotNull, SMTT(30) DEF MInv, GuardInv, Inside, Moves
<1>4. OwnerInv' BY <1>1, <1>2, ProcNotNull, SMTT(30) DEF MInv, GuardInv, OwnerInv, MutualExclusion, Inside, Moves
<1>5. owner' = Null => owner = Null /\ (OnTheWay(cpu) => OnTheWay(cpu)') BY <1>1, <1>2, Zenon DEF OnTheWay, Returning, Moves
<1>6. NoLostWakeup' BY <1>1, <1>2, <1>5, LocalWay, Zenon
<1> QED BY <1>2, <1>3, <1>4, <1>6, Zenon DEF MInv

\* riv_waitq_sleep returns with the guard held.
LEMMA SleepRelockInv ==
    ASSUME MInv, SleepRelock("lock"), UNCHANGED <<owner, holds>>
    PROVE  MInv'
<1>1. pc[cpu] = "sleep_relock" /\ guard = Null /\ guard' = cpu /\ Local("lock") /\ UNCHANGED <<owner, holds>>
  BY Zenon DEF SleepRelock, SpinLock, At
<1>2. KInv(MutexLabels)' /\ QueueInv' /\ StoppedByHolder' /\ Moves("lock")
  BY <1>1, LocalStep, Zenon DEF MutexLabels, SleepLabels
<1>3. GuardInv' BY <1>1, <1>2, ProcNotNull, Zenon DEF MInv, GuardInv, Inside, Moves
<1>4. OwnerInv' BY <1>1, <1>2, ProcNotNull, SMTT(30) DEF MInv, GuardInv, OwnerInv, MutualExclusion, Inside, Moves
<1>5. owner' = Null => owner = Null /\ (OnTheWay(cpu) => OnTheWay(cpu)') BY <1>1, <1>2, Zenon DEF OnTheWay, Returning, Moves
<1>6. NoLostWakeup' BY <1>1, <1>2, <1>5, LocalWay, Zenon
<1> QED BY <1>2, <1>3, <1>4, <1>6, Zenon DEF MInv

\* riv_mutex_trylock claims a free mutex in one spin_locked block.
LEMMA TryLockInv == ASSUME MInv, TryLock PROVE MInv'
<1>0. pc[cpu] = "user" BY Zenon DEF TryLock, At
<1>1. CASE GuardHang /\ UNCHANGED <<owner, holds>>
  BY <1>0, <1>1, MutexHangStep, Zenon DEF GuardHang
<1>2. CASE /\ guard = Null /\ owner = Null
           /\ owner' = current /\ holds' = holds \cup {cpu}
           /\ Local("user") /\ UNCHANGED guard
  <2>1. KInv(MutexLabels)' /\ QueueInv' /\ StoppedByHolder' /\ Moves("user")
    BY <1>0, <1>2, LocalStep, Zenon DEF MutexLabels
  <2>2. GuardInv' BY <1>2, <2>1, ProcNotNull, SMTT(30) DEF MInv, GuardInv, Inside, Moves
  <2>3. OwnerInv' BY <1>2, <2>1, ProcNotNull, SMTT(30) DEF MInv, GuardInv, OwnerInv, MutualExclusion, Inside, Moves
  <2>4. owner' # Null BY <1>2, <2>1, Zenon DEF Moves
  <2>5. NoLostWakeup' BY <2>1, <2>4, LocalWay, Zenon
  <2> QED BY <2>1, <2>2, <2>3, <2>5, Zenon DEF MInv
<1> QED BY <1>1, <1>2, Zenon DEF TryLock

\* riv_mutex_unlock frees the mutex, and has its wake-up still to come.
LEMMA UnlockInv == ASSUME MInv, Unlock PROVE MInv'
<1>0. pc[cpu] = "user" /\ cpu \in holds /\ holds' = holds \ {cpu} BY Zenon DEF Unlock, At
<1>1. CASE GuardHang /\ UNCHANGED owner
  BY <1>0, <1>1, MutexHangStep, Zenon DEF GuardHang
<1>2. CASE guard = Null /\ owner' = Null /\ Local("wake") /\ UNCHANGED guard
  <2>1. KInv(MutexLabels)' /\ QueueInv' /\ StoppedByHolder' /\ Moves("wake")
    BY <1>0, <1>2, LocalStep, Zenon DEF MutexLabels
  <2>2. GuardInv' BY <1>2, <2>1, ProcNotNull, SMTT(30) DEF MInv, GuardInv, Inside, Moves
  <2>3. OwnerInv' BY <1>0, <1>2, <2>1, ProcNotNull, Zenon DEF MInv, GuardInv, OwnerInv, MutualExclusion, Inside, Moves
  <2>4. NoLostWakeup' BY <2>1, LocalWay, SMTT(30)
  <2> QED BY <2>1, <2>2, <2>3, <2>4, Zenon DEF MInv
<1> QED BY <1>1, <1>2, Zenon DEF Unlock

\* The caller has found an owner, so that a free mutex is out of the question
\* until it has released the guard.
LEMMA SleepEnqueueInv ==
    ASSUME MInv, SleepEnqueue("waiters"), UNCHANGED <<owner, holds>>
    PROVE  MInv'
<1>1. /\ pc[cpu] = "sleep" /\ WaitqEnqueue("waiters") /\ pc' = [pc EXCEPT ![cpu] = "sleep_unlock"]
      /\ UNCHANGED <<schedLock, irq, cpu, ctx, flags, ret, picked, guard, owner, holds>>
  BY Zenon DEF SleepEnqueue, At, Goto, machine
<1>2. /\ cpu = current /\ cpu \in Proc /\ cpu \in Exec /\ cpu # Null
      /\ \A e \in Exec : pc[e] \notin {"switch", "hung"}
  BY <1>1, MutexOnCpu, Zenon
<1>3. /\ TableInv'
      /\ Members(waitq'["waiters"]) = (Members(waitq["waiters"]) \ {current}) \cup {current}
  BY <1>1, <1>2, MutexAssumption, EnqueueTable, Zenon DEF MInv, KInv
<1>4. /\ pc' \in [Exec -> MutexLabels \cup {"user", "switch", "hung"}] /\ pc'[cpu] = "sleep_unlock"
      /\ \A e \in Exec : e # cpu => pc'[e] = pc[e]
  BY <1>1, <1>2, Zenon DEF MInv, KInv, MachineInv, MutexLabels, SleepLabels
<1>5. current' = current BY <1>1, SMTT(30) DEF WaitqEnqueue
<1>6. MachineInv(MutexLabels)' BY <1>1, <1>2, <1>4, <1>5, Zenon DEF MInv, KInv, MachineInv
<1>7. GuardInv' BY <1>1, <1>2, <1>4, <1>5, ProcNotNull, Zenon DEF MInv, GuardInv, Inside
<1>8. OwnerInv' BY <1>1, <1>2, <1>4, ProcNotNull, SMTT(30) DEF MInv, OwnerInv, MutualExclusion
<1>9. QueueInv'
  <2>1. Members(waitq["waiters"]) \subseteq Exec
    BY MutexAssumption, MembersAreProc, ProcNotNull, Zenon DEF MInv, KInv, TableInv
  <2> QED BY <1>1, <1>2, <1>3, <1>4, <2>1, Zenon DEF MInv, QueueInv
<1>10. StoppedByHolder' BY <1>1, <1>4, Zenon DEF StoppedByHolder, At
<1>11. NoLostWakeup'
  <2>1. owner' # Null BY <1>1, <1>2, Zenon DEF MInv, OwnerInv
  <2> QED BY <2>1, Zenon DEF NoLostWakeup
<1> QED BY <1>3, <1>6, <1>7, <1>8, <1>9, <1>10, <1>11, Zenon DEF MInv, KInv

\* riv_proc_yield from the caller's own code or from riv_waitq_sleep.
LEMMA YieldStep ==
    ASSUME MInv, UNCHANGED <<guard, owner, holds>>,
           NEW l, YieldSelect(l),
           \/ pc[cpu] = "user" /\ l = "user"
           \/ pc[cpu] = "sleep_yield" /\ l = "sleep_relock"
    PROVE  MInv'
<1>0. l \in MutexLabels \cup {"user"} /\ l \notin {"switch", "hung"} /\ pc[cpu] \notin {"switch", "hung"}
  BY SMTT(30) DEF MutexLabels, SleepLabels
<1>1. /\ KInv(MutexLabels)'
      /\ cpu' = cpu /\ waitq' = waitq /\ (schedLock => schedLock')
      /\ \A e \in Exec : e # cpu => pc'[e] = pc[e] /\ ret'[e] = ret[e]
      /\ ret'[cpu] \in {ret[cpu], l}
      /\ \/ pc'[cpu] = l
         \/ pc'[cpu] = "switch" /\ ret'[cpu] = l /\ current' # current
         \/ pc'[cpu] = "hung" /\ schedLock'
      /\ UNCHANGED table \/ Elect
      /\ pc'[cpu] = l => (schedLock' \/ pstate'[cpu] = "RUNNING")
  BY <1>0, YieldInv, Zenon DEF MInv
<1>2. /\ cpu = current /\ cpu \in Proc /\ cpu \in Exec /\ cpu # Null
      /\ \A e \in Exec : pc[e] \notin {"switch", "hung"}
  BY <1>0, MutexOnCpu, Zenon
<1>3. current' \in Proc
  <2>1. CASE UNCHANGED table BY <1>2, <2>1, Zenon DEF table
  <2>2. CASE Elect
    <3>1. current' \in Members(runq) BY <2>2, ElectTable, SMTT(30) DEF MInv, KInv
    <3> QED BY <3>1, MembersAreProc, Zenon DEF MInv, KInv, TableInv
  <2> QED BY <1>1, <2>1, <2>2, Zenon
<1>4. GuardInv'
  <2>1. guard # cpu BY <1>2, SMTT(30) DEF MInv, GuardInv, Inside
  <2> QED BY <1>1, <1>2, <1>3, <2>1, ProcNotNull, Zenon DEF MInv, GuardInv, Inside
<1>5. OwnerInv' BY <1>1, <1>2, ProcNotNull, SMTT(30) DEF MInv, OwnerInv, MutualExclusion
<1>6. QueueInv'
  <2>1. Members(waitq["waiters"]) \subseteq Exec
    BY MutexAssumption, MembersAreProc, ProcNotNull, SMTT(30) DEF MInv, KInv, TableInv
  <2>2. \A p \in Members(waitq'["waiters"]) : pstate'[p] = "SLEEPING"
    BY <1>1, MutexAssumption, SMTT(30) DEF KInv, TableInv, LinkedOnce, Members
  <2>3. ~schedLock' /\ cpu \in Members(waitq'["waiters"]) => pc'[cpu] = "switch" /\ ret'[cpu] = "sleep_relock"
    BY <1>1, <1>2, <2>2, SMTT(30) DEF MInv, QueueInv
  <2>4. \A e \in Exec : ret'[e] \in {"user", "sleep_relock"} BY <1>1, <1>2, SMTT(30) DEF MInv, QueueInv
  <2> QED BY <1>1, <1>2, <2>1, <2>3, <2>4 DEF MInv, QueueInv
<1>7. StoppedByHolder' BY <1>0, <1>1, Zenon DEF StoppedByHolder, At
<1>8. NoLostWakeup'
  <2> SUFFICES ASSUME owner = Null, waitq["waiters"] # <<>>, pc'[cpu] # "hung"
               PROVE  \E e \in Proc : OnTheWay(e)'
    BY <1>1, SMTT(30) DEF NoLostWakeup, OnTheWay, At
  <2>1. PICK e \in Proc : OnTheWay(e) BY <1>2, SMTT(30) DEF MInv, NoLostWakeup, OnTheWay, At
  <2>2. OnTheWay(e)' BY <1>1, <1>2, <2>1, ProcNotNull, ZenonT(40) DEF OnTheWay, Returning
  <2> QED BY <2>2, SMTT(30)
<1> QED BY <1>1, <1>4, <1>5, <1>6, <1>7, <1>8, Zenon DEF MInv

\* The process that is woken is inside riv_waitq_sleep, hence on its way back.
LEMMA UnlockWakeInv == ASSUME MInv, UnlockWake PROVE MInv'
<1>1. pc[cpu] = "wake" /\ WakeOne("waiters", "user") /\ UNCHANGED <<guard, owner, holds>>
  BY Zenon DEF UnlockWake, At
<1>2. /\ KInv(MutexLabels)' /\ UNCHANGED <<schedLock, cpu, ret>>
      /\ \/ pc' = [pc EXCEPT ![cpu] = "user"] /\ waitq["waiters"] = <<>> /\ waitq' = waitq
         \/ pc' = [pc EXCEPT ![cpu] = "user"] /\ waitq["waiters"] # <<>> /\ Wake("waiters") /\ ~schedLock
         \/ schedLock /\ Hang
  BY <1>1, MutexAssumption, WakeOneInv, Zenon DEF MInv
<1>3. /\ cpu = current /\ cpu \in Proc /\ cpu \in Exec /\ cpu # Null
      /\ \A e \in Exec : pc[e] \notin {"switch", "hung"}
  BY <1>1, MutexOnCpu, Zenon
<1>4. CASE schedLock /\ Hang BY <1>1, <1>4, MutexHangStep, Zenon
<1>5. CASE pc' = [pc EXCEPT ![cpu] = "user"] /\ (waitq' = waitq \/ Wake("waiters"))
  <2>1. pc'[cpu] = "user" /\ \A e \in Exec : e # cpu => pc'[e] = pc[e]
    BY <1>3, <1>5, SMTT(30) DEF MInv, KInv, MachineInv
  <2>2. current' = current
    BY <1>1, <1>2, <1>3, <2>1, SMTT(30) DEF KInv, MachineInv
  <2>3. GuardInv' BY <1>1, <1>2, <1>3, <2>1, <2>2, ProcNotNull, SMTT(30) DEF MInv, GuardInv, Inside
  <2>4. OwnerInv' BY <1>1, <1>2, <1>3, <2>1, ProcNotNull, SMTT(30) DEF MInv, OwnerInv, MutualExclusion
  <2>5. Members(waitq'["waiters"]) \subseteq Members(waitq["waiters"]) /\ Members(waitq["waiters"]) \subseteq Exec
    <3>1. Members(waitq["waiters"]) \subseteq Exec
      BY MutexAssumption, MembersAreProc, ProcNotNull, Zenon DEF MInv, KInv, TableInv
    <3>2. CASE Wake("waiters") /\ waitq["waiters"] # <<>>
      BY <3>1, <3>2, MutexAssumption, WakeTable, SMTT(30) DEF MInv, KInv
    <3> QED BY <1>2, <1>5, <3>1, <3>2, <1>1, Zenon DEF Hang, table
  <2>6. QueueInv'
    <3>1. ~schedLock => cpu \notin Members(waitq["waiters"]) BY <1>1, Zenon DEF MInv, QueueInv
    <3> QED BY <1>2, <1>3, <2>1, <2>5, <3>1, Zenon DEF MInv, QueueInv
  <2>7. StoppedByHolder' BY <1>2, <2>1, Zenon DEF StoppedByHolder, At
  <2>8. CASE waitq["waiters"] = <<>> /\ waitq' = waitq
    <3>1. NoLostWakeup' BY <2>8, Zenon DEF NoLostWakeup
    <3> QED BY <1>2, <2>3, <2>4, <2>6, <2>7, <3>1, Zenon DEF MInv
  <2>9. CASE waitq["waiters"] # <<>> /\ Wake("waiters") /\ ~schedLock
    <3>1. PICK h \in Proc : h \in Members(waitq["waiters"]) /\ h \notin Members(waitq'["waiters"])
      <4>1. LET g == Head(waitq["waiters"])
            IN  g \in Proc /\ g \in Members(waitq["waiters"]) /\ g \notin Members(waitq'["waiters"])
        BY <2>9, MutexAssumption, WakeTable, Zenon DEF MInv, KInv
      <4> QED BY <4>1, Zenon
    <3>2. /\ h # cpu
          /\ \/ pc[h] \in {"sleep_unlock", "sleep_yield", "sleep_relock"}
             \/ pc[h] = "switch" /\ ret[h] = "sleep_relock"
      BY <1>1, <2>9, <3>1, SMTT(30) DEF MInv, QueueInv
    <3>3. Returning(h, "waiters", {"lock", "test", "claim"})'
      BY <1>2, <2>1, <3>1, <3>2, ProcNotNull, Zenon DEF Returning
    <3>4. NoLostWakeup' BY <3>1, <3>3, SMTT(30) DEF NoLostWakeup
    <3> QED BY <1>2, <2>3, <2>4, <2>6, <2>7, <3>4, Zenon DEF MInv
  <2> QED BY <1>2, <1>4, <2>8, <2>9, SMTT(30)
<1> QED BY <1>2, <1>4, <1>5, Zenon

\* The elected process is resumed: it was RUNNING, so it is in no wait queue.
LEMMA SwitchInvM ==
    ASSUME MInv, SwitchStep, UNCHANGED <<owner, holds>>
    PROVE  MInv'
<1>1. Switch /\ UNCHANGED <<guard, owner, holds>> BY Zenon DEF SwitchStep
<1>2. /\ KInv(MutexLabels)'
      /\ pc[cpu] = "switch" /\ pc' = [pc EXCEPT ![cpu] = ret[cpu]]
      /\ cpu' = current /\ cpu' # cpu /\ pstate[cpu'] = "RUNNING"
      /\ ret' = [ret EXCEPT ![cpu] = "user"] /\ UNCHANGED <<table, schedLock>>
  BY <1>1, LabelFacts, SwitchInv, Zenon DEF MInv
<1>3. UNCHANGED <<pstate, runq, current, waitq>> BY <1>2, SMTT(30) DEF table
<1>4. /\ cpu \in Proc /\ cpu \in Exec /\ ret[cpu] \in {"user", "sleep_relock"}
      /\ pc'[cpu] = ret[cpu] /\ \A e \in Exec : e # cpu => pc'[e] = pc[e] /\ ret'[e] = ret[e]
      /\ \A e \in Exec : e # cpu => pc[e] \notin {"switch", "hung"}
      /\ \A e \in Exec : ret'[e] \in {"user", "sleep_relock"}
      /\ cpu' \in Exec
  BY <1>2, <1>3, ProcNotNull DEF MInv, GuardInv, QueueInv, KInv, MachineInv
<1>5. GuardInv' BY <1>1, <1>2, <1>3, <1>4, ProcNotNull, SMTT(30) DEF MInv, GuardInv, Inside
<1>6. OwnerInv' BY <1>1, <1>4, ProcNotNull, SMTT(30) DEF MInv, OwnerInv, MutualExclusion
<1>7. QueueInv'
  <2>1. Members(waitq["waiters"]) \subseteq Exec /\ current \notin Members(waitq["waiters"])
    <3>1. \A p \in Members(waitq["waiters"]) : pstate[p] = "SLEEPING"
      BY MutexAssumption DEF MInv, KInv, TableInv, LinkedOnce, Members
    <3> QED BY <1>2, <3>1, MutexAssumption, MembersAreProc, ProcNotNull, SMTT(30) DEF MInv, KInv, TableInv
  <2> QED BY <1>2, <1>3, <1>4, <2>1 DEF MInv, QueueInv
<1>8. StoppedByHolder' BY <1>2, <1>4 DEF StoppedByHolder, At
<1>9. NoLostWakeup'
  <2> SUFFICES ASSUME owner = Null, waitq["waiters"] # <<>>
               PROVE  \E e \in Proc : OnTheWay(e)'
    BY <1>1, <1>3, SMTT(30) DEF NoLostWakeup, OnTheWay
  <2>1. PICK e \in Proc : OnTheWay(e) BY <1>2, SMTT(30) DEF MInv, NoLostWakeup, OnTheWay, At
  <2>2. OnTheWay(e)' BY <1>2, <1>3, <1>4, <2>1, ProcNotNull, Zenon DEF OnTheWay, Returning
  <2> QED BY <2>2, Zenon
<1> QED BY <1>2, <1>5, <1>6, <1>7, <1>8, <1>9, Zenon DEF MInv

\* A timer interrupt anywhere outside the switch keeps the invariant.
LEMMA TickInvM ==
    ASSUME MInv, Preempt # "anywhere", TickStep, UNCHANGED <<owner, holds>>
    PROVE  MInv'
<1>1. Tick /\ UNCHANGED <<guard, owner, holds>> BY Zenon DEF TickStep
<1>2. /\ KInv(MutexLabels)'
      /\ pc[cpu] \notin {"switch", "hung"} /\ ret' = ret
      /\ schedLock => schedLock'
      /\ \/ schedLock /\ Hang
         \/ pc' = pc /\ UNCHANGED <<table, machine>> /\ schedLock'
         \/ pc' = pc /\ Elect /\ cpu' = current' /\ pstate'[cpu'] = "RUNNING"
            /\ schedLock' = schedLock
  BY <1>1, TickInv, Zenon DEF MInv
<1>3. /\ cpu = current /\ cpu \in Proc /\ cpu \in Exec /\ cpu # Null
      /\ \A e \in Exec : pc[e] \notin {"switch", "hung"}
  BY <1>2, MutexOnCpu, Zenon
<1>4. CASE schedLock /\ Hang BY <1>1, <1>2, <1>4, MutexHangStep, Zenon
<1>5. CASE \/ pc' = pc /\ UNCHANGED <<table, machine>> /\ schedLock'
           \/ pc' = pc /\ Elect /\ cpu' = current' /\ pstate'[cpu'] = "RUNNING"
              /\ schedLock' = schedLock
  <2>1. pc' = pc /\ waitq' = waitq BY <1>5, Zenon DEF table, Elect
  <2>2. cpu' \in Proc /\ current' \in Proc /\ cpu' \in Exec
    <3>1. CASE UNCHANGED <<table, machine>> BY <1>3, <3>1, Zenon DEF table, machine
    <3>2. CASE Elect /\ cpu' = current'
      <4>1. current' \in Members(runq) BY <3>2, ElectTable, Zenon DEF MInv, KInv
      <4> QED BY <3>2, <4>1, MembersAreProc, ProcNotNull, SMTT(30) DEF MInv, KInv, TableInv
    <3> QED BY <1>5, <3>1, <3>2, Zenon
  <2>3. GuardInv' BY <1>1, <2>1, <2>2, Zenon DEF MInv, GuardInv
  <2>4. OwnerInv' BY <1>1, <2>1, Zenon DEF MInv, OwnerInv, MutualExclusion
  <2>5. QueueInv'
    <3>1. schedLock' \/ cpu' \notin Members(waitq'["waiters"])
      <4>1. \A p \in Members(waitq'["waiters"]) : pstate'[p] = "SLEEPING"
        BY <1>2, MutexAssumption DEF KInv, TableInv, LinkedOnce, Members
      <4> QED BY <1>5, <4>1, Zenon
    <3> QED BY <1>2, <2>1, <3>1, Zenon DEF MInv, QueueInv
  <2>6. StoppedByHolder' BY <1>3, <2>1, <2>2, Zenon DEF StoppedByHolder, At
  <2>7. NoLostWakeup'
    <3> SUFFICES ASSUME owner = Null, waitq["waiters"] # <<>>
                 PROVE  \E e \in Proc : OnTheWay(e)'
      BY <1>1, <2>1, SMTT(30) DEF NoLostWakeup, OnTheWay
    <3>1. PICK e \in Proc : OnTheWay(e) BY <1>2, Zenon DEF MInv, NoLostWakeup, OnTheWay, At
    <3>2. OnTheWay(e)' BY <1>2, <2>1, <3>1, Zenon DEF OnTheWay, Returning
    <3> QED BY <3>2, Zenon
  <2> QED BY <1>2, <2>3, <2>4, <2>5, <2>6, <2>7, Zenon DEF MInv
<1> QED BY <1>2, <1>4, <1>5, Zenon

-----------------------------------------------------------------------------
\* Every step keeps the invariant.
LEMMA MutexStep ==
    ASSUME MInv, Preempt # "anywhere", [MutexNext]_mutex_vars
    PROVE  MInv'
<1>1. CASE LockCall BY <1>1, LockCallInv, Zenon
<1>2. CASE LockSpin BY <1>2, LockSpinInv, Zenon
<1>3. CASE LockTest BY <1>3, LockTestInv, Zenon
<1>4. CASE LockClaim BY <1>4, LockClaimInv, Zenon
<1>5. CASE LockReturn BY <1>5, LockReturnInv, Zenon
<1>6. CASE LockSleep
  <2>1. UNCHANGED <<owner, holds>> BY <1>6, Zenon DEF LockSleep
  <2>2. CASE SleepYield BY <2>1, <2>2, YieldStep, Zenon DEF SleepYield, At
  <2> QED BY <1>6, <2>1, <2>2, SleepEnqueueInv, SleepUnlockInv, SleepRelockInv, Zenon DEF LockSleep
<1>7. CASE TryLock BY <1>7, TryLockInv, Zenon
<1>8. CASE Unlock BY <1>8, UnlockInv, Zenon
<1>9. CASE UnlockWake BY <1>9, UnlockWakeInv, Zenon
<1>10. CASE Background
  <2>1. UNCHANGED <<owner, holds>> BY <1>10, Zenon DEF Background
  <2>2. CASE UserYield BY <2>1, <2>2, YieldStep, Zenon DEF UserYield, At
  <2> QED BY <1>10, <2>1, <2>2, SwitchInvM, TickInvM, Zenon DEF Background
<1>11. CASE UNCHANGED mutex_vars
  <2>1. UNCHANGED <<pstate, runq, current, waitq, schedLock, irq, cpu, ctx, flags, pc, ret, picked, guard, owner, holds>>
    BY <1>11, SMTT(30) DEF mutex_vars, base, kernel, table, machine, control
  <2>2. TableInv' BY <2>1, SMTT(30) DEF MInv, KInv, TableInv, LinkedOnce, Members
  <2>3. MachineInv(MutexLabels)' BY <2>1, SMTT(30) DEF MInv, KInv, MachineInv
  <2>4. GuardInv' /\ OwnerInv' /\ StoppedByHolder'
    BY <2>1, SMTT(30) DEF MInv, GuardInv, OwnerInv, MutualExclusion, StoppedByHolder, At
  <2>5. QueueInv' BY <2>1, SMTT(30) DEF MInv, QueueInv, Members
  <2>6. NoLostWakeup' BY <2>1, Zenon DEF MInv, NoLostWakeup, Returning, At, Members
  <2> QED BY <2>2, <2>3, <2>4, <2>5, <2>6, SMTT(30) DEF MInv, KInv
<1> QED BY <1>1, <1>2, <1>3, <1>4, <1>5, <1>6, <1>7, <1>8, <1>9, <1>10, <1>11, SMTT(30) DEF MutexNext

\* MInv holds in every reachable state, for every number of processes and
\* users, if the timer does not fire between election and switch.
THEOREM MutexInvariance ==
    ASSUME Preempt # "anywhere"
    PROVE  MutexSpec => []MInv
  BY MutexStarts, MutexStep, PTL DEF MutexSpec

\* At most one process is past riv_mutex_lock or riv_mutex_trylock, and it is
\* the recorded owner.
THEOREM MutexExcludes ==
    ASSUME Preempt # "anywhere"
    PROVE  MutexSpec => []MutualExclusion
<1>1. MInv => MutualExclusion BY Zenon DEF MInv, OwnerInv
<1> QED BY <1>1, MutexInvariance, PTL

\* A free mutex with waiters has its riv_waitq_wake_one still to come, or a
\* woken process on its way back to the test.
THEOREM MutexWakes ==
    ASSUME Preempt # "anywhere"
    PROVE  MutexSpec => []NoLostWakeup
<1>1. MInv => NoLostWakeup BY Zenon DEF MInv
<1> QED BY <1>1, MutexInvariance, PTL

\* Only a preempted holder of the guard or a leaked riv_sched.lock stops the CPU.
THEOREM MutexStops ==
    ASSUME Preempt # "anywhere"
    PROVE  MutexSpec => []StoppedByHolder
<1>1. MInv => StoppedByHolder BY Zenon DEF MInv
<1> QED BY <1>1, MutexInvariance, PTL

\* The process table, the queues and the contexts stay consistent under lock,
\* trylock, unlock, sleep, wake-up and preemption.
THEOREM MutexIsConsistent ==
    ASSUME Preempt # "anywhere"
    PROVE  MutexSpec => []MutexConsistent
<1>1. ASSUME MInv PROVE MutexConsistent
  <2>1. KernelTypeOK(MutexLabels) /\ LinkedOnce /\ ContextOwned BY <1>1, KInvImplies, Zenon DEF MInv
  <2> QED BY <1>1, <2>1, Zenon DEF MInv, GuardInv, OwnerInv, MutexConsistent, MutexTypeOK, MutexLabels
<1> QED BY <1>1, MutexInvariance, PTL
=============================================================================
