---------------------------- MODULE KernelProofs ----------------------------
(***************************************************************************)
(* What every operation of Kernel preserves, for every number of processes *)
(* and every set of wait queues, provided that the timer does not fire     *)
(* between riv_sched.lock's release and riv_ctx_switch.                    *)
(***************************************************************************)
EXTENDS Kernel, TLAPS

\* The queues and the process table agree.
TableInv ==
    /\ pstate \in [Proc -> ProcState]
    /\ runq \in Seq(Proc)
    /\ current \in Exec
    /\ waitq \in [Queue -> Seq(Proc)]
    /\ LinkedOnce
    /\ \A p \in Proc : pstate[p] = "RUNNING" => p = current

\* Every context is its own process's; only the execution on the CPU can be
\* inside a switch or stopped, a switch under way goes to `current`, which has
\* been elected, and interrupts are off in the stopped CPU and in boot code.
MachineInv(Label) ==
    /\ cpu \in Exec /\ schedLock \in BOOLEAN /\ irq \in BOOLEAN
    /\ ctx \in [Proc -> Exec] /\ flags \in [Exec -> BOOLEAN]
    /\ pc \in [Exec -> Label \cup {"user", "switch", "hung"}]
    /\ ret \in [Exec -> Label \cup {"user"}]
    /\ picked \in [Exec -> Exec \X Exec]
    /\ \A p \in Proc : ctx[p] = p
    /\ \A e \in Exec : pc[e] \in {"switch", "hung"} => e = cpu
    /\ pc[cpu] \notin {"switch", "hung"} => cpu = current
    /\ pc[cpu] = "switch" => /\ current \in Proc \ {cpu}
                             /\ pstate[current] = "RUNNING"
                             /\ picked[cpu] = <<cpu, current>>
    /\ pc[cpu] = "hung" => ~irq
    /\ cpu = Null => ~irq

KInv(Label) == TableInv /\ MachineInv(Label)

\* Null, which stands for the boot code, is an execution and no process.
LEMMA ProcNotNull == Null \in Exec /\ Null \notin Proc /\ Proc \subseteq Exec
  BY KernelAssumption DEF Exec, Proc, Null

-----------------------------------------------------------------------------
(* Sequences without repetition.                                           *)

Distinct(s) == \A i, j \in DOMAIN s : s[i] = s[j] => i = j

\* riv_list_del on a queue without repetition takes out the one process.
LEMMA WithoutDistinct ==
    ASSUME NEW s \in Seq(Proc), Distinct(s), NEW p \in Proc
    PROVE  /\ Without(s, p) \in Seq(Proc)
           /\ Distinct(Without(s, p))
           /\ Members(Without(s, p)) = Members(s) \ {p}
<1>1. CASE p \notin Members(s)
  BY <1>1, Zenon DEF Without
<1>2. CASE p \in Members(s)
  <2> DEFINE k == CHOOSE i \in DOMAIN s : s[i] = p
             w == [i \in 1 .. Len(s) - 1 |-> IF i < k THEN s[i] ELSE s[i + 1]]
  <2>1. k \in 1 .. Len(s) /\ s[k] = p
    BY <1>2 DEF Members
  <2> HIDE DEF k
  <2>2. w \in Seq(Proc) /\ Len(w) = Len(s) - 1 /\ DOMAIN w = 1 .. Len(s) - 1
    <3>1. Len(s) - 1 \in Nat BY <2>1
    <3>2. w \in [1 .. Len(s) - 1 -> Proc] BY <2>1, <3>1
    <3> QED BY <3>1, <3>2
  <2>3. Distinct(w)
    <3> SUFFICES ASSUME NEW i \in 1 .. Len(s) - 1, NEW j \in 1 .. Len(s) - 1, w[i] = w[j]
                 PROVE  i = j
      BY <2>2, Zenon DEF Distinct
    <3> QED BY <2>1 DEF Distinct
  <2>4. Members(w) = Members(s) \ {p}
    <3>1. ASSUME NEW i \in 1 .. Len(s) - 1 PROVE w[i] \in Members(s) \ {p}
      BY <2>1 DEF Members, Distinct
    <3>2. ASSUME NEW i \in 1 .. Len(s), s[i] # p PROVE s[i] \in Members(w)
      <4>1. CASE i < k
        <5>1. i \in 1 .. Len(s) - 1 /\ w[i] = s[i] BY <2>1, <4>1
        <5> QED BY <5>1, <2>2, Zenon DEF Members
      <4>2. CASE i > k
        <5>1. i - 1 \in 1 .. Len(s) - 1 /\ w[i - 1] = s[i] BY <2>1, <4>2
        <5> QED BY <5>1, <2>2, Zenon DEF Members
      <4> QED BY <4>1, <4>2, <2>1, <3>2
    <3> QED BY <3>1, <3>2, <2>2 DEF Members
  <2>5. Without(s, p) = w BY <1>2, Zenon DEF Without, k
  <2> QED BY <2>2, <2>3, <2>4, <2>5, Zenon
<1> QED BY <1>1, <1>2, Zenon

\* A process that is not in a queue is added at its end.
LEMMA AppendDistinct ==
    ASSUME NEW s \in Seq(Proc), Distinct(s), NEW p \in Proc, p \notin Members(s)
    PROVE  /\ Append(s, p) \in Seq(Proc)
           /\ Distinct(Append(s, p))
           /\ Members(Append(s, p)) = Members(s) \cup {p}
<1> DEFINE a == Append(s, p)
<1>1. /\ a \in Seq(Proc) /\ Len(a) = Len(s) + 1 /\ DOMAIN a = 1 .. Len(s) + 1
      /\ \A i \in 1 .. Len(s) : a[i] = s[i]
      /\ a[Len(s) + 1] = p /\ Len(s) \in Nat /\ DOMAIN s = 1 .. Len(s)
  OBVIOUS
<1> HIDE DEF a
<1>2. \A i \in 1 .. Len(s) : s[i] # p
  BY <1>1, Zenon DEF Members
<1>3. Distinct(a)
  BY <1>1, <1>2 DEF Distinct
<1>4. Members(a) = Members(s) \cup {p}
  <2>1. ASSUME NEW i \in 1 .. Len(s) + 1 PROVE a[i] \in Members(s) \cup {p}
    <3>1. CASE i = Len(s) + 1 BY <1>1, <3>1, Zenon
    <3>2. CASE i \in 1 .. Len(s) BY <1>1, <3>2, Zenon DEF Members
    <3> QED BY <3>1, <3>2, <1>1
  <2>2. ASSUME NEW i \in 1 .. Len(s) PROVE s[i] \in Members(a)
    <3>1. i \in DOMAIN a /\ a[i] = s[i] BY <1>1
    <3> QED BY <3>1, Zenon DEF Members
  <2>3. p \in Members(a)
    <3>1. Len(s) + 1 \in DOMAIN a /\ a[Len(s) + 1] = p BY <1>1
    <3> QED BY <3>1, Zenon DEF Members
  <2> QED BY <1>1, <2>1, <2>2, <2>3 DEF Members
<1> QED BY <1>1, <1>3, <1>4, Zenon DEF a

\* The members of a queue are processes.
LEMMA MembersAreProc == ASSUME NEW s \in Seq(Proc) PROVE Members(s) \subseteq Proc
  BY DEF Members

-----------------------------------------------------------------------------
(* The table.                                                              *)

\* Electing the next process: the preempted one goes to the end of the run
\* queue, the first one leaves it and runs.
LEMMA ElectTable ==
    ASSUME TableInv, Elect
    PROVE  /\ TableInv'
           /\ current' \in Members(runq) /\ pstate[current'] = "READY"
           /\ pstate'[current'] = "RUNNING"
           /\ \A p \in Members(runq') : p \in Members(runq) \/ (p = current /\ pstate[p] = "RUNNING")
           /\ \A p \in Members(runq) : p = current' \/ p \in Members(runq')
           /\ \A p \in Proc : \/ pstate'[p] = pstate[p]
                              \/ p = current'
                              \/ /\ p = current /\ p \in Members(runq')
                                 /\ pstate[p] = "RUNNING" /\ pstate'[p] = "READY"
<1> DEFINE R == Requeued
<1>1. /\ R \in Seq(Proc) /\ R # <<>> /\ Distinct(R)
      /\ Head(R) = Head(runq) /\ Head(R) \in Members(runq)
      /\ \A i \in 1 .. Len(R) : \/ R[i] \in Members(runq) /\ pstate[R[i]] = "READY"
                                \/ R[i] = current /\ pstate[current] = "RUNNING" /\ current \in Proc
      /\ Members(runq) \subseteq Members(R)
      /\ current \in Proc /\ pstate[current] = "RUNNING" => current \in Members(R)
  <2>1. /\ runq \in Seq(Proc) /\ runq # <<>> /\ Len(runq) \in Nat /\ Len(runq) > 0
        /\ \A i \in 1 .. Len(runq) : runq[i] \in Members(runq) /\ pstate[runq[i]] = "READY"
        /\ \A i, j \in 1 .. Len(runq) : runq[i] = runq[j] => i = j
    BY DEF TableInv, LinkedOnce, Members, Elect
  <2>2. CASE current # Null /\ pstate[current] = "RUNNING"
    <3>1. current \in Proc BY <2>2, Zenon DEF TableInv, Exec
    <3>2. R = Append(runq, current) BY <2>2, Zenon DEF Requeued
    <3> HIDE DEF R
    <3>3. /\ R \in Seq(Proc) /\ Len(R) = Len(runq) + 1
          /\ \A i \in 1 .. Len(runq) : R[i] = runq[i]
          /\ R[Len(runq) + 1] = current
      BY <2>1, <3>1, <3>2
    <3>4. Distinct(R)
      <4> SUFFICES ASSUME NEW i \in 1 .. Len(R), NEW j \in 1 .. Len(R), R[i] = R[j], i < j
                   PROVE  FALSE
        BY <3>3 DEF Distinct
      <4> QED BY <2>1, <2>2, <3>3
    <3>5. Members(R) = Members(runq) \cup {current}
      <4>1. current \notin Members(runq) BY <2>1, <2>2 DEF Members
      <4> QED BY <2>1, <3>1, <3>2, <4>1, AppendDistinct DEF Distinct
    <3> QED BY <2>1, <2>2, <3>1, <3>3, <3>4, <3>5
  <2>3. CASE ~(current # Null /\ pstate[current] = "RUNNING")
    <3>1. R = runq BY <2>3, Zenon DEF Requeued
    <3>2. ~(current \in Proc /\ pstate[current] = "RUNNING")
      BY <2>3, KernelAssumption DEF Proc, Null
    <3> QED BY <2>1, <3>1, <3>2 DEF Distinct
  <2> QED BY <2>2, <2>3, Zenon
<1>2. /\ runq' = Tail(R) /\ current' = Head(R) /\ waitq' = waitq
      /\ pstate' = [p \in Proc |-> IF p = Head(R) THEN "RUNNING"
                                   ELSE IF p = current /\ pstate[p] = "RUNNING" THEN "READY"
                                   ELSE pstate[p]]
  BY Zenon DEF Elect
<1> HIDE DEF R
<1>3. /\ Tail(R) \in Seq(Proc) /\ Len(Tail(R)) = Len(R) - 1 /\ Len(R) > 0
      /\ \A i \in 1 .. Len(R) - 1 : Tail(R)[i] = R[i + 1]
      /\ Head(R) = R[1] /\ Head(R) \in Proc
  BY <1>1
<1>4. pstate[Head(R)] = "READY"
  BY <1>1, Zenon DEF TableInv, LinkedOnce
<1>5. /\ pstate' \in [Proc -> ProcState] /\ runq' \in Seq(Proc) /\ current' \in Exec
      /\ waitq' \in [Queue -> Seq(Proc)]
      /\ \A p \in Proc : pstate'[p] = "RUNNING" => p = current'
      /\ pstate'[current'] = "RUNNING"
  BY <1>2, <1>3, Zenon DEF TableInv, ProcState, Exec
<1>6. LinkedOnce'
  <2>1. \A i \in 1 .. Len(runq') : pstate'[runq'[i]] = "READY"
    <3> SUFFICES ASSUME NEW i \in 1 .. Len(R) - 1 PROVE pstate'[R[i + 1]] = "READY"
      BY <1>2, <1>3
    <3>1. R[i + 1] # Head(R) /\ R[i + 1] \in Proc BY <1>1, <1>3 DEF Distinct
    <3> QED BY <1>1, <1>2, <3>1
  <2>2. \A i, j \in DOMAIN runq' : runq'[i] = runq'[j] => i = j
    BY <1>1, <1>2, <1>3 DEF Distinct
  <2>3. \A q \in Queue : \A i \in DOMAIN waitq'[q] : pstate'[waitq'[q][i]] = "SLEEPING"
    <3> SUFFICES ASSUME NEW q \in Queue, NEW i \in DOMAIN waitq[q]
                 PROVE  pstate'[waitq[q][i]] = "SLEEPING"
      BY <1>2, Zenon
    <3>1. waitq[q][i] \in Proc /\ pstate[waitq[q][i]] = "SLEEPING"
      BY DEF TableInv, LinkedOnce
    <3> QED BY <1>2, <1>4, <3>1, Zenon
  <2>4. \A q, r \in Queue : \A i \in DOMAIN waitq'[q] : \A j \in DOMAIN waitq'[r] :
           waitq'[q][i] = waitq'[r][j] => q = r /\ i = j
    BY <1>2 DEF TableInv, LinkedOnce
  <2>5. \A p \in Members(runq') : pstate'[p] = "READY"
    BY <2>1, <1>5 DEF Members
  <2> QED BY <2>2, <2>3, <2>4, <2>5 DEF LinkedOnce
<1>7. \A p \in Members(runq') : p \in Members(runq) \/ (p = current /\ pstate[p] = "RUNNING")
  BY <1>1, <1>2, <1>3 DEF Members
<1>8. ASSUME NEW p \in Members(R), p # Head(R) PROVE p \in Members(runq')
  <2>1. PICK i \in 1 .. Len(R) : R[i] = p BY <1>1 DEF Members
  <2>2. i - 1 \in 1 .. Len(R) - 1 /\ Tail(R)[i - 1] = p BY <1>1, <1>3, <1>8, <2>1
  <2>3. i - 1 \in DOMAIN Tail(R) BY <1>3, <2>2
  <2> QED BY <1>2, <2>2, <2>3, Zenon DEF Members
<1>9. ASSUME NEW p \in Proc, pstate'[p] # pstate[p], p # current'
      PROVE  /\ p = current /\ p \in Members(runq')
             /\ pstate[p] = "RUNNING" /\ pstate'[p] = "READY"
  <2>1. p = current /\ pstate[p] = "RUNNING" /\ pstate'[p] = "READY" BY <1>2, <1>9, Zenon
  <2> QED BY <1>1, <1>2, <1>8, <1>9, <2>1, Zenon
<1> QED BY <1>1, <1>2, <1>4, <1>5, <1>6, <1>7, <1>8, <1>9, Zenon DEF TableInv

\* riv_waitq_sleep: the caller leaves whatever queue it is in for q.
LEMMA EnqueueTable ==
    ASSUME TableInv, current \in Proc, NEW q \in Queue, WaitqEnqueue(q)
    PROVE  /\ TableInv'
           /\ Members(waitq'[q]) = (Members(waitq[q]) \ {current}) \cup {current}
<1> DEFINE W(r) == Without(waitq[r], current)
<1>1. ASSUME NEW r \in Queue
      PROVE  /\ waitq[r] \in Seq(Proc) /\ Distinct(waitq[r])
             /\ W(r) \in Seq(Proc) /\ Distinct(W(r)) /\ Members(W(r)) = Members(waitq[r]) \ {current}
  <2>1. waitq[r] \in Seq(Proc) /\ Distinct(waitq[r]) BY DEF TableInv, LinkedOnce, Distinct
  <2> QED BY <2>1, WithoutDistinct, Zenon
<1>2. /\ Without(runq, current) \in Seq(Proc) /\ Distinct(Without(runq, current))
      /\ Members(Without(runq, current)) = Members(runq) \ {current}
  BY WithoutDistinct, Zenon DEF TableInv, LinkedOnce, Distinct
<1>3. /\ pstate' = [pstate EXCEPT ![current] = "SLEEPING"] /\ current' = current
      /\ runq' = Without(runq, current)
      /\ waitq' = [r \in Queue |-> IF r = q THEN Append(W(r), current) ELSE W(r)]
  BY Zenon DEF WaitqEnqueue
<1> HIDE DEF W
<1>4. ASSUME NEW r \in Queue
      PROVE  /\ waitq'[r] \in Seq(Proc) /\ Distinct(waitq'[r])
             /\ Members(waitq'[r]) = IF r = q THEN Members(W(r)) \cup {current} ELSE Members(W(r))
  <2>1. CASE r # q BY <1>1, <1>3, <2>1, Zenon
  <2>2. CASE r = q
    <3>1. waitq'[r] = Append(W(r), current) BY <1>3, <2>2, Zenon
    <3>2. current \notin Members(W(r)) BY <1>1, Zenon
    <3> QED BY <1>1, <2>2, <3>1, <3>2, AppendDistinct
  <2> QED BY <2>1, <2>2, Zenon
<1>5. /\ pstate' \in [Proc -> ProcState] /\ runq' \in Seq(Proc) /\ current' \in Exec
      /\ waitq' \in [Queue -> Seq(Proc)]
      /\ \A p \in Proc : pstate'[p] = "RUNNING" => p = current'
  <2>1. waitq' \in [Queue -> Seq(Proc)] BY <1>3, <1>4, Zenon
  <2> QED BY <1>2, <1>3, <2>1, Zenon DEF TableInv, ProcState
<1>6. LinkedOnce'
  <2>1. \A p \in Members(runq') : pstate'[p] = "READY"
    <3> SUFFICES ASSUME NEW p \in Members(runq) \ {current} PROVE pstate'[p] = "READY"
      BY <1>2, <1>3, Zenon
    <3>1. p \in Proc BY MembersAreProc, Zenon DEF TableInv
    <3> QED BY <1>3, <3>1, Zenon DEF TableInv, LinkedOnce
  <2>2. \A r \in Queue : \A p \in Members(waitq'[r]) : pstate'[p] = "SLEEPING"
    <3> SUFFICES ASSUME NEW r \in Queue, NEW p \in Members(waitq'[r])
                 PROVE  pstate'[p] = "SLEEPING"
      BY Zenon
    <3>1. p \in Proc BY <1>4 DEF Members
    <3>2. p = current \/ p \in Members(waitq[r]) BY <1>1, <1>4, Zenon
    <3>3. p # current => pstate[p] = "SLEEPING" BY <3>2 DEF TableInv, LinkedOnce, Members
    <3> QED BY <1>3, <3>1, <3>3, Zenon DEF TableInv
  <2>3. ASSUME NEW r \in Queue, NEW t \in Queue, NEW p \in Members(waitq'[r]), p \in Members(waitq'[t])
        PROVE  r = t
    <3>1. CASE p = current BY <1>1, <1>4, <2>3, <3>1, Zenon
    <3>2. CASE p # current
      <4>1. p \in Members(waitq[r]) /\ p \in Members(waitq[t]) BY <1>1, <1>4, <2>3, <3>2, Zenon
      <4> QED BY <4>1 DEF TableInv, LinkedOnce, Members
    <3> QED BY <3>1, <3>2, Zenon
  <2>4. \A r, t \in Queue : \A i \in DOMAIN waitq'[r] : \A j \in DOMAIN waitq'[t] :
           waitq'[r][i] = waitq'[t][j] => r = t /\ i = j
    <3> SUFFICES ASSUME NEW r \in Queue, NEW t \in Queue,
                        NEW i \in DOMAIN waitq'[r], NEW j \in DOMAIN waitq'[t],
                        waitq'[r][i] = waitq'[t][j]
                 PROVE  r = t /\ i = j
      BY Zenon
    <3>1. waitq'[r][i] \in Members(waitq'[r]) /\ waitq'[r][i] \in Members(waitq'[t])
      BY Zenon DEF Members
    <3>2. r = t BY <3>1, <2>3, Zenon
    <3> QED BY <3>2, <1>4, Zenon DEF Distinct
  <2>5. \A i, j \in DOMAIN runq' : runq'[i] = runq'[j] => i = j
    BY <1>2, <1>3, Zenon DEF Distinct
  <2>6. \A r \in Queue : \A i \in DOMAIN waitq'[r] : pstate'[waitq'[r][i]] = "SLEEPING"
    BY <2>2, Zenon DEF Members
  <2> QED BY <2>1, <2>4, <2>5, <2>6 DEF LinkedOnce
<1> QED BY <1>1, <1>4, <1>5, <1>6, Zenon DEF TableInv

\* riv_waitq_wake_one: the first waiter moves to the end of the run queue.
LEMMA WakeTable ==
    ASSUME TableInv, NEW q \in Queue, waitq[q] # <<>>, Wake(q)
    PROVE  /\ TableInv'
           /\ Head(waitq[q]) \in Proc /\ Head(waitq[q]) \in Members(waitq[q])
           /\ Members(waitq'[q]) = Members(waitq[q]) \ {Head(waitq[q])}
<1> DEFINE s == waitq[q]
           h == Head(s)
<1>1. /\ s \in Seq(Proc) /\ Distinct(s) /\ Len(s) \in Nat /\ Len(s) > 0
      /\ h = s[1] /\ h \in Proc /\ h \in Members(s)
  <2>1. s \in Seq(Proc) /\ s # <<>> BY Zenon DEF TableInv
  <2>2. Distinct(s) BY DEF TableInv, LinkedOnce, Distinct
  <2>3. /\ Len(s) \in Nat /\ Len(s) > 0 /\ 1 \in DOMAIN s /\ h = s[1] /\ h \in Proc
    BY <2>1
  <2> QED BY <2>1, <2>2, <2>3, Zenon DEF Members
<1>2. pstate[h] = "SLEEPING"
  BY <1>1 DEF TableInv, LinkedOnce
<1>3. /\ pstate' = [pstate EXCEPT ![h] = "READY"] /\ runq' = Append(runq, h)
      /\ waitq' = [waitq EXCEPT ![q] = Tail(s)] /\ current' = current
  BY Zenon DEF Wake, MakeReady
<1> HIDE DEF s, h
<1>4. h \notin Members(runq)
  BY <1>2, Zenon DEF TableInv, LinkedOnce
<1>5. runq' \in Seq(Proc) /\ Distinct(runq') /\ Members(runq') = Members(runq) \cup {h}
  <2>1. runq \in Seq(Proc) BY Zenon DEF TableInv
  <2>2. Distinct(runq) BY Zenon DEF TableInv, LinkedOnce, Distinct
  <2>3. h \in Proc BY <1>1, Zenon
  <2>4. runq' = Append(runq, h) BY <1>3, Zenon
  <2> QED BY <2>1, <2>2, <2>3, <2>4, <1>4, AppendDistinct, Zenon
<1>6. /\ Tail(s) \in Seq(Proc) /\ DOMAIN Tail(s) = 1 .. Len(s) - 1
      /\ \A i \in 1 .. Len(s) - 1 : Tail(s)[i] = s[i + 1]
  BY <1>1
<1>7. waitq \in [Queue -> Seq(Proc)] /\ waitq[q] = s
  BY Zenon DEF TableInv, s
<1>8. waitq' \in [Queue -> Seq(Proc)] /\ waitq'[q] = Tail(s) /\ \A r \in Queue \ {q} : waitq'[r] = waitq[r]
  BY <1>3, <1>6, <1>7, Zenon
<1>9. /\ pstate' \in [Proc -> ProcState] /\ current' \in Exec
      /\ \A p \in Proc : pstate'[p] = "RUNNING" => p = current'
  BY <1>1, <1>3, Zenon DEF TableInv, ProcState
<1>10. \A i \in 1 .. Len(s) - 1 : s[i + 1] \in Proc /\ s[i + 1] # h
  BY <1>1 DEF Distinct
<1>11. Members(Tail(s)) = Members(s) \ {h}
  <2>1. \A i \in 1 .. Len(s) - 1 : Tail(s)[i] \in Members(s) \ {h}
    BY <1>1, <1>6, <1>10 DEF Members
  <2>2. ASSUME NEW i \in 1 .. Len(s), s[i] # h PROVE s[i] \in Members(Tail(s))
    <3>1. i - 1 \in 1 .. Len(s) - 1 /\ Tail(s)[i - 1] = s[i] BY <1>1, <1>6, <2>2
    <3> QED BY <3>1, <1>6, Zenon DEF Members
  <2> QED BY <2>1, <2>2, <1>1, <1>6 DEF Members
<1>12. LinkedOnce'
  <2>1. \A p \in Members(runq') : pstate'[p] = "READY"
    <3> SUFFICES ASSUME NEW p \in Members(runq) \cup {h} PROVE pstate'[p] = "READY"
      BY <1>5, Zenon
    <3>1. p \in Proc BY <1>1, MembersAreProc, Zenon DEF TableInv
    <3>2. p # h => pstate[p] = "READY" BY Zenon DEF TableInv, LinkedOnce
    <3> QED BY <1>3, <3>1, <3>2, Zenon DEF TableInv
  <2>2. \A i, j \in DOMAIN runq' : runq'[i] = runq'[j] => i = j
    BY <1>5, Zenon DEF Distinct
  <2>3. \A r \in Queue : \A i \in DOMAIN waitq'[r] : pstate'[waitq'[r][i]] = "SLEEPING"
    <3> SUFFICES ASSUME NEW r \in Queue, NEW i \in DOMAIN waitq'[r]
                 PROVE  pstate'[waitq'[r][i]] = "SLEEPING"
      BY Zenon
    <3>1. waitq'[r][i] \in Proc BY <1>8
    <3>2. pstate[waitq'[r][i]] = "SLEEPING"
      <4>1. CASE r = q
        <5>1. i \in 1 .. Len(s) - 1 /\ waitq'[r][i] = s[i + 1] BY <1>6, <1>8, <4>1, Zenon
        <5>2. i + 1 \in DOMAIN s BY <1>1, <5>1
        <5> QED BY <5>1, <5>2, <1>7 DEF TableInv, LinkedOnce
      <4>2. CASE r # q BY <1>8, <4>2 DEF TableInv, LinkedOnce
      <4> QED BY <4>1, <4>2, Zenon
    <3>3. waitq'[r][i] # h
      <4>1. CASE r = q BY <1>6, <1>8, <1>10, <4>1, Zenon
      <4>2. CASE r # q
        <5>1. i \in DOMAIN waitq[r] /\ waitq'[r][i] = waitq[r][i] BY <1>8, <4>2, Zenon
        <5>2. 1 \in DOMAIN waitq[q] /\ waitq[q][1] = h BY <1>1, <1>7
        <5> QED BY <4>2, <5>1, <5>2 DEF TableInv, LinkedOnce
      <4> QED BY <4>1, <4>2, Zenon
    <3> QED BY <1>3, <3>1, <3>2, <3>3, Zenon DEF TableInv
  <2>4. \A r, t \in Queue : \A i \in DOMAIN waitq'[r] : \A j \in DOMAIN waitq'[t] :
           waitq'[r][i] = waitq'[t][j] => r = t /\ i = j
    <3> DEFINE d(r) == IF r = q THEN 1 ELSE 0
    <3>1. ASSUME NEW r \in Queue, NEW i \in DOMAIN waitq'[r]
          PROVE  i \in Nat /\ i + d(r) \in DOMAIN waitq[r] /\ waitq'[r][i] = waitq[r][i + d(r)]
      <4>1. CASE r = q BY <1>1, <1>6, <1>7, <1>8, <4>1
      <4>2. CASE r # q
        <5>1. i \in DOMAIN waitq[r] /\ waitq'[r] = waitq[r] /\ waitq[r] \in Seq(Proc) BY <1>7, <1>8, <4>2, Zenon
        <5>2. i \in Nat BY <5>1
        <5> QED BY <4>2, <5>1, <5>2
      <4> QED BY <4>1, <4>2, Zenon
    <3> HIDE DEF d
    <3> SUFFICES ASSUME NEW r \in Queue, NEW t \in Queue,
                        NEW i \in DOMAIN waitq'[r], NEW j \in DOMAIN waitq'[t],
                        waitq'[r][i] = waitq'[t][j]
                 PROVE  r = t /\ i = j
      BY Zenon
    <3>2. r = t /\ i + d(r) = j + d(t) BY <3>1 DEF TableInv, LinkedOnce
    <3>3. d(r) \in Nat BY Zenon DEF d
    <3> QED BY <3>1, <3>2, <3>3
  <2> QED BY <2>1, <2>2, <2>3, <2>4 DEF LinkedOnce
<1>13. Members(waitq'[q]) = Members(waitq[q]) \ {h} BY <1>8, <1>11, Zenon DEF s
<1> QED BY <1>1, <1>5, <1>8, <1>9, <1>12, <1>13, Zenon DEF TableInv, s, h

-----------------------------------------------------------------------------
(* The processor.                                                          *)

\* A blocked spin_locked block stops the CPU with interrupts off.
LEMMA HangInv ==
    ASSUME NEW Label, KInv(Label), Hang
    PROVE  /\ KInv(Label)'
           /\ cpu \in Exec /\ pc'[cpu] = "hung" /\ \A e \in Exec : e # cpu => pc'[e] = pc[e]
           /\ pc' = [pc EXCEPT ![cpu] = "hung"]
           /\ UNCHANGED <<pstate, runq, current, waitq, schedLock, cpu, ret>>
<1>1. pc' = [pc EXCEPT ![cpu] = "hung"] /\ irq' = FALSE
      /\ UNCHANGED <<pstate, runq, current, waitq, schedLock, cpu, ctx, flags, ret, picked>>
  BY Zenon DEF Hang, Goto, table
<1>2. TableInv' BY <1>1 DEF KInv, TableInv, LinkedOnce, Members
<1>3. MachineInv(Label)' BY <1>1, Zenon DEF KInv, MachineInv
<1> QED BY <1>1, <1>2, <1>3 DEF KInv, MachineInv

\* A step that leaves the kernel alone, within a primitive.
LEMMA LocalInv ==
    ASSUME NEW Label, KInv(Label), NEW l \in Label \cup {"user"}, l \notin {"switch", "hung"},
           pc[cpu] \notin {"switch", "hung"}, Local(l)
    PROVE  /\ KInv(Label)'
           /\ cpu \in Exec /\ pc'[cpu] = l /\ \A e \in Exec : e # cpu => pc'[e] = pc[e]
           /\ UNCHANGED <<pstate, runq, current, waitq, schedLock, cpu, ret>>
<1>1. pc' = [pc EXCEPT ![cpu] = l]
      /\ UNCHANGED <<pstate, runq, current, waitq, schedLock, irq, cpu, ctx, flags, ret, picked>>
  BY Zenon DEF Local, Goto, table, machine
<1>2. TableInv' BY <1>1 DEF KInv, TableInv, LinkedOnce, Members
<1>3. MachineInv(Label)' BY <1>1, Zenon DEF KInv, MachineInv
<1> QED BY <1>1, <1>2, <1>3 DEF KInv, MachineInv

\* riv_proc_yield up to the switch: the caller continues at l, or is about to
\* switch and will continue there, or has found the lock leaked.
LEMMA YieldInv ==
    ASSUME NEW Label, KInv(Label), NEW l \in Label \cup {"user"}, l \notin {"switch", "hung"},
           pc[cpu] \notin {"switch", "hung"}, YieldSelect(l)
    PROVE  /\ KInv(Label)'
           /\ cpu' = cpu /\ waitq' = waitq /\ (schedLock => schedLock')
           /\ \A e \in Exec : e # cpu => pc'[e] = pc[e] /\ ret'[e] = ret[e]
           /\ ret'[cpu] \in {ret[cpu], l}
           /\ \/ pc'[cpu] = l
              \/ pc'[cpu] = "switch" /\ ret'[cpu] = l /\ current' # current
              \/ pc'[cpu] = "hung" /\ schedLock'
           /\ UNCHANGED table \/ Elect
           /\ pc'[cpu] = l => (schedLock' \/ pstate'[cpu] = "RUNNING")
<1>0. cpu = current /\ cpu \in Exec BY Zenon DEF KInv, MachineInv
<1>1. CASE schedLock /\ Hang
  <2>1. KInv(Label)' BY <1>1, HangInv, Zenon
  <2> QED BY <1>0, <1>1, <2>1 DEF Hang, Goto, table, KInv, MachineInv
<1>2. CASE ~schedLock /\ runq = <<>> /\ schedLock' = TRUE /\ irq' = FALSE
           /\ Goto(l) /\ UNCHANGED <<table, cpu, ctx, flags, ret, picked>>
  <2>1. pc' = [pc EXCEPT ![cpu] = l]
        /\ UNCHANGED <<pstate, runq, current, waitq, cpu, ctx, flags, ret, picked>>
    BY <1>2, Zenon DEF Goto, table
  <2>2. TableInv' BY <2>1 DEF KInv, TableInv, LinkedOnce, Members
  <2>3. MachineInv(Label)' BY <1>2, <2>1, Zenon DEF KInv, MachineInv
  <2> QED BY <1>0, <1>2, <2>1, <2>2, <2>3 DEF KInv, MachineInv, table
<1>3. CASE ~schedLock /\ Elect /\ current' = current /\ Goto(l) /\ UNCHANGED <<ret, picked>>
           /\ UNCHANGED <<schedLock, machine>>
  <2>1. TableInv' /\ pstate'[current'] = "RUNNING" BY <1>3, ElectTable, Zenon DEF KInv
  <2>2. pc' = [pc EXCEPT ![cpu] = l]
        /\ UNCHANGED <<current, schedLock, irq, cpu, ctx, flags, ret, picked>>
    BY <1>3, Zenon DEF Goto, machine
  <2>3. MachineInv(Label)' BY <2>2, Zenon DEF KInv, MachineInv
  <2>4. waitq' = waitq BY <1>3, Zenon DEF Elect
  <2> QED BY <1>0, <1>3, <2>1, <2>2, <2>3, <2>4 DEF KInv, MachineInv
<1>4. CASE ~schedLock /\ Elect /\ current' # current /\ Goto("switch")
           /\ ret' = [ret EXCEPT ![cpu] = l]
           /\ picked' = [picked EXCEPT ![cpu] = <<current, current'>>]
           /\ UNCHANGED <<schedLock, machine>>
  <2>1. TableInv' /\ current' \in Members(runq) /\ pstate'[current'] = "RUNNING"
    BY <1>4, ElectTable, Zenon DEF KInv
  <2>2. current' \in Proc BY <2>1, MembersAreProc, Zenon DEF KInv, TableInv
  <2>3. pc' = [pc EXCEPT ![cpu] = "switch"]
        /\ UNCHANGED <<schedLock, irq, cpu, ctx, flags>>
    BY <1>4, Zenon DEF Goto, machine
  <2>4. MachineInv(Label)'
    <3>1. picked' \in [Exec -> Exec \X Exec] /\ ret' \in [Exec -> Label \cup {"user"}]
      BY <1>0, <1>4, <2>2, Zenon DEF KInv, MachineInv, Exec
    <3>2. pc' \in [Exec -> Label \cup {"user", "switch", "hung"}] /\ pc'[cpu] = "switch"
          /\ \A e \in Exec : pc'[e] \in {"switch", "hung"} => e = cpu
      BY <1>0, <2>3, Zenon DEF KInv, MachineInv
    <3>3. picked'[cpu] = <<cpu, current'>> BY <1>0, <1>4, Zenon DEF KInv, MachineInv
    <3> QED BY <1>0, <1>4, <2>1, <2>2, <2>3, <3>1, <3>2, <3>3, Zenon DEF KInv, MachineInv
  <2>5. waitq' = waitq BY <1>4, Zenon DEF Elect
  <2> QED BY <1>0, <1>4, <2>1, <2>3, <2>4, <2>5 DEF KInv, MachineInv
<1> QED BY <1>1, <1>2, <1>3, <1>4, Zenon DEF YieldSelect

\* The second half of riv_proc_yield resumes the elected process.
LEMMA SwitchInv ==
    ASSUME NEW Label, Label \cap {"switch", "hung"} = {}, KInv(Label), Switch
    PROVE  /\ KInv(Label)'
           /\ pc[cpu] = "switch" /\ pc' = [pc EXCEPT ![cpu] = ret[cpu]]
           /\ cpu' = current /\ cpu' # cpu /\ pstate[cpu'] = "RUNNING"
           /\ ret' = [ret EXCEPT ![cpu] = "user"] /\ UNCHANGED <<table, schedLock>>
<1>1. /\ cpu \in Exec /\ current \in Proc /\ picked[cpu] = <<cpu, current>>
      /\ pc[cpu] = "switch" /\ pstate[current] = "RUNNING"
      /\ ctx[current] = current
  BY Zenon DEF KInv, MachineInv, Switch, At
<1>2. /\ ctx' = IF cpu = Null THEN ctx ELSE [ctx EXCEPT ![cpu] = cpu]
      /\ flags' = [flags EXCEPT ![cpu] = irq]
      /\ cpu' = current /\ irq' = flags[current]
      /\ pc' = [pc EXCEPT ![cpu] = ret[cpu]]
      /\ ret' = [ret EXCEPT ![cpu] = "user"]
      /\ picked' = [picked EXCEPT ![cpu] = <<Null, Null>>]
      /\ UNCHANGED <<pstate, runq, current, waitq, schedLock>>
  BY <1>1 DEF Switch, CtxSwitch, Goto, table
<1>3. cpu # current
  BY <1>1, Zenon DEF KInv, MachineInv
<1>4. TableInv' BY <1>2 DEF KInv, TableInv, LinkedOnce, Members
<1>5. current \in Exec /\ Null \in Exec /\ current # Null BY <1>1, KernelAssumption DEF Exec, Proc, Null
<1>6. ret[cpu] \in Label \cup {"user"} /\ ret[cpu] \notin {"switch", "hung"}
  BY <1>1, Zenon DEF KInv, MachineInv
<1>7. ctx' \in [Proc -> Exec] /\ \A p \in Proc : ctx'[p] = p
  BY <1>1, <1>2, Zenon DEF KInv, MachineInv, Exec
<1>8. /\ pc' \in [Exec -> Label \cup {"user", "switch", "hung"}]
      /\ \A e \in Exec : pc'[e] \notin {"switch", "hung"}
  BY <1>1, <1>2, <1>6, Zenon DEF KInv, MachineInv
<1>9. /\ picked' \in [Exec -> Exec \X Exec] /\ ret' \in [Exec -> Label \cup {"user"}]
      /\ flags' \in [Exec -> BOOLEAN] /\ irq' \in BOOLEAN
  BY <1>1, <1>2, <1>5, Zenon DEF KInv, MachineInv
<1>10. MachineInv(Label)'
  BY <1>2, <1>5, <1>7, <1>8, <1>9, Zenon DEF KInv, MachineInv
<1> QED BY <1>1, <1>2, <1>3, <1>4, <1>10, Zenon DEF KInv, table

\* The timer interrupt, outside the switch: the CPU stops at a leaked lock, or
\* the lock leaks, or the elected process is resumed where it was.
LEMMA TickInv ==
    ASSUME NEW Label, KInv(Label), Preempt # "anywhere", Tick
    PROVE  /\ KInv(Label)'
           /\ pc[cpu] \notin {"switch", "hung"} /\ ret' = ret
           /\ schedLock => schedLock'
           /\ \/ schedLock /\ Hang
              \/ pc' = pc /\ UNCHANGED <<table, machine>> /\ schedLock'
              \/ pc' = pc /\ Elect /\ cpu' = current' /\ pstate'[cpu'] = "RUNNING"
                 /\ schedLock' = schedLock
<1>1. /\ irq /\ pc[cpu] \notin {"switch", "hung"} /\ cpu = current /\ cpu \in Proc
  BY Zenon DEF KInv, MachineInv, Tick, At, Exec
<1>2. CASE schedLock /\ Hang
  <2>1. KInv(Label)' BY <1>1, <1>2, HangInv, Zenon
  <2> QED BY <1>1, <1>2, <2>1, Zenon DEF Hang
<1>3. CASE ~schedLock /\ runq = <<>> /\ schedLock' = TRUE /\ UNCHANGED <<table, machine, control>>
  <2>1. UNCHANGED <<pstate, runq, current, waitq, irq, cpu, ctx, flags, pc, ret, picked>>
    BY <1>3, Zenon DEF table, machine, control
  <2>2. TableInv' BY <2>1 DEF KInv, TableInv, LinkedOnce, Members
  <2>3. MachineInv(Label)' BY <1>3, <2>1, Zenon DEF KInv, MachineInv
  <2> QED BY <1>1, <1>3, <2>1, <2>2, <2>3, Zenon DEF KInv
<1>4. CASE ~schedLock /\ Elect /\ current' = current /\ UNCHANGED machine
           /\ UNCHANGED <<schedLock, control>>
  <2>1. TableInv' /\ pstate'[current'] = "RUNNING" BY <1>4, ElectTable, Zenon DEF KInv
  <2>2. UNCHANGED <<current, schedLock, irq, cpu, ctx, flags, pc, ret, picked>>
    BY <1>4, Zenon DEF machine, control
  <2>3. MachineInv(Label)' BY <1>1, <2>2, Zenon DEF KInv, MachineInv
  <2> QED BY <1>1, <1>4, <2>1, <2>2, <2>3, Zenon DEF KInv
<1>5. CASE ~schedLock /\ Elect /\ current' # current /\ CtxSwitch(current, current', TRUE)
           /\ UNCHANGED <<schedLock, control>>
  <2>1. /\ TableInv' /\ current' \in Members(runq) /\ pstate'[current'] = "RUNNING"
    BY <1>5, ElectTable, Zenon DEF KInv
  <2>2. current' \in Proc BY <2>1, MembersAreProc, Zenon DEF KInv, TableInv
  <2>3. /\ ctx' = IF current = Null THEN ctx ELSE [ctx EXCEPT ![current] = cpu]
        /\ flags' = [flags EXCEPT ![cpu] = TRUE]
        /\ cpu' = current' /\ irq' = flags[current']
        /\ UNCHANGED <<schedLock, pc, ret, picked>>
    BY <1>5, <2>2, Zenon DEF CtxSwitch, control, KInv, MachineInv
  <2>4. ctx' \in [Proc -> Exec] /\ \A p \in Proc : ctx'[p] = p
    BY <1>1, <2>3, Zenon DEF KInv, MachineInv, Exec
  <2>5. flags' \in [Exec -> BOOLEAN] /\ irq' \in BOOLEAN /\ cpu' \in Exec /\ cpu' # Null
    BY <1>1, <2>2, <2>3, KernelAssumption DEF KInv, MachineInv, Exec, Proc, Null
  <2>6. \A e \in Exec : pc[e] \notin {"switch", "hung"}
    BY <1>1, Zenon DEF KInv, MachineInv
  <2>7. MachineInv(Label)'
    BY <2>3, <2>4, <2>5, <2>6, Zenon DEF KInv, MachineInv
  <2> QED BY <1>1, <1>5, <2>1, <2>3, <2>7, Zenon DEF KInv
<1> QED BY <1>2, <1>3, <1>4, <1>5, Zenon DEF Tick

\* riv_waitq_wake_one, for a caller that continues at l.
LEMMA WakeOneInv ==
    ASSUME NEW Label, KInv(Label), NEW q \in Queue, NEW l \in Label \cup {"user"},
           l \notin {"switch", "hung"}, pc[cpu] \notin {"switch", "hung"}, WakeOne(q, l)
    PROVE  /\ KInv(Label)'
           /\ UNCHANGED <<schedLock, cpu, ret>>
           /\ \/ pc' = [pc EXCEPT ![cpu] = l] /\ waitq[q] = <<>> /\ waitq' = waitq
              \/ pc' = [pc EXCEPT ![cpu] = l] /\ waitq[q] # <<>> /\ Wake(q) /\ ~schedLock
              \/ schedLock /\ Hang
<1>1. CASE waitq[q] = <<>> /\ Goto(l) /\ UNCHANGED <<table, schedLock, machine, ret, picked>>
  <2>1. KInv(Label)' BY <1>1, LocalInv, Zenon DEF Local
  <2> QED BY <1>1, <2>1, Zenon DEF Goto, machine, table
<1>2. CASE waitq[q] # <<>> /\ ~schedLock /\ Wake(q) /\ Goto(l)
           /\ UNCHANGED <<schedLock, machine, ret, picked>>
  <2>1. TableInv' BY <1>2, WakeTable, Zenon DEF KInv
  <2>2. /\ pc' = [pc EXCEPT ![cpu] = l]
        /\ UNCHANGED <<current, schedLock, irq, cpu, ctx, flags, ret, picked>>
    BY <1>2, Zenon DEF Goto, machine, Wake
  <2>3. MachineInv(Label)' BY <2>2, Zenon DEF KInv, MachineInv
  <2> QED BY <1>2, <2>1, <2>2, <2>3, Zenon DEF KInv
<1>3. CASE waitq[q] # <<>> /\ schedLock /\ Hang
  <2>1. KInv(Label)' BY <1>3, HangInv, Zenon
  <2> QED BY <1>3, <2>1, Zenon DEF Hang
<1> QED BY <1>1, <1>2, <1>3, Zenon DEF WakeOne

\* The state after boot.
LEMMA BootedInv == ASSUME NEW Label, BootedInit PROVE KInv(Label)
<1>1. 1 \in Proc /\ 1 \in Exec /\ 1 # Null /\ NProc - 1 \in Nat
  BY KernelAssumption DEF Proc, Exec, Null
<1>2. runq \in Seq(Proc) /\ DOMAIN runq = 1 .. NProc - 1 /\ \A i \in 1 .. NProc - 1 : runq[i] = i + 1
  <2>1. runq = [i \in 1 .. NProc - 1 |-> i + 1] BY Zenon DEF BootedInit
  <2>2. runq \in [1 .. NProc - 1 -> Proc] BY <2>1, KernelAssumption DEF Proc
  <2>3. runq \in Seq(Proc) BY <1>1, <2>2
  <2> QED BY <2>1, <2>3, Zenon
<1>3. LinkedOnce
  <2>1. \A p \in Members(runq) : p \in Proc /\ p # 1 BY <1>2, KernelAssumption DEF Members, Proc
  <2>2. \A p \in Members(runq) : pstate[p] = "READY" BY <2>1, Zenon DEF BootedInit
  <2>3. \A i, j \in DOMAIN runq : runq[i] = runq[j] => i = j BY <1>2
  <2>4. \A q \in Queue : DOMAIN waitq[q] = {} BY DEF BootedInit
  <2> QED BY <2>2, <2>3, <2>4, Zenon DEF LinkedOnce
<1>4. TableInv
  BY <1>1, <1>2, <1>3 DEF TableInv, BootedInit, ProcState
<1>5. MachineInv(Label)
  BY <1>1, Zenon DEF MachineInv, BootedInit, Exec
<1> QED BY <1>4, <1>5, Zenon DEF KInv

\* The invariant contains what the runs check of the substrate.
LEMMA KInvImplies ==
    ASSUME NEW Label, KInv(Label)
    PROVE  KernelTypeOK(Label) /\ LinkedOnce /\ ContextOwned
BY Zenon DEF KInv, TableInv, MachineInv, KernelTypeOK, ContextOwned, At
=============================================================================
