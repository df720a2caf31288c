-------------------------- MODULE InterruptProofs ---------------------------
(***************************************************************************)
(* Proofs about what an interrupt handler shares with the program it       *)
(* interrupts: the ticks of the super loop of task.h and the clocks of     *)
(* time.h, the terminal of tty.h and the keyboard of kbd.h, and the byte   *)
(* ring of ring.h.                                                         *)
(***************************************************************************)
EXTENDS Ring, Clock, Kbd, TLAPS

-----------------------------------------------------------------------------
(* Counting modulo TICK_MOD.                                               *)

Congruent(a, b) == \E k \in Int : a = b + k * TICK_MOD

\* Products with TICK_MOD, which SMT takes one at a time.
LEMMA Times == ASSUME NEW k \in Int, NEW m \in Int
               PROVE  k * TICK_MOD \in Int /\ (k + m) * TICK_MOD = k * TICK_MOD + m * TICK_MOD /\ (-k) * TICK_MOD = -(k * TICK_MOD)
BY TaskAssumption, SMT

\* Sums and differences of congruent numbers.
LEMMA CongruentAdd == ASSUME NEW a \in Int, NEW b \in Int, NEW c \in Int, NEW d \in Int, Congruent(a, b), Congruent(c, d)
                      PROVE  Congruent(a + c, b + d) /\ Congruent(a - c, b - d)
<1>1. PICK k \in Int : a = b + k * TICK_MOD BY Zenon DEF Congruent
<1>2. PICK m \in Int : c = d + m * TICK_MOD BY Zenon DEF Congruent
<1>3. /\ k * TICK_MOD \in Int /\ m * TICK_MOD \in Int /\ -m \in Int /\ k + m \in Int /\ k + (-m) \in Int
      /\ (k + m) * TICK_MOD = k * TICK_MOD + m * TICK_MOD
      /\ (k + (-m)) * TICK_MOD = k * TICK_MOD - m * TICK_MOD
  <2>1. -m \in Int /\ k + m \in Int /\ k + (-m) \in Int OBVIOUS
  <2>2. (k + (-m)) * TICK_MOD = k * TICK_MOD + (-m) * TICK_MOD BY <2>1, Times, Zenon
  <2>3. k * TICK_MOD \in Int /\ m * TICK_MOD \in Int /\ (-m) * TICK_MOD = -(m * TICK_MOD) BY Times, Zenon
  <2>4. (k + m) * TICK_MOD = k * TICK_MOD + m * TICK_MOD BY Times, Zenon
  <2> QED BY <2>1, <2>2, <2>3, <2>4, Zenon
<1>4. a + c = (b + d) + (k + m) * TICK_MOD BY <1>1, <1>2, <1>3
<1>5. a - c = (b - d) + (k + (-m)) * TICK_MOD BY <1>1, <1>2, <1>3
<1> QED BY <1>3, <1>4, <1>5, Zenon DEF Congruent

\* Congruence is reflexive,
LEMMA CongruentSelf == ASSUME NEW a \in Int PROVE Congruent(a, a)
BY TaskAssumption DEF Congruent

\* symmetric,
LEMMA CongruentSym ==
    ASSUME NEW a \in Int, NEW b \in Int, Congruent(a, b)
    PROVE  Congruent(b, a)
<1>1. PICK k \in Int : a = b + k * TICK_MOD BY Zenon DEF Congruent
<1>2. -k \in Int /\ k * TICK_MOD \in Int /\ (-k) * TICK_MOD = -(k * TICK_MOD) BY TaskAssumption, SMT
<1>3. b = a + (-k) * TICK_MOD BY <1>1, <1>2
<1> QED BY <1>2, <1>3, Zenon DEF Congruent

\* kept by adding the same to both,
LEMMA CongruentShift == ASSUME NEW a \in Int, NEW b \in Int, NEW c \in Int, Congruent(a, b)
                        PROVE  Congruent(a + c, b + c) /\ Congruent(a - c, b - c)
BY CongruentAdd, CongruentSelf, Zenon

\* and transitive.
LEMMA CongruentTrans ==
    ASSUME NEW a \in Int, NEW b \in Int, NEW c \in Int, Congruent(a, b),
           Congruent(b, c)
    PROVE  Congruent(a, c)
<1>1. Congruent(a - b, b - b + (c - c)) /\ b - b + (c - c) = 0
  <2>1. Congruent(a - b, b - b) BY CongruentAdd, CongruentSelf, Zenon
  <2> QED BY <2>1
<1>2. Congruent((a - b) + b, 0 + c) BY <1>1, CongruentAdd
<1> QED BY <1>2

\* A number is congruent to its remainder.
LEMMA CongruentMod ==
    ASSUME NEW a \in Int
    PROVE  a % TICK_MOD \in Int /\ Congruent(a % TICK_MOD, a)
<1>1. /\ a % TICK_MOD \in Int /\ a \div TICK_MOD \in Int
      /\ a = TICK_MOD * (a \div TICK_MOD) + (a % TICK_MOD)
  BY TaskAssumption, SMT
<1>2. -(a \div TICK_MOD) \in Int /\ TICK_MOD * (a \div TICK_MOD) = -((-(a \div TICK_MOD)) * TICK_MOD)
  BY <1>1, TaskAssumption, SMT
<1>3. a % TICK_MOD = a + (-(a \div TICK_MOD)) * TICK_MOD
  <2> DEFINE q == a \div TICK_MOD
  <2>1. q \in Int /\ TICK_MOD * q \in Int /\ (-q) * TICK_MOD \in Int BY <1>1, TaskAssumption
  <2> QED BY <1>1, <1>2, <2>1
<1> QED BY <1>1, <1>2, <1>3, Zenon DEF Congruent

\* The remainder is determined by the division equation.
LEMMA RemainderUnique == ASSUME NEW a \in Int, NEW c \in Nat \ {0}, NEW q \in Int, NEW r \in 0 .. c - 1, a = c * q + r
                         PROVE  a % c = r
BY SMT

\* A number is its own remainder, and congruent numbers have one remainder.
LEMMA ModOfCongruent ==
    ASSUME NEW a \in Int, NEW b \in 0 .. TICK_MOD - 1, Congruent(a, b)
    PROVE  a % TICK_MOD = b
<1>1. PICK k \in Int : a = b + k * TICK_MOD BY Zenon DEF Congruent
<1>2. TICK_MOD \in Nat \ {0} BY TaskAssumption, Zenon
<1>3. a = TICK_MOD * k + b BY <1>1, <1>2, SMT
<1> QED BY <1>2, <1>3, RemainderUnique, Zenon

-----------------------------------------------------------------------------
(* The super loop.                                                         *)

\* Modulo TICK_MOD, next_tick[i] is a period after the tick that age[i] is counted
\* from, and now is the tick that since_now is counted from.
TaskInv ==
    /\ ticks \in Int /\ now \in Int /\ since_now \in Nat /\ at \in TaskIds \cup {0}
    /\ next_tick \in [TaskIds -> Int] /\ age \in [TaskIds -> Nat]
    /\ \A i \in TaskIds : Congruent(next_tick[i], ticks - age[i] + Periods[i])
    /\ at # 0 => Congruent(now, ticks - since_now) /\ \A i \in TaskIds : since_now <= age[i]

\* What TaskAssumption says of the periods.
LEMMA PeriodRange == /\ TaskIds = 1 .. Len(Periods) /\ Len(Periods) \in Nat /\ 1 \in TaskIds
                     /\ TICK_MOD \div 2 \in Nat
                     /\ \A i \in TaskIds : /\ Periods[i] \in Nat /\ Periods[i] <= TICK_MOD - TICK_MOD \div 2
                                            /\ After(i) \in TaskIds \cup {0}
<1>1. TaskIds = 1 .. Len(Periods) /\ Len(Periods) \in Nat BY TaskAssumption DEF TaskIds
<1>2. Len(Periods) # 0 BY TaskAssumption
<1>3. TICK_MOD \div 2 \in Nat BY TaskAssumption, SMT
<1>4. ASSUME NEW i \in TaskIds PROVE Periods[i] \in 0 .. TICK_MOD - TICK_MOD \div 2 BY TaskAssumption DEF TaskIds
<1>5. ASSUME NEW i \in TaskIds PROVE After(i) \in TaskIds \cup {0} BY <1>1 DEF After
<1>6. ASSUME NEW i \in TaskIds PROVE Periods[i] \in Nat /\ Periods[i] <= TICK_MOD - TICK_MOD \div 2 BY <1>3, <1>4, TaskAssumption
<1> QED BY <1>1, <1>2, <1>3, <1>5, <1>6

\* riv_sched_init with the tasks added.
LEMMA TaskInitInv == ASSUME riv_sched_init PROVE TaskInv
<1>1. ASSUME NEW i \in TaskIds PROVE next_tick[i] \in Int /\ Congruent(next_tick[i], ticks - age[i] + Periods[i])
  <2>1. Periods[i] \in Int BY PeriodRange
  <2>2. next_tick[i] = Periods[i] % TICK_MOD /\ ticks - age[i] + Periods[i] = Periods[i] BY <2>1 DEF riv_sched_init
  <2> QED BY <2>1, <2>2, CongruentMod, Zenon
<1> QED BY <1>1 DEF riv_sched_init, TaskInv

\* riv_sched_tick, in the interrupt.
LEMMA TickInv == ASSUME TaskInv, riv_sched_tick PROVE TaskInv'
<1>1. ticks' = (ticks + 1) % TICK_MOD /\ ticks \in Int BY Zenon DEF TaskInv, riv_sched_tick
<1>2. ticks' \in Int /\ Congruent(ticks', ticks + 1) /\ Congruent(ticks + 1, ticks')
  <2>1. ticks + 1 \in Int BY <1>1
  <2>2. ticks' \in Int /\ Congruent(ticks', ticks + 1) BY <1>1, <2>1, CongruentMod, Zenon
  <2> QED BY <2>1, <2>2, CongruentSym, Zenon
<1>3. ASSUME NEW i \in TaskIds
      PROVE  age'[i] = age[i] + 1 /\ age'[i] \in Nat /\ Congruent(next_tick'[i], ticks' - age'[i] + Periods[i])
  <2>1. /\ age'[i] = age[i] + 1 /\ age[i] \in Nat /\ next_tick[i] \in Int /\ Periods[i] \in Int
        /\ next_tick'[i] = next_tick[i]
    BY PeriodRange DEF TaskInv, riv_sched_tick
  <2>2. ticks - age[i] + Periods[i] = (ticks + 1) + (Periods[i] - age'[i]) BY <1>1, <2>1
  <2>3. Congruent((ticks + 1) + (Periods[i] - age'[i]), ticks' + (Periods[i] - age'[i]))
    <3>1. ticks + 1 \in Int /\ Periods[i] - age'[i] \in Int BY <1>1, <2>1
    <3> QED BY <1>2, <3>1, CongruentShift, Zenon
  <2>4. Congruent(next_tick[i], ticks - age[i] + Periods[i]) BY Zenon DEF TaskInv
  <2>5. Congruent(next_tick[i], ticks' + (Periods[i] - age'[i])) BY <1>1, <1>2, <2>1, <2>2, <2>3, <2>4, CongruentTrans
  <2>6. ticks' + (Periods[i] - age'[i]) = ticks' - age'[i] + Periods[i] BY <1>2, <2>1
  <2> QED BY <2>1, <2>5, <2>6
<1>4. at # 0 => /\ since_now' = since_now + 1
                /\ Congruent(now', ticks' - since_now')
                /\ \A i \in TaskIds : since_now' <= age'[i]
  <2> SUFFICES ASSUME at # 0
               PROVE  /\ since_now' = since_now + 1
                      /\ Congruent(now', ticks' - since_now') /\ \A i \in TaskIds : since_now' <= age'[i]
    BY Zenon
  <2>1. since_now' = since_now + 1 /\ since_now \in Nat /\ now' = now /\ now \in Int BY Zenon DEF TaskInv, riv_sched_tick
  <2>2. Congruent(now, ticks - since_now) /\ ticks - since_now = (ticks + 1) - since_now' BY <1>1, <2>1 DEF TaskInv
  <2>3. Congruent((ticks + 1) - since_now', ticks' - since_now') BY <1>1, <1>2, <2>1, CongruentAdd, CongruentSelf
  <2>4. Congruent(now, ticks' - since_now') BY <1>1, <1>2, <2>1, <2>2, <2>3, CongruentTrans
  <2>5. \A i \in TaskIds : since_now <= age[i] /\ age[i] \in Nat BY Zenon DEF TaskInv
  <2> QED BY <2>1, <2>4, <2>5, <1>3
<1>5. since_now' \in Nat /\ age' \in [TaskIds -> Nat] BY <1>3 DEF TaskInv, riv_sched_tick
<1> QED BY <1>2, <1>3, <1>4, <1>5, Zenon DEF TaskInv, riv_sched_tick

\* riv_sched_run reads the tick counter.
LEMMA RunBeginInv == ASSUME TaskInv, RunBegin PROVE TaskInv'
<1>1. ticks \in Int /\ ticks - 0 = ticks BY DEF TaskInv
<1>2. Congruent(now', ticks' - since_now') BY <1>1, CongruentSelf, Zenon DEF RunBegin
<1>3. 1 \in TaskIds BY PeriodRange, Zenon
<1>4. \A i \in TaskIds : 0 <= age[i] BY DEF TaskInv
<1> QED BY <1>2, <1>3, <1>4, Zenon DEF TaskInv, RunBegin

\* A task that is not due.
LEMMA TaskSkipInv == ASSUME TaskInv, TaskSkip PROVE TaskInv'
<1>1. at \in TaskIds /\ at' = After(at) /\ After(at) \in TaskIds \cup {0} BY PeriodRange, Zenon DEF TaskInv, TaskSkip
<1> QED BY <1>1, Zenon DEF TaskInv, TaskSkip

\* A task that is due.
LEMMA TaskRunInv ==
    ASSUME TaskInv, NEW switched, TaskRun(switched)
    PROVE  TaskInv'
<1>1. PICK k \in TaskIds : k = at BY Zenon DEF TaskInv, TaskRun
<1>2. /\ at' = After(k) /\ After(k) \in TaskIds \cup {0} /\ UNCHANGED <<ticks, now>>
      /\ next_tick' = [next_tick EXCEPT ![k] = (now + Periods[k]) % TICK_MOD]
      /\ age' = [age EXCEPT ![k] = since_now]
      /\ since_now' = (IF at' = 0 THEN 0 ELSE since_now)
  BY <1>1, PeriodRange, Zenon DEF TaskRun
<1>3. /\ ticks \in Int /\ now \in Int /\ since_now \in Nat /\ Periods[k] \in Int
      /\ Congruent(now, ticks - since_now) /\ \A i \in TaskIds : since_now <= age[i]
  BY <1>1, PeriodRange DEF TaskInv, TaskRun
<1>4. (now + Periods[k]) % TICK_MOD \in Int /\ Congruent((now + Periods[k]) % TICK_MOD, ticks - since_now + Periods[k])
  <2>1. (now + Periods[k]) % TICK_MOD \in Int /\ Congruent((now + Periods[k]) % TICK_MOD, now + Periods[k])
    <3>1. now + Periods[k] \in Int BY <1>3
    <3> QED BY <3>1, CongruentMod, Zenon
  <2>2. Congruent(now + Periods[k], ticks - since_now + Periods[k])
    <3>1. ticks - since_now \in Int BY <1>3
    <3> QED BY <1>3, <3>1, CongruentShift, Zenon
  <2>3. now + Periods[k] \in Int /\ ticks - since_now + Periods[k] \in Int BY <1>3
  <2> QED BY <2>1, <2>2, <2>3, CongruentTrans, Zenon
<1>5. \A i \in TaskIds : /\ next_tick'[i] = IF i = k THEN (now + Periods[k]) % TICK_MOD ELSE next_tick[i]
                         /\ age'[i] = IF i = k THEN since_now ELSE age[i]
  BY <1>2, Zenon DEF TaskInv
<1>6. next_tick' \in [TaskIds -> Int] /\ age' \in [TaskIds -> Nat] BY <1>2, <1>3, <1>4, Zenon DEF TaskInv
<1>7. \A i \in TaskIds : Congruent(next_tick'[i], ticks' - age'[i] + Periods[i]) BY <1>2, <1>4, <1>5, Zenon DEF TaskInv
<1>8. \A i \in TaskIds : since_now <= age'[i] BY <1>3, <1>5 DEF TaskInv
<1> QED BY <1>2, <1>3, <1>6, <1>7, <1>8, Zenon DEF TaskInv

\* What Due computes from the wrapped counters is what the ghost counters say.
LEMMA TaskOnTime == ASSUME TaskInv PROVE TasksOnTime
<1> SUFFICES ASSUME at # 0, age[at] - since_now < Periods[at] + TICK_MOD \div 2
             PROVE  Due(at) <=> age[at] - since_now >= Periods[at]
  BY Zenon DEF TasksOnTime
<1>1. /\ at \in TaskIds /\ ticks \in Int /\ now \in Int /\ since_now \in Nat /\ age[at] \in Nat /\ next_tick[at] \in Int
      /\ since_now <= age[at] /\ Congruent(now, ticks - since_now) /\ Congruent(next_tick[at], ticks - age[at] + Periods[at])
  BY Zenon DEF TaskInv
<1>2. Periods[at] \in Nat /\ Periods[at] <= TICK_MOD - TICK_MOD \div 2 /\ TICK_MOD \div 2 \in Nat BY <1>1, PeriodRange, Zenon
<1> DEFINE x == age[at] - since_now - Periods[at]
           y == now - next_tick[at]
<1>3. x \in Int /\ y \in Int BY <1>1, <1>2
<1>4. Congruent(y, x)
  <2>1. Congruent(now - next_tick[at], (ticks - since_now) - (ticks - age[at] + Periods[at]))
    <3>1. ticks - since_now \in Int /\ ticks - age[at] + Periods[at] \in Int BY <1>1, <1>2
    <3> QED BY <1>1, <3>1, CongruentAdd, Zenon
  <2>2. (ticks - since_now) - (ticks - age[at] + Periods[at]) = x BY <1>1, <1>2
  <2> QED BY <2>1, <2>2, Zenon
<1>5. Due(at) <=> y % TICK_MOD < TICK_MOD \div 2 BY Zenon DEF Due
<1> DEFINE h == TICK_MOD \div 2
<1>6. h \in Nat /\ x < h /\ x >= -(TICK_MOD - h) /\ h <= TICK_MOD
  <2>1. TICK_MOD \div 2 <= TICK_MOD BY TaskAssumption, SMT
  <2>2. TICK_MOD \in Nat BY TaskAssumption, Zenon
  <2>3. at # 0 /\ age[at] - since_now < Periods[at] + TICK_MOD \div 2 BY Zenon
  <2> QED BY <1>1, <1>2, <2>1, <2>2, <2>3
<1> HIDE DEF x, y, h
<1>7. CASE x >= 0
  <2>1. x \in 0 .. TICK_MOD - 1 BY <1>3, <1>6, <1>7, TaskAssumption
  <2>2. y % TICK_MOD = x BY <2>1, <1>3, <1>4, ModOfCongruent, Zenon
  <2>3. Due(at) BY <2>2, <1>5, <1>6, Zenon DEF h
  <2>4. age[at] - since_now >= Periods[at] BY <1>1, <1>2, <1>7 DEF x
  <2> QED BY <2>3, <2>4, Zenon
<1>8. CASE x < 0
  <2>1. x + TICK_MOD \in 0 .. TICK_MOD - 1 /\ x + TICK_MOD >= h BY <1>3, <1>6, <1>8, TaskAssumption
  <2>2. Congruent(0, TICK_MOD)
    <3>1. 0 = TICK_MOD + (-1) * TICK_MOD BY TaskAssumption
    <3> QED BY <3>1 DEF Congruent
  <2>3. Congruent(y + 0, x + TICK_MOD)
    <3>1. 0 \in Int /\ TICK_MOD \in Int BY TaskAssumption
    <3> QED BY <1>3, <1>4, <2>2, <3>1, CongruentAdd, Zenon
  <2>4. Congruent(y, x + TICK_MOD) BY <2>3, <1>3
  <2>5. y % TICK_MOD = x + TICK_MOD BY <2>1, <2>4, <1>3, ModOfCongruent, Zenon
  <2>6. ~Due(at) BY <2>1, <2>5, <1>3, <1>5, <1>6, TaskAssumption DEF h
  <2>7. ~(age[at] - since_now >= Periods[at]) BY <1>1, <1>2, <1>8 DEF x
  <2> QED BY <2>6, <2>7, Zenon
<1> QED BY <1>3, <1>7, <1>8

-----------------------------------------------------------------------------
(* The clock.                                                              *)

\* What a read at time t of the counter gives, when it is not taken apart.
Shown(t) == IF target = "arm" /\ call = "cycles" THEN t % HALF ELSE t

ClockTypeOK ==
    /\ target \in {"word64", "rv32", "arm"} /\ call \in {"none", "cycles", "ms"} /\ step \in {"first", "low", "high"}
    /\ clk \in 0 .. CLK_MAX /\ amount \in Nat
    /\ read_from \in 0 .. clk /\ begun \in 0 .. read_from
    /\ hi \in Int /\ lo \in Int

\* Reads in progress, and what a read has returned, come from the window of the
\* read; the goal comes from between the call and the read.
ClockInv ==
    /\ ClockTypeOK
    /\ step # "first" => call # "none"
    /\ target = "rv32" /\ call = "cycles" /\ step = "low" => \E t \in read_from .. clk : hi = t \div HALF
    /\ target = "rv32" /\ call = "cycles" /\ step = "high" =>
          \E t \in read_from .. clk : \E u \in t .. clk : hi = t \div HALF /\ lo = u % HALF
    /\ call = "ms" /\ step = "high" => \E t \in read_from .. clk : lo = t % HALF
    /\ split => call = "ms" /\ target # "word64"
    /\ value # NoValue => step = "first" /\ call # "none" /\ (split \/ \E t \in read_from .. clk : value = Shown(t))
    /\ goal # NoGoal => split \/ \E t \in begun .. read_from :
                           goal = IF call = "cycles" THEN Shown(t) ELSE riv_now_ms(t) + amount

\* Quotient and remainder of the halves of a word.
LEMMA Halves == ASSUME NEW t \in Nat
                PROVE  /\ t \div HALF \in Nat /\ t % HALF \in Nat /\ t % HALF < HALF
                       /\ t = HALF * (t \div HALF) + (t % HALF)
                       /\ (t \div HALF) * HALF + (t % HALF) = t
<1>1. HALF \in Nat \ {0} BY ClockAssumption, Zenon
<1>2. /\ t \div HALF \in Nat /\ t % HALF \in Nat /\ t % HALF < HALF
      /\ t = HALF * (t \div HALF) + (t % HALF)
  BY <1>1, SMT
<1>3. HALF * (t \div HALF) = (t \div HALF) * HALF BY <1>1, <1>2, SMT
<1> QED BY <1>2, <1>3, Zenon

\* The high half grows with the counter.
LEMMA HighGrows ==
    ASSUME NEW t \in Nat, NEW u \in Nat, t <= u
    PROVE  t \div HALF <= u \div HALF
<1> DEFINE a == t \div HALF
           b == u \div HALF
<1>1. a \in Nat /\ b \in Nat /\ HALF \in Nat /\ HALF * a <= t /\ u < HALF * b + HALF /\ HALF * a \in Nat /\ HALF * b \in Nat
  <2>1. HALF \in Nat BY ClockAssumption, Zenon
  <2>2. a \in Nat /\ b \in Nat BY Halves, Zenon
  <2>3. HALF * a \in Nat /\ HALF * b \in Nat BY <2>1, <2>2, SMT
  <2>4. t = HALF * a + (t % HALF) /\ t % HALF \in Nat BY Halves, Zenon
  <2>5. u = HALF * b + (u % HALF) /\ u % HALF \in Nat /\ u % HALF < HALF BY Halves, Zenon
  <2> HIDE DEF a, b
  <2> QED BY <2>1, <2>2, <2>3, <2>4, <2>5
<1> HIDE DEF a, b
<1>2. ASSUME a > b PROVE FALSE
  <2>1. PICK d \in Nat : a = b + 1 + d
    <3>1. a - b - 1 \in Nat /\ a = b + 1 + (a - b - 1) BY <1>1, <1>2
    <3> QED BY <3>1, Zenon
  <2>2. HALF * a = HALF * b + HALF + HALF * d /\ HALF * d >= 0 /\ HALF * d \in Nat BY <1>1, <2>1, SMT
  <2> QED BY <1>1, <2>2
<1> QED BY <1>1, <1>2 DEF a, b

\* Two loads with the same high half around a load of the low half.
LEMMA Rejoined == ASSUME NEW t \in Nat, NEW u \in Nat, NEW w \in Nat, t <= u, u <= w, t \div HALF = w \div HALF
                  PROVE  (t \div HALF) * HALF + (u % HALF) = u
<1>1. t \div HALF <= u \div HALF /\ u \div HALF <= w \div HALF BY HighGrows, Zenon
<1>2. t \div HALF \in Nat /\ u \div HALF \in Nat BY Halves, Zenon
<1>3. t \div HALF = u \div HALF BY <1>1, <1>2
<1> QED BY <1>3, Halves, Zenon

\* The times of the calls are in order.
LEMMA Clocks ==
    ASSUME ClockInv
    PROVE  clk \in Nat /\ read_from \in Nat /\ begun \in Nat /\ begun <= read_from /\ read_from <= clk
BY ClockAssumption DEF ClockInv, ClockTypeOK

\* The clock at reset.
LEMMA ClockInitInv ==
    ASSUME NEW targets, targets \subseteq {"word64", "rv32", "arm"},
           ClockInit(targets)
    PROVE  ClockInv
<1>1. 0 \in 0 .. CLK_MAX BY ClockAssumption
<1> QED BY <1>1 DEF ClockInit, ClockInv, ClockTypeOK

\* riv_tick, in the interrupt.
LEMMA ClockTickInv == ASSUME ClockInv, riv_tick PROVE ClockInv'
<1>1. /\ clk < CLK_MAX /\ clk' = clk + 1
      /\ UNCHANGED <<target, call, amount, goal, step, hi, lo, value, read_from, begun, split>>
  BY Zenon DEF riv_tick
<1>2. clk \in Nat /\ read_from \in Nat /\ begun \in Nat /\ begun <= read_from /\ read_from <= clk /\ CLK_MAX \in Nat
  BY Clocks, ClockAssumption
<1>3. ClockTypeOK'
  <2>1. clk' \in 0 .. CLK_MAX /\ read_from' \in 0 .. clk' /\ begun' \in 0 .. read_from' BY <1>1, <1>2
  <2> QED BY <2>1, <1>1, Zenon DEF ClockInv, ClockTypeOK
<1>4. \A t : t \in read_from .. clk => t \in read_from .. clk' BY <1>1, <1>2
<1>5. \A t, u : u \in t .. clk /\ t \in read_from .. clk => u \in t .. clk' BY <1>1, <1>2
<1>6. \A t : Shown(t)' = Shown(t) BY <1>1, Zenon DEF Shown
<1> QED BY <1>1, <1>3, <1>4, <1>5, <1>6, Zenon DEF ClockInv, NoValue, NoGoal

\* A call of a wait or a delay.
LEMMA CallInv ==
    ASSUME ClockInv, NEW kind \in {"cycles", "ms"}, NEW n \in Waits,
           Call(kind, n)
    PROVE  ClockInv'
<1>1. clk \in 0 .. CLK_MAX /\ clk \in 0 .. clk /\ n \in Nat BY ClockAssumption DEF ClockInv, ClockTypeOK
<1>2. ClockTypeOK' BY <1>1 DEF ClockInv, ClockTypeOK, Call
<1> QED BY <1>2, Zenon DEF ClockInv, Call, NoValue, NoGoal

\* A read in one load.
LEMMA ReadWholeInv == ASSUME ClockInv, ReadWhole PROVE ClockInv'
<1>1. ClockTypeOK' BY Zenon DEF ClockInv, ClockTypeOK, ReadWhole
<1>2. clk \in read_from .. clk BY Clocks
<1>3. value' = Shown(clk)' /\ step = "first" /\ call # "none" BY Zenon DEF ReadWhole, Reading, Shown, Low
<1>4. \A t : Shown(t)' = Shown(t) BY Zenon DEF ReadWhole, Shown
<1> QED BY <1>1, <1>2, <1>3, <1>4, Zenon DEF ClockInv, ReadWhole

\* The retried read of rdcycleh, rdcycle, rdcycleh.
LEMMA ReadRv32Inv == ASSUME ClockInv, ReadRv32 PROVE ClockInv'
<1>1. /\ call = "cycles" /\ target = "rv32" /\ value = NoValue
      /\ UNCHANGED <<target, clk, call, amount, goal, read_from, begun, split>>
  BY Zenon DEF ReadRv32, Reading
<1>2. /\ clk \in Nat /\ read_from \in Nat /\ clk \in read_from .. clk
      /\ High \in Int /\ Low \in Int
  <2>1. clk \in Nat /\ read_from \in Nat /\ clk \in read_from .. clk BY Clocks
  <2>2. High \in Int /\ Low \in Int BY <2>1, Halves DEF High, Low
  <2> QED BY <2>1, <2>2, Zenon
<1>3. \A t : Shown(t)' = Shown(t) /\ Shown(t) = t BY <1>1, Zenon DEF Shown
<1>4. CASE step = "first"
  <2>1. hi' = High /\ step' = "low" /\ UNCHANGED <<lo, value>> BY <1>4, Zenon DEF ReadRv32
  <2>2. ClockTypeOK' BY <1>1, <1>2, <2>1, Zenon DEF ClockInv, ClockTypeOK
  <2> QED BY <1>1, <1>2, <1>3, <2>1, <2>2, Zenon DEF ClockInv, High
<1>5. CASE step = "low"
  <2>1. lo' = Low /\ step' = "high" /\ UNCHANGED <<hi, value>> BY <1>5, Zenon DEF ReadRv32
  <2>2. ClockTypeOK' BY <1>1, <1>2, <2>1, Zenon DEF ClockInv, ClockTypeOK
  <2>3. PICK t \in read_from .. clk : hi = t \div HALF BY <1>1, <1>5, Zenon DEF ClockInv
  <2>4. clk \in t .. clk BY <1>2, <2>3
  <2> QED BY <1>1, <1>2, <1>3, <2>1, <2>2, <2>3, <2>4, Zenon DEF ClockInv, Low
<1>6. CASE step = "high"
  <2>1. step' = "first" /\ UNCHANGED <<hi, lo>> /\ value' = IF Again THEN NoValue ELSE hi * HALF + lo BY <1>6, Zenon DEF ReadRv32
  <2>2. ClockTypeOK' BY <1>1, <2>1, Zenon DEF ClockInv, ClockTypeOK
  <2>3. PICK t \in read_from .. clk : \E u \in t .. clk : hi = t \div HALF /\ lo = u % HALF BY <1>1, <1>6, Zenon DEF ClockInv
  <2>4. PICK u \in t .. clk : hi = t \div HALF /\ lo = u % HALF BY <2>3, Zenon
  <2>5. t \in Nat /\ u \in Nat /\ t <= u /\ u <= clk /\ u \in read_from .. clk BY <1>2, <2>3, <2>4
  <2>6. ~Again => hi * HALF + lo = u BY <1>2, <2>4, <2>5, Rejoined, Zenon DEF Again, High
  <2>7. value' # NoValue => value' = Shown(u)' BY <1>3, <2>1, <2>6, Zenon
  <2> QED BY <1>1, <1>3, <2>1, <2>2, <2>5, <2>7, Zenon DEF ClockInv
<1> QED BY <1>4, <1>5, <1>6, Zenon DEF ClockInv, ClockTypeOK

\* A read of two halves that an interrupt may part.
LEMMA ReadHalvesInv == ASSUME ClockInv, ReadHalves PROVE ClockInv'
<1>1. /\ call = "ms" /\ target # "word64" /\ value = NoValue
      /\ UNCHANGED <<target, clk, call, amount, goal, read_from, begun>>
  BY Zenon DEF ReadHalves, Reading
<1>2. /\ clk \in Nat /\ read_from \in Nat /\ clk \in read_from .. clk
      /\ High \in Int /\ Low \in Int /\ High * HALF + Low = clk
  <2>1. clk \in Nat /\ read_from \in Nat /\ clk \in read_from .. clk BY Clocks
  <2>2. High \in Int /\ Low \in Int /\ High * HALF + Low = clk BY <2>1, Halves DEF High, Low
  <2> QED BY <2>1, <2>2, Zenon
<1>3. \A t : Shown(t)' = Shown(t) /\ Shown(t) = t BY <1>1, Zenon DEF Shown
<1>4. CASE step = "first"
  <2>1. /\ UNCHANGED <<value, split>>
        /\ (hi' = High /\ step' = "low" /\ lo' = lo) \/ (lo' = Low /\ step' = "high" /\ hi' = hi)
    BY <1>4, Zenon DEF ReadHalves
  <2>2. ClockTypeOK' BY <1>1, <1>2, <2>1, Zenon DEF ClockInv, ClockTypeOK
  <2> QED BY <1>1, <1>2, <1>3, <2>1, <2>2, Zenon DEF ClockInv, Low
<1>5. CASE step = "low"
  <2>1. value' = hi * HALF + Low /\ split' = (split \/ hi # High) /\ step' = "first" /\ UNCHANGED <<hi, lo>> BY <1>5, Zenon DEF ReadHalves
  <2>2. ClockTypeOK' BY <1>1, <2>1, Zenon DEF ClockInv, ClockTypeOK
  <2>3. split' \/ value' = Shown(clk)'
    <3>1. CASE hi = High
      <4>1. Shown(clk)' = clk BY <1>1, <1>3, Zenon
      <4>2. value' = High * HALF + Low BY <2>1, <3>1, Zenon
      <4> QED BY <1>2, <4>1, <4>2, Zenon
    <3>2. CASE hi # High BY <3>2, <2>1, Zenon
    <3> QED BY <3>1, <3>2, Zenon
  <2>4. split => split' BY <2>1, Zenon
  <2> QED BY <1>1, <1>2, <1>3, <2>1, <2>2, <2>3, <2>4, Zenon DEF ClockInv
<1>6. CASE step = "high"
  <2>1. value' = High * HALF + lo /\ split' = (split \/ High # read_from \div HALF) /\ step' = "first" /\ UNCHANGED <<hi, lo>>
    BY <1>6, Zenon DEF ReadHalves
  <2>2. ClockTypeOK' BY <1>1, <2>1, Zenon DEF ClockInv, ClockTypeOK
  <2>3. PICK t \in read_from .. clk : lo = t % HALF BY <1>1, <1>6, Zenon DEF ClockInv
  <2>4. t \in Nat /\ read_from <= t /\ t <= clk BY <1>2, <2>3
  <2>5. High = read_from \div HALF => High * HALF + lo = t BY <1>2, <2>3, <2>4, Rejoined, Zenon DEF High
  <2>6. split' \/ value' = Shown(t)'
    <3>1. CASE High = read_from \div HALF
      <4>1. Shown(t)' = t BY <1>3, Zenon
      <4> QED BY <3>1, <4>1, <2>1, <2>5, Zenon
    <3>2. CASE High # read_from \div HALF BY <3>2, <2>1, Zenon
    <3> QED BY <3>1, <3>2, Zenon
  <2>7. split => split' BY <2>1, Zenon
  <2> QED BY <1>1, <1>3, <2>1, <2>2, <2>3, <2>6, <2>7, Zenon DEF ClockInv
<1> QED BY <1>4, <1>5, <1>6, Zenon DEF ClockInv, ClockTypeOK

\* Start, Loop and Return begin another read.
LEMMA NewReadType == ASSUME ClockInv, NewRead, UNCHANGED <<target, clk>>, call' \in {"none", call}, amount' \in {0, amount},
                            begun' \in {0, begun}
                     PROVE  ClockTypeOK'
<1>1. clk \in Nat /\ begun \in Nat /\ begun <= clk BY Clocks
<1>2. read_from' \in 0 .. clk' /\ begun' \in 0 .. read_from' BY <1>1 DEF NewRead
<1> QED BY <1>2 DEF ClockInv, ClockTypeOK, NewRead

\* The call has its first value.
LEMMA StartInv == ASSUME ClockInv, Start PROVE ClockInv'
<1>1. /\ value # NoValue /\ goal = NoGoal /\ NewRead
      /\ goal' = (IF call = "cycles" THEN value ELSE riv_now_ms(value) + amount)
      /\ UNCHANGED <<target, clk, call, amount, begun, split>>
  BY Zenon DEF Start
<1>2. ClockTypeOK' BY <1>1, NewReadType, Zenon
<1>3. \A t : Shown(t)' = Shown(t) BY <1>1, Zenon DEF Shown
<1>4. clk \in Nat /\ read_from \in Nat /\ begun \in Nat /\ begun <= read_from /\ read_from <= clk BY Clocks, Zenon
<1>5. split \/ \E t \in begun' .. read_from' : goal' = IF call = "cycles" THEN Shown(t)' ELSE riv_now_ms(t) + amount
  <2> SUFFICES ASSUME ~split PROVE \E t \in begun .. clk : goal' = IF call = "cycles" THEN Shown(t) ELSE riv_now_ms(t) + amount
    BY <1>1, <1>3, Zenon DEF NewRead
  <2>1. PICK t \in read_from .. clk : value = Shown(t) BY <1>1, Zenon DEF ClockInv
  <2>2. t \in begun .. clk BY <1>4, <2>1
  <2>3. call # "cycles" => Shown(t) = t BY Zenon DEF Shown
  <2> QED BY <1>1, <2>1, <2>2, <2>3, Zenon
<1> QED BY <1>1, <1>2, <1>5, Zenon DEF ClockInv, NewRead

\* It waits on.
LEMMA LoopInv == ASSUME ClockInv, Loop PROVE ClockInv'
<1>1. goal # NoGoal /\ NewRead /\ UNCHANGED <<target, clk, call, amount, goal, begun, split>> BY Zenon DEF Loop
<1>2. ClockTypeOK' BY <1>1, NewReadType, Zenon
<1>3. \A t : Shown(t)' = Shown(t) BY <1>1, Zenon DEF Shown
<1>4. clk \in Nat /\ read_from \in Nat /\ begun \in Nat /\ begun <= read_from /\ read_from <= clk BY Clocks, Zenon
<1>5. \A t : t \in begun .. read_from => t \in begun' .. read_from' BY <1>1, <1>4 DEF NewRead
<1> QED BY <1>1, <1>2, <1>3, <1>5, Zenon DEF ClockInv, NewRead

\* It returns.
LEMMA ReturnInv == ASSUME ClockInv, Return PROVE ClockInv'
<1>1. /\ call' = "none" /\ goal' = NoGoal /\ amount' = 0 /\ begun' = 0 /\ NewRead /\ split' = FALSE
      /\ UNCHANGED <<target, clk>>
  BY Zenon DEF Return
<1>2. ClockTypeOK' BY <1>1, NewReadType, Zenon
<1> QED BY <1>1, <1>2, Zenon DEF ClockInv, NewRead

\* What a read returned was the time at some moment of the read.
LEMMA ClockReads == ASSUME ClockInv PROVE ReadsInWindow
<1> SUFFICES ASSUME value # NoValue, target = "word64" \/ (target = "rv32" /\ call = "cycles") PROVE value \in read_from .. clk
  BY Zenon DEF ReadsInWindow
<1>1. ~split BY Zenon DEF ClockInv
<1>2. PICK t \in read_from .. clk : value = Shown(t) BY <1>1, Zenon DEF ClockInv
<1>3. Shown(t) = t BY Zenon DEF Shown
<1> QED BY <1>2, <1>3, Zenon

\* riv_now_ms rounds down: n milliseconds of its clock are more than n - 1 of time.
LEMMA Milliseconds == ASSUME NEW g \in Nat, NEW v \in Nat, NEW n \in Nat, riv_now_ms(v) >= riv_now_ms(g) + n
                      PROVE  (v - g) * 10 + TICKS_PER_MS_10 > n * TICKS_PER_MS_10
<1> DEFINE K == TICKS_PER_MS_10
           a == (v * 10) \div K
           b == (g * 10) \div K
<1>1. K \in Nat \ {0} BY ClockAssumption, Zenon
<1>2. a \in Int /\ b \in Int /\ a >= b + n BY <1>1 DEF riv_now_ms
<1>3. K * a <= v * 10
  <2>1. v * 10 \in Nat OBVIOUS
  <2> QED BY <1>1, <2>1, SMT
<1>4. g * 10 < K * b + K
  <2>1. g * 10 \in Nat OBVIOUS
  <2> QED BY <1>1, <2>1, SMT
<1> HIDE DEF a, b, K
<1>5. PICK d \in Nat : a = b + n + d
  <2>1. a - b - n \in Nat /\ a = b + n + (a - b - n) BY <1>2
  <2> QED BY <2>1, Zenon
<1>6. K * a = K * b + n * K + K * d /\ K * d >= 0 /\ K * b \in Int /\ n * K \in Int /\ K * d \in Int /\ K * a \in Int
  BY <1>1, <1>2, <1>5, SMT
<1>7. (v - g) * 10 + K > n * K BY <1>1, <1>3, <1>4, <1>6
<1> QED BY <1>7, Zenon DEF K

\* A wait or a delay that has returned was long enough.
LEMMA ClockWaits == ASSUME ClockInv PROVE WaitsLongEnough
<1> SUFFICES ASSUME value # NoValue, goal # NoGoal, Elapsed, ~split, ~(target = "arm" /\ call = "cycles" /\ value < goal)
             PROVE  IF call = "cycles" THEN clk - begun >= amount
                    ELSE (clk - begun) * 10 + TICKS_PER_MS_10 > amount * TICKS_PER_MS_10
  BY Zenon DEF WaitsLongEnough
<1>1. clk \in Nat /\ read_from \in Nat /\ begun \in Nat /\ begun <= read_from /\ read_from <= clk BY Clocks, Zenon
<1>2. PICK v \in read_from .. clk : value = Shown(v) BY Zenon DEF ClockInv
<1>3. PICK g \in begun .. read_from : goal = IF call = "cycles" THEN Shown(g) ELSE riv_now_ms(g) + amount BY Zenon DEF ClockInv
<1>4. v \in Nat /\ g \in Nat /\ begun <= g /\ g <= v /\ v <= clk BY <1>1, <1>2, <1>3
<1>5. amount \in Nat BY Zenon DEF ClockInv, ClockTypeOK
<1>6. CASE call = "cycles"
  <2>1. goal = Shown(g) /\ (value - goal) % (HALF * HALF) >= amount BY <1>3, <1>6, Zenon DEF Elapsed
  <2>2. value \in Nat /\ goal \in Nat /\ goal <= value /\ value - goal <= v - g
    <3>1. CASE target = "arm"
      <4>1. value = v % HALF /\ goal = g % HALF BY <1>2, <1>6, <2>1, <3>1, Zenon DEF Shown
      <4>2. value \in Nat /\ goal \in Nat /\ goal <= value BY <1>4, <1>6, <3>1, <4>1, Halves
      <4>3. /\ v = HALF * (v \div HALF) + value /\ g = HALF * (g \div HALF) + goal
            /\ v \div HALF \in Nat /\ g \div HALF \in Nat /\ g \div HALF <= v \div HALF
        BY <1>4, <4>1, Halves, HighGrows, Zenon
      <4> DEFINE a == g \div HALF
                 b == v \div HALF
      <4> HIDE DEF a, b
      <4>4. PICK d \in Nat : b = a + d
        <5>1. b - a \in Nat /\ b = a + (b - a) BY <4>3 DEF a, b
        <5> QED BY <5>1, Zenon
      <4>5. HALF \in Nat BY ClockAssumption, Zenon
      <4>6. a \in Nat /\ b \in Nat BY <4>3, Zenon DEF a, b
      <4>7. HALF * b = HALF * a + HALF * d /\ HALF * d >= 0 /\ HALF * a \in Nat /\ HALF * d \in Nat BY <4>4, <4>5, <4>6, SMT
      <4>8. v = HALF * b + value /\ g = HALF * a + goal BY <4>3, Zenon DEF a, b
      <4> QED BY <1>4, <4>2, <4>7, <4>8
    <3>2. CASE target # "arm"
      <4>1. value = v /\ goal = g BY <1>2, <2>1, <3>2, Zenon DEF Shown
      <4> QED BY <1>4, <4>1
    <3> QED BY <3>1, <3>2, Zenon
  <2>3. (value - goal) % (HALF * HALF) = value - goal
    <3>1. HALF * HALF \in Nat /\ CLK_MAX \in Nat /\ CLK_MAX < HALF * HALF /\ clk <= CLK_MAX
      <4>1. HALF * HALF \in Nat BY ClockAssumption, SMT
      <4>2. CLK_MAX \in 0 .. HALF * HALF - 1 BY ClockAssumption, Zenon
      <4>3. clk \in 0 .. CLK_MAX BY Zenon DEF ClockInv, ClockTypeOK
      <4> QED BY <4>1, <4>2, <4>3
    <3>2. PICK M \in Nat : M = HALF * HALF BY <3>1, Zenon
    <3>3. value - goal \in 0 .. M - 1
      <4>1. CLK_MAX \in Nat /\ CLK_MAX < M /\ clk \in Nat /\ clk <= CLK_MAX BY <1>1, <3>1, <3>2, Zenon
      <4>2. clk < M BY <4>1
      <4>3. value - goal \in Nat /\ value - goal <= clk BY <1>1, <1>4, <2>2
      <4> QED BY <1>1, <4>2, <4>3
    <3>4. (value - goal) % M = value - goal BY <3>2, <3>3
    <3> QED BY <3>2, <3>4, Zenon
  <2>4. clk - begun >= value - goal BY <1>1, <1>4, <2>2
  <2>5. clk - begun >= amount BY <1>1, <1>5, <2>1, <2>2, <2>3, <2>4
  <2> QED BY <1>6, <2>5, Zenon
<1>7. CASE call # "cycles"
  <2>1. value = v /\ goal = riv_now_ms(g) + amount /\ riv_now_ms(value) >= goal BY <1>2, <1>3, <1>7, Zenon DEF Shown, Elapsed
  <2>2. (v - g) * 10 + TICKS_PER_MS_10 > amount * TICKS_PER_MS_10 BY <1>4, <1>5, <2>1, Milliseconds, Zenon
  <2>3. (clk - begun) * 10 >= (v - g) * 10 /\ (clk - begun) * 10 \in Int /\ (v - g) * 10 \in Int BY <1>1, <1>4
  <2>4. TICKS_PER_MS_10 \in Nat /\ amount * TICKS_PER_MS_10 \in Int BY <1>5, ClockAssumption
  <2>5. (clk - begun) * 10 + TICKS_PER_MS_10 > amount * TICKS_PER_MS_10 BY <2>2, <2>3, <2>4
  <2> QED BY <1>7, <2>5, Zenon
<1> QED BY <1>6, <1>7, Zenon

\* The super loop of task.h and the clock of time.h, for any tasks, any width of
\* their counters and any interleaving with the interrupts that count: a task runs
\* once in its period, and reads, waits and delays agree with the time that passes.
THEOREM TimeIsKept ==
    ASSUME NEW CONSTANT targets, targets \subseteq {"word64", "rv32", "arm"}
    PROVE  TimingSpec(targets) => []TimeKept
<1> DEFINE Inv == TaskInv /\ ClockInv
           Step == (TaskNext /\ UNCHANGED clock_vars) \/ (ClockNext /\ UNCHANGED task_vars)
<1>1. riv_sched_init /\ ClockInit(targets) => Inv BY TaskInitInv, ClockInitInv, Zenon
<1>2. Inv /\ [Step]_<<task_vars, clock_vars>> => Inv'
  <2>1. TaskInv /\ TaskNext => TaskInv' BY TickInv, RunBeginInv, TaskSkipInv, TaskRunInv, Zenon DEF TaskNext
  <2>2. TaskInv /\ UNCHANGED task_vars => TaskInv' BY Zenon DEF TaskInv, task_vars
  <2>3. ClockInv /\ ClockNext => ClockInv'
    BY ClockTickInv, CallInv, ReadWholeInv, ReadRv32Inv, ReadHalvesInv, StartInv, LoopInv, ReturnInv, Zenon DEF ClockNext
  <2>4. ClockInv /\ UNCHANGED clock_vars => ClockInv' BY DEF ClockInv, ClockTypeOK, Shown, clock_vars
  <2> QED BY <2>1, <2>2, <2>3, <2>4, Zenon
<1>3. Inv => TimeKept BY TaskOnTime, ClockReads, ClockWaits, Zenon DEF TimeKept, ReadsAndWaits
<1> QED BY <1>1, <1>2, <1>3, PTL DEF TimingSpec

-----------------------------------------------------------------------------
(* The line discipline.                                                    *)

Typed == TtyChars \cup {"newline"}

TtyInv ==
    /\ line \in Seq(Typed) /\ screen \in Seq(Typed) /\ tty_ring \in Seq(Typed) /\ expected \in Seq(Typed)
    /\ mixed \in BOOLEAN
    /\ ReadAsShown

\* The lesser of two numbers.
LEMMA LesserOfTwo ==
    ASSUME NEW a \in Int, NEW b \in Int
    PROVE  Min({a, b}) = IF a <= b THEN a ELSE b
<1> DEFINE m == IF a <= b THEN a ELSE b
<1>1. m \in {a, b} /\ \A y \in {a, b} : m <= y OBVIOUS
<1>2. \A x \in {a, b} : (\A y \in {a, b} : x <= y) => x = m OBVIOUS
<1> QED BY <1>1, <1>2, Zenon DEF Min

\* What is cut out of a sequence is a sequence, and the whole when nothing is cut.
LEMMA Cut ==
    ASSUME NEW S, NEW s \in Seq(S), NEW a \in Nat, NEW b \in Nat, a >= 1,
           b <= Len(s)
    PROVE  SubSeq(s, a, b) \in Seq(S)
OBVIOUS

\* What there is room for of a sequence is a sequence.
LEMMA Pushed == ASSUME TtyInv, NEW new \in Seq(Typed), PushAll(new) PROVE tty_ring' \in Seq(Typed)
<1>1. PICK n \in Nat : n = Len(tty_ring) + Len(new) BY DEF TtyInv
<1>2. PICK all \in Seq(Typed) : all = tty_ring \o new /\ Len(all) = n
  <2>1. tty_ring \in Seq(Typed) BY Zenon DEF TtyInv
  <2>2. tty_ring \o new \in Seq(Typed) /\ Len(tty_ring \o new) = n BY <1>1, <2>1
  <2> QED BY <2>2, Zenon
<1>3. Min({RING_ROOM, n}) = IF RING_ROOM <= n THEN RING_ROOM ELSE n BY LesserOfTwo, TtyAssumption
<1>4. PICK k \in Nat : k = Min({RING_ROOM, n}) /\ k <= Len(all) BY <1>2, <1>3, TtyAssumption
<1>5. SubSeq(all, 1, k) \in Seq(Typed)
  <2>1. 1 \in Nat /\ 1 >= 1 OBVIOUS
  <2> QED BY <1>4, <2>1, Cut, Zenon
<1>6. tty_ring' = SubSeq(all, 1, k) BY <1>1, <1>2, <1>4, Zenon DEF PushAll
<1> QED BY <1>5, <1>6, Zenon

\* The reader is owed what is pushed.
LEMMA Owed == ASSUME tty_ring = expected, NEW new, PushAll(new), Owe(new) PROVE tty_ring' = expected'
BY Zenon DEF PushAll, Owe

\* riv_tty_init.
LEMMA TtyInitInv == ASSUME NEW modes, riv_tty_init(modes) PROVE TtyInv
<1>1. <<>> \in Seq(Typed) OBVIOUS
<1>2. ReadAsShown BY Zenon DEF riv_tty_init, ReadAsShown, ScreenShowsLine, ReaderGetsLines
<1> QED BY <1>1, <1>2, Zenon DEF riv_tty_init, TtyInv

\* Every step of the terminal.
LEMMA TtyStep == ASSUME TtyInv, TtyNext PROVE TtyInv'
<1> USE DEF TtyInv, ReadAsShown, ScreenShowsLine, ReaderGetsLines
<1>2. tty_ring = expected BY Zenon
<1>3. ASSUME NEW c \in TtyChars, PushRaw(c) PROVE TtyInv'
  <2>1. <<c>> \in Seq(Typed) BY DEF Typed
  <2>2. PushAll(<<c>>) /\ Owe(<<c>>) /\ UNCHANGED <<tty_mode, line, screen, mixed>> BY <1>3, Zenon DEF PushRaw
  <2>3. tty_ring' \in Seq(Typed) BY <2>1, <2>2, Pushed, Zenon
  <2>4. tty_ring' = expected' BY <1>2, <2>2, Owed, Zenon
  <2> QED BY <2>2, <2>3, <2>4, Zenon
<1>4. ASSUME NEW c \in TtyChars, PushChar(c) PROVE TtyInv'
  <2>1. Append(line, c) \in Seq(Typed) /\ Append(screen, c) \in Seq(Typed) BY DEF Typed
  <2> QED BY <1>4, <2>1, Zenon DEF PushChar
<1>5. ASSUME NEW c \in TtyChars, riv_tty_write(c) PROVE TtyInv'
  <2>1. Append(screen, c) \in Seq(Typed) BY DEF Typed
  <2> QED BY <1>5, <2>1, Zenon DEF riv_tty_write
<1>6. CASE PushErase
  <2>1. SubSeq(line, 1, Len(line) - 1) \in Seq(Typed) /\ (screen # <<>> => SubSeq(screen, 1, Len(screen) - 1) \in Seq(Typed))
    <3>1. line # <<>> BY <1>6, Zenon DEF PushErase
    <3>2. Len(line) - 1 \in Nat /\ (screen # <<>> => Len(screen) - 1 \in Nat) BY <3>1
    <3>3. Len(line) - 1 <= Len(line) /\ Len(screen) - 1 <= Len(screen) OBVIOUS
    <3> QED BY <3>2, <3>3, Cut
  <2> QED BY <1>6, <2>1, Zenon DEF PushErase
<1>7. CASE PushEnter
  <2>1. PICK new : new = Append(line, "newline") BY Zenon
  <2>2. PICK shown : shown = Append(IF mixed THEN line ELSE screen, "newline") BY Zenon
  <2>3. new \in Seq(Typed) BY <2>1, <2>2 DEF Typed
  <2>4. new = shown
    <3>1. tty_mode = "cooked" BY <1>7, Zenon DEF PushEnter
    <3> QED BY <2>1, <2>2, <3>1, Zenon
  <2>5. PushAll(new) /\ line' = <<>> /\ screen' = <<>> /\ mixed' = FALSE /\ Owe(shown) /\ UNCHANGED tty_mode
    BY <1>7, <2>1, <2>2, Zenon DEF PushEnter
  <2>6. tty_ring' \in Seq(Typed) BY <2>3, <2>5, Pushed, Zenon
  <2>7. line' \in Seq(Typed) /\ screen' \in Seq(Typed) /\ screen' = line' BY <2>5
  <2>8. tty_ring' = expected' BY <1>2, <2>4, <2>5, Owed, Zenon
  <2>9. mixed' \in BOOLEAN BY <2>5, Zenon
  <2> QED BY <2>6, <2>7, <2>8, <2>9, Zenon
<1>8. ASSUME NEW n \in 1 .. RING_ROOM, riv_tty_read(n) PROVE TtyInv'
  <2>1. PICK k : k = Min({n, Len(tty_ring)}) BY Zenon
  <2>2. k \in Nat /\ k <= Len(tty_ring)
    <3>1. n \in Int /\ Len(tty_ring) \in Int /\ n >= 1 /\ Len(tty_ring) >= 0 BY TtyAssumption
    <3>2. k = IF n <= Len(tty_ring) THEN n ELSE Len(tty_ring) BY <2>1, <3>1, LesserOfTwo, Zenon
    <3> QED BY <3>1, <3>2
  <2>3. /\ tty_ring' = SubSeq(tty_ring, k + 1, Len(tty_ring)) /\ expected' = SubSeq(expected, k + 1, Len(expected))
        /\ UNCHANGED <<tty_mode, line, screen, mixed>>
    BY <1>8, <2>1, Zenon DEF riv_tty_read
  <2>4. tty_ring' \in Seq(Typed) /\ expected' = tty_ring' BY <1>2, <2>2, <2>3, Cut
  <2> QED BY <2>3, <2>4, Zenon
<1> QED BY <1>3, <1>4, <1>5, <1>6, <1>7, <1>8, Zenon DEF TtyNext, riv_tty_push
-----------------------------------------------------------------------------
(* The keyboard.  A run of a sequence of bytes is what the driver's state  *)
(* goes through when it polls them.                                        *)

Names == {"shift", "ctrl", "alt", "capslock"}
Mods == SUBSET Names

ModsOf(s) == {f \in Names : s[f]}

CodesOf(f) == IF f = "shift" THEN {42, 54} ELSE IF f = "ctrl" THEN {29} ELSE IF f = "alt" THEN {56} ELSE {58}
CodeOf(sc) == IF sc >= Release THEN sc - Release ELSE sc

ModsAfter(m, sc) ==
    {f \in Names : IF CodeOf(sc) \notin CodesOf(f) THEN f \in m
                   ELSE IF f = "capslock" THEN ~(f \in m <=> sc < Release)
                   ELSE sc < Release}

\* The characters of the keys in use.
Chars == {"none", "1", "!", "a", "A", "ctrl-a", "/", "?", " "}

\* Boolean inequality.
LEMMA Differ == \A a, b \in BOOLEAN : (a # b) <=> ~(a <=> b)
<1> SUFFICES ASSUME NEW a \in BOOLEAN, NEW b \in BOOLEAN PROVE (a # b) <=> ~(a <=> b) BY Zenon
<1>1. CASE a = TRUE /\ b = TRUE BY <1>1, Zenon
<1>2. CASE a = TRUE /\ b = FALSE BY <1>2, Zenon
<1>3. CASE a = FALSE /\ b = TRUE BY <1>3, Zenon
<1>4. CASE a = FALSE /\ b = FALSE BY <1>4, Zenon
<1> QED BY <1>1, <1>2, <1>3, <1>4, Zenon

\* What a poll of sc gives under the modifiers m.
Printed(m, code) ==
    LET c == (IF "shift" \in m <=> "capslock" \in m THEN riv_kbd_map_lo ELSE riv_kbd_map_hi)[code + 1]
    IN  IF "ctrl" \in m /\ c = "a" THEN "ctrl-a" ELSE c
CharOf(m, sc) ==
    IF sc = E0 \/ CodeOf(sc) \in {42, 54, 29, 56, 58} \/ sc >= Release \/ CodeOf(sc) >= Len(riv_kbd_map_lo)
    THEN "none" ELSE Printed(m, CodeOf(sc))

\* From the modifiers m the bytes b lead to last and, unless freed, to the characters mean.
Runs(b, m, last, mean, freed) ==
    \E run \in [0 .. Len(b) -> Mods] :
        /\ run[0] = m /\ run[Len(b)] = last
        /\ \A i \in 1 .. Len(b) : /\ run[i] = ModsAfter(run[i - 1], b[i])
                                  /\ freed \/ mean[i] = CharOf(run[i - 1], b[i])

\* The modifiers of the keys that are down.
Held(m) ==
    /\ ~pair => /\ "shift" \in m <=> down \cap {"shift_l", "shift_r"} # {}
                /\ "ctrl" \in m <=> down \cap {"ctrl_l", "ctrl_r"} # {}
                /\ "alt" \in m <=> "alt" \in down
    /\ "capslock" \in m <=> locked

KbdInv ==
    /\ bytes \in Seq(Nat) /\ locked \in BOOLEAN /\ pair \in BOOLEAN
    /\ meant \in Seq(Chars) /\ Len(meant) = Len(bytes)
    /\ st \in [shift : BOOLEAN, ctrl : BOOLEAN, alt : BOOLEAN, capslock : BOOLEAN, ext : BOOLEAN]
    /\ ~pair => ~({"shift_l", "shift_r"} \subseteq down) /\ ~({"ctrl_l", "ctrl_r"} \subseteq down)
    /\ \E last \in Mods : Runs(bytes, ModsOf(st), last, meant, pair) /\ Held(last)
    /\ CharactersTyped

\* A byte leads to modifiers.
LEMMA AfterType == ASSUME NEW m, NEW sc PROVE ModsAfter(m, sc) \in Mods
BY Zenon DEF ModsAfter, Mods

\* No bytes change nothing,
LEMMA RunNone == ASSUME NEW m \in Mods, NEW freed \in BOOLEAN PROVE Runs(<<>>, m, m, <<>>, freed)
<1> DEFINE run == [i \in 0 .. 0 |-> m]
<1>1. run \in [0 .. Len(<<>>) -> Mods] /\ run[0] = m /\ Len(<<>>) = 0 /\ 1 .. Len(<<>>) = {} OBVIOUS
<1>2. run[Len(<<>>)] = m BY <1>1
<1> HIDE DEF run
<1> QED BY <1>1, <1>2, Zenon DEF Runs

\* and lead nowhere else.
LEMMA RunNoneIs == ASSUME NEW m, NEW last, NEW mean, NEW freed, Runs(<<>>, m, last, mean, freed) PROVE last = m
BY Zenon DEF Runs

\* What nothing is asked of can be freed.
LEMMA RunFreed == ASSUME NEW b, NEW m, NEW last, NEW mean, NEW f \in BOOLEAN, NEW g \in BOOLEAN, f => g, Runs(b, m, last, mean, f)
                  PROVE  Runs(b, m, last, mean, g)
BY Zenon DEF Runs

\* One more byte behind a run.
LEMMA RunOneMore ==
    ASSUME NEW b \in Seq(Nat), NEW m, NEW last \in Mods, NEW sc \in Nat, NEW mean \in Seq(Chars), Len(mean) = Len(b),
           NEW c \in Chars, NEW freed \in BOOLEAN, freed \/ c = CharOf(last, sc), Runs(b, m, last, mean, freed)
    PROVE  Runs(Append(b, sc), m, ModsAfter(last, sc), Append(mean, c), freed)
<1>1. PICK run \in [0 .. Len(b) -> Mods] :
        /\ run[0] = m /\ run[Len(b)] = last
        /\ \A i \in 1 .. Len(b) : /\ run[i] = ModsAfter(run[i - 1], b[i])
                                  /\ freed \/ mean[i] = CharOf(run[i - 1], b[i])
  BY Zenon DEF Runs
<1> DEFINE bb == Append(b, sc)
           mm == Append(mean, c)
           more == [i \in 0 .. Len(b) + 1 |-> IF i = Len(b) + 1 THEN ModsAfter(last, sc) ELSE run[i]]
<1>2. Len(b) \in Nat /\ Len(bb) = Len(b) + 1 /\ bb[Len(b) + 1] = sc /\ \A i \in 1 .. Len(b) : bb[i] = b[i] OBVIOUS
<1>3. mm[Len(b) + 1] = c /\ \A i \in 1 .. Len(b) : mm[i] = mean[i] OBVIOUS
<1>4. more \in [0 .. Len(bb) -> Mods] BY <1>2, AfterType
<1>5. more[0] = m /\ more[Len(bb)] = ModsAfter(last, sc) BY <1>1, <1>2
<1>6. ASSUME NEW i \in 1 .. Len(bb)
      PROVE  more[i] = ModsAfter(more[i - 1], bb[i]) /\ (freed \/ mm[i] = CharOf(more[i - 1], bb[i]))
  <2>1. CASE i = Len(b) + 1
    <3>1. more[i] = ModsAfter(last, sc) /\ more[i - 1] = last BY <1>1, <1>2, <2>1
    <3> HIDE DEF more, mm, bb
    <3> QED BY <1>2, <1>3, <2>1, <3>1, Zenon
  <2>2. CASE i # Len(b) + 1
    <3>1. i \in 1 .. Len(b) /\ i - 1 \in 0 .. Len(b) + 1 /\ i - 1 # Len(b) + 1 /\ i \in 0 .. Len(b) + 1 BY <1>2, <2>2
    <3>2. more[i] = run[i] /\ more[i - 1] = run[i - 1] BY <2>2, <3>1, Zenon
    <3>3. bb[i] = b[i] /\ mm[i] = mean[i] BY <1>2, <1>3, <3>1, Zenon
    <3> HIDE DEF more, mm, bb
    <3> QED BY <1>1, <3>1, <3>2, <3>3, Zenon
  <2> QED BY <2>1, <2>2, Zenon
<1> HIDE DEF more, bb, mm
<1>7. Runs(bb, m, ModsAfter(last, sc), mm, freed) BY <1>4, <1>5, <1>6, Zenon DEF Runs
<1> QED BY <1>7, Zenon DEF bb, mm

\* The first byte of a run.
LEMMA RunOneLess ==
    ASSUME NEW b \in Seq(Nat), b # <<>>, NEW m, NEW last, NEW mean \in Seq(Chars), Len(mean) = Len(b),
           NEW freed \in BOOLEAN, Runs(b, m, last, mean, freed)
    PROVE  /\ Runs(Tail(b), ModsAfter(m, Head(b)), last, Tail(mean), freed)
           /\ freed \/ Head(mean) = CharOf(m, Head(b))
<1>1. PICK run \in [0 .. Len(b) -> Mods] :
        /\ run[0] = m /\ run[Len(b)] = last
        /\ \A i \in 1 .. Len(b) : /\ run[i] = ModsAfter(run[i - 1], b[i])
                                  /\ freed \/ mean[i] = CharOf(run[i - 1], b[i])
  BY Zenon DEF Runs
<1> DEFINE bb == Tail(b)
           mm == Tail(mean)
           less == [i \in 0 .. Len(b) - 1 |-> run[i + 1]]
<1>2. Len(b) \in Nat \ {0} /\ Len(bb) = Len(b) - 1 /\ Head(b) = b[1] /\ \A i \in 1 .. Len(b) - 1 : bb[i] = b[i + 1] OBVIOUS
<1>3. Head(mean) = mean[1] /\ \A i \in 1 .. Len(b) - 1 : mm[i] = mean[i + 1] BY <1>2
<1>4. less \in [0 .. Len(bb) -> Mods] BY <1>2
<1>5. 1 \in 1 .. Len(b) /\ 1 - 1 = 0 BY <1>2
<1>6. less[0] = ModsAfter(m, Head(b)) /\ less[Len(bb)] = last
  <2>1. less[0] = run[1] /\ less[Len(bb)] = run[Len(b)] BY <1>2
  <2> HIDE DEF less, bb
  <2> QED BY <1>1, <1>2, <1>5, <2>1, Zenon
<1>7. freed \/ Head(mean) = CharOf(m, Head(b)) BY <1>1, <1>2, <1>3, <1>5, Zenon
<1>8. ASSUME NEW i \in 1 .. Len(bb)
      PROVE  less[i] = ModsAfter(less[i - 1], bb[i]) /\ (freed \/ mm[i] = CharOf(less[i - 1], bb[i]))
  <2>1. i + 1 \in 1 .. Len(b) /\ i \in 0 .. Len(b) - 1 /\ i - 1 \in 0 .. Len(b) - 1 /\ (i + 1) - 1 = i /\ (i - 1) + 1 = i BY <1>2
  <2>2. less[i] = run[i + 1] /\ less[i - 1] = run[i] BY <2>1, Zenon
  <2>3. bb[i] = b[i + 1] /\ mm[i] = mean[i + 1] BY <1>2, <1>3, Zenon
  <2>4. run[i + 1] = ModsAfter(run[(i + 1) - 1], b[i + 1]) /\ (freed \/ mean[i + 1] = CharOf(run[(i + 1) - 1], b[i + 1]))
    BY <1>1, <2>1, Zenon
  <2> HIDE DEF less, bb, mm
  <2> QED BY <2>1, <2>2, <2>3, <2>4, Zenon
<1> HIDE DEF less, bb, mm
<1>9. Runs(bb, ModsAfter(m, Head(b)), last, mm, freed) BY <1>4, <1>6, <1>8, Zenon DEF Runs
<1> QED BY <1>7, <1>9, Zenon DEF bb, mm

\* The driver's state after a poll.
LEMMA PollMods == ASSUME KbdInv, riv_kbd_poll
                  PROVE  /\ st' \in [shift : BOOLEAN, ctrl : BOOLEAN, alt : BOOLEAN, capslock : BOOLEAN, ext : BOOLEAN]
                         /\ ModsOf(st') = ModsAfter(ModsOf(st), Head(bytes))
<1> DEFINE sc == Head(bytes)
           code == CodeOf(sc)
<1>1. sc \in Nat BY DEF KbdInv, riv_kbd_poll
<1>2. {Key[k] : k \in {"shift_l", "shift_r", "ctrl_l", "alt", "caps"}} = {42, 54, 29, 56, 58} BY DEF Key
<1>3. Key.shift_l = 42 /\ Key.shift_r = 54 /\ Key.ctrl_l = 29 /\ Key.alt = 56 /\ Key.caps = 58 BY Zenon DEF Key
<1>4. st \in [shift : BOOLEAN, ctrl : BOOLEAN, alt : BOOLEAN, capslock : BOOLEAN, ext : BOOLEAN] BY Zenon DEF KbdInv
<1>5. \A f \in Names : st[f] \in BOOLEAN BY <1>4, Zenon DEF Names
<1>6. CASE sc = E0
  <2>1. st' = [st EXCEPT !.ext = TRUE] BY <1>6, Zenon DEF riv_kbd_poll
  <2>2. code = 96 BY <1>6 DEF CodeOf, E0, Release
  <2>3. \A f \in Names : st'[f] = st[f] BY <1>4, <2>1, Zenon DEF Names
  <2>4. \A f \in Names : code \notin CodesOf(f) BY <2>2 DEF CodesOf
  <2> QED BY <1>4, <2>1, <2>3, <2>4, Zenon DEF ModsOf, ModsAfter
<1>7. CASE sc # E0 /\ code \in {42, 54, 29, 56, 58}
  <2>1. st' = Modifier(code, sc >= Release) BY <1>2, <1>7, Zenon DEF riv_kbd_poll, CodeOf
  <2>2. PICK b \in BOOLEAN : st' = Modifier(code, b) /\ (sc < Release <=> ~b)
    <3>1. CASE sc >= Release
      <4>1. (sc >= Release) = TRUE /\ ~(sc < Release) BY <1>1, <3>1 DEF Release
      <4>2. st' = Modifier(code, TRUE) BY <2>1, <4>1, Zenon
      <4> QED BY <4>1, <4>2, Zenon
    <3>2. CASE ~(sc >= Release)
      <4>1. (sc >= Release) = FALSE /\ sc < Release BY <1>1, <3>2 DEF Release
      <4>2. st' = Modifier(code, FALSE) BY <2>1, <4>1, Zenon
      <4> QED BY <4>1, <4>2, Zenon
    <3> QED BY <3>1, <3>2, Zenon
  <2>3. CASE code \in {42, 54}
    <3>1. st' = [st EXCEPT !.shift = ~b] BY <1>3, <2>2, <2>3 DEF Modifier
    <3>2. st' \in [shift : BOOLEAN, ctrl : BOOLEAN, alt : BOOLEAN, capslock : BOOLEAN, ext : BOOLEAN] BY <1>4, <3>1, Zenon
    <3>3. (st'.shift <=> ~b) /\ UNCHANGED <<st.ctrl, st.alt, st.capslock>> BY <1>4, <3>1, Zenon
    <3>4. code \in CodesOf("shift") /\ \A g \in Names \ {"shift"} : code \notin CodesOf(g) BY <2>3 DEF CodesOf, Names
    <3>5. \A g \in Names : st'[g] <=> g \in ModsAfter(ModsOf(st), sc) BY <2>2, <3>3, <3>4, Zenon DEF ModsOf, ModsAfter, Names
    <3> QED BY <3>2, <3>5, Zenon DEF ModsOf, ModsAfter
  <2>4. CASE code = 29
    <3>1. st' = [st EXCEPT !.ctrl = ~b] BY <1>3, <2>2, <2>4 DEF Modifier
    <3>2. st' \in [shift : BOOLEAN, ctrl : BOOLEAN, alt : BOOLEAN, capslock : BOOLEAN, ext : BOOLEAN] BY <1>4, <3>1, Zenon
    <3>3. (st'.ctrl <=> ~b) /\ UNCHANGED <<st.shift, st.alt, st.capslock>> BY <1>4, <3>1, Zenon
    <3>4. code \in CodesOf("ctrl") /\ \A g \in Names \ {"ctrl"} : code \notin CodesOf(g) BY <2>4 DEF CodesOf, Names
    <3>5. \A g \in Names : st'[g] <=> g \in ModsAfter(ModsOf(st), sc) BY <2>2, <3>3, <3>4, Zenon DEF ModsOf, ModsAfter, Names
    <3> QED BY <3>2, <3>5, Zenon DEF ModsOf, ModsAfter
  <2>5. CASE code = 56
    <3>1. st' = [st EXCEPT !.alt = ~b] BY <1>3, <2>2, <2>5 DEF Modifier
    <3>2. st' \in [shift : BOOLEAN, ctrl : BOOLEAN, alt : BOOLEAN, capslock : BOOLEAN, ext : BOOLEAN] BY <1>4, <3>1, Zenon
    <3>3. (st'.alt <=> ~b) /\ UNCHANGED <<st.shift, st.ctrl, st.capslock>> BY <1>4, <3>1, Zenon
    <3>4. code \in CodesOf("alt") /\ \A g \in Names \ {"alt"} : code \notin CodesOf(g) BY <2>5 DEF CodesOf, Names
    <3>5. \A g \in Names : st'[g] <=> g \in ModsAfter(ModsOf(st), sc) BY <2>2, <3>3, <3>4, Zenon DEF ModsOf, ModsAfter, Names
    <3> QED BY <3>2, <3>5, Zenon DEF ModsOf, ModsAfter
  <2>6. CASE code = 58
    <3>1. st' = [st EXCEPT !.capslock = (@ # ~b)] BY <1>3, <2>2, <2>6 DEF Modifier
    <3>2. st' \in [shift : BOOLEAN, ctrl : BOOLEAN, alt : BOOLEAN, capslock : BOOLEAN, ext : BOOLEAN] BY <1>4, <3>1, Zenon
    <3>3. (st'.capslock <=> ~(st.capslock <=> ~b)) /\ UNCHANGED <<st.shift, st.ctrl, st.alt>> BY <1>4, <3>1, Zenon
    <3>4. code \in CodesOf("capslock") /\ \A g \in Names \ {"capslock"} : code \notin CodesOf(g) BY <2>6 DEF CodesOf, Names
    <3>5. \A g \in Names : st'[g] <=> g \in ModsAfter(ModsOf(st), sc) BY <2>2, <3>3, <3>4, Zenon DEF ModsOf, ModsAfter, Names
    <3> QED BY <3>2, <3>5, Zenon DEF ModsOf, ModsAfter
  <2> QED BY <1>7, <2>3, <2>4, <2>5, <2>6, Zenon
<1>8. CASE sc # E0 /\ code \notin {42, 54, 29, 56, 58}
  <2>1. st' = [st EXCEPT !.ext = FALSE] BY <1>2, <1>8, Zenon DEF riv_kbd_poll, CodeOf
  <2>2. \A f \in Names : st'[f] = st[f] BY <1>4, <2>1, Zenon DEF Names
  <2>3. \A f \in Names : code \notin CodesOf(f) BY <1>8, Zenon DEF CodesOf
  <2> QED BY <1>4, <2>1, <2>2, <2>3, Zenon DEF ModsOf, ModsAfter
<1> QED BY <1>6, <1>7, <1>8, Zenon

\* The character of a poll.
LEMMA PollChar == ASSUME KbdInv, riv_kbd_poll PROVE got' = CharOf(ModsOf(st), Head(bytes))
<1>1. PICK sc \in Nat : sc = Head(bytes) BY DEF KbdInv, riv_kbd_poll
<1>2. PICK code : code = CodeOf(sc) BY Zenon
<1>3. {Key[k] : k \in {"shift_l", "shift_r", "ctrl_l", "alt", "caps"}} = {42, 54, 29, 56, 58} BY DEF Key
<1>4. got' = IF sc = E0 \/ code \in {42, 54, 29, 56, 58} \/ sc >= Release \/ code >= Len(riv_kbd_map_lo)
             THEN "none" ELSE Character(code)
  BY <1>1, <1>2, <1>3, Zenon DEF riv_kbd_poll, CodeOf
<1>5. Character(code) = Printed(ModsOf(st), code)
  <2>1. st.shift \in BOOLEAN /\ st.ctrl \in BOOLEAN /\ st.capslock \in BOOLEAN BY Zenon DEF KbdInv
  <2>2. ("shift" \in ModsOf(st) <=> st.shift) /\ ("capslock" \in ModsOf(st) <=> st.capslock) /\ ("ctrl" \in ModsOf(st) <=> st.ctrl)
    BY Zenon DEF ModsOf, Names
  <2>3. (st.shift # st.capslock) <=> ~("shift" \in ModsOf(st) <=> "capslock" \in ModsOf(st)) BY <2>1, <2>2, Differ, Zenon
  <2> QED BY <2>2, <2>3, Zenon DEF Character, Printed
<1> QED BY <1>1, <1>2, <1>4, <1>5, Zenon DEF CharOf

\* riv_kbd_poll.
LEMMA PollInv == ASSUME KbdInv, riv_kbd_poll PROVE KbdInv'
<1>1. /\ bytes # <<>> /\ bytes' = Tail(bytes) /\ UNCHANGED <<down, locked, pair>>
      /\ meant' = Tail(meant) /\ want' = Head(meant)
  BY Zenon DEF riv_kbd_poll
<1>2. bytes \in Seq(Nat) /\ meant \in Seq(Chars) /\ Len(meant) = Len(bytes) /\ pair \in BOOLEAN BY Zenon DEF KbdInv
<1>3. bytes' \in Seq(Nat) /\ meant' \in Seq(Chars) /\ Len(meant') = Len(bytes') BY <1>1, <1>2
<1>4. PICK last \in Mods : Runs(bytes, ModsOf(st), last, meant, pair) /\ Held(last) BY Zenon DEF KbdInv
<1>5. /\ Runs(bytes', ModsOf(st'), last, meant', pair')
      /\ pair \/ Head(meant) = CharOf(ModsOf(st), Head(bytes))
  <2>1. /\ Runs(Tail(bytes), ModsAfter(ModsOf(st), Head(bytes)), last, Tail(meant), pair)
        /\ pair \/ Head(meant) = CharOf(ModsOf(st), Head(bytes))
    <3>1. PICK m : m = ModsOf(st) BY Zenon
    <3>2. bytes # <<>> /\ Runs(bytes, m, last, meant, pair) BY <1>1, <1>4, <3>1, Zenon
    <3>3. Runs(Tail(bytes), ModsAfter(m, Head(bytes)), last, Tail(meant), pair) /\ (pair \/ Head(meant) = CharOf(m, Head(bytes)))
      <4>1. PICK b \in Seq(Nat) : b = bytes BY <1>2, Zenon
      <4>2. PICK mean \in Seq(Chars) : mean = meant BY <1>2, Zenon
      <4>3. PICK freed \in BOOLEAN : freed = pair BY <1>2, Zenon
      <4>4. b # <<>> /\ Len(mean) = Len(b) /\ Runs(b, m, last, mean, freed) BY <1>2, <3>2, <4>1, <4>2, <4>3, Zenon
      <4>5. /\ Runs(Tail(b), ModsAfter(m, Head(b)), last, Tail(mean), freed)
            /\ freed \/ Head(mean) = CharOf(m, Head(b))
        <5>1. b # <<>> BY <4>4, Zenon
        <5>2. Len(mean) = Len(b) BY <4>4, Zenon
        <5>3. Runs(b, m, last, mean, freed) BY <4>4, Zenon
        <5> HIDE <4>4
        <5> QED BY <5>1, <5>2, <5>3, RunOneLess, SMT
      <4> QED BY <4>1, <4>2, <4>3, <4>5, Zenon
    <3> QED BY <3>1, <3>3, Zenon
  <2>2. ModsOf(st') = ModsAfter(ModsOf(st), Head(bytes)) BY PollMods, Zenon
  <2>3. pair' = pair BY <1>1, Zenon
  <2> QED BY <1>1, <2>1, <2>2, <2>3, Zenon
<1>6. Held(last)' BY <1>1, <1>4, Zenon DEF Held
<1>7. CharactersTyped' BY <1>1, <1>5, PollChar, Zenon DEF CharactersTyped
<1> QED BY <1>1, <1>3, <1>5, <1>6, <1>7, PollMods, Zenon DEF KbdInv

\* The legends, one by one.
LEMMA Legends ==
    /\ Legend.digit[1] = "1" /\ Legend.digit[2] = "!" /\ Legend.letter[1] = "a" /\ Legend.letter[2] = "A"
    /\ Legend.slash[1] = "/" /\ Legend.slash[2] = "?" /\ Legend.space[1] = " " /\ Legend.space[2] = " "
<1>1. \A p, x, y : p = <<x, y>> => p[1] = x /\ p[2] = y OBVIOUS
<1>2. Legend.digit[1] = "1" /\ Legend.digit[2] = "!"
  <2>1. Legend.digit = <<"1", "!">> BY Zenon DEF Legend
  <2> QED BY <1>1, <2>1, Zenon
<1>3. Legend.letter[1] = "a" /\ Legend.letter[2] = "A"
  <2>1. Legend.letter = <<"a", "A">> BY Zenon DEF Legend
  <2> QED BY <1>1, <2>1, Zenon
<1>4. Legend.slash[1] = "/" /\ Legend.slash[2] = "?"
  <2>1. Legend.slash = <<"/", "?">> BY Zenon DEF Legend
  <2> QED BY <1>1, <2>1, Zenon
<1>5. Legend.space[1] = " " /\ Legend.space[2] = " "
  <2>1. Legend.space = <<" ", " ">> BY Zenon DEF Legend
  <2> QED BY <1>1, <2>1, Zenon
<1> QED BY <1>2, <1>3, <1>4, <1>5, Zenon

\* What the maps say of the keys in use.
LEMMA MapsShowLegends ==
    ASSUME NEW k \in {"digit", "letter", "slash", "space"}
    PROVE  /\ Len(riv_kbd_map_lo) = 58
           /\ riv_kbd_map_lo[Key[k] + 1] = Legend[k][1] /\ riv_kbd_map_hi[Key[k] + 1] = Legend[k][2]
<1>1. Len(riv_kbd_map_lo) = 58 BY DEF riv_kbd_map_lo
<1>2. riv_kbd_map_lo[3] = "1" /\ riv_kbd_map_lo[31] = "a" /\ riv_kbd_map_lo[54] = "/" /\ riv_kbd_map_lo[58] = " "
  BY DEF riv_kbd_map_lo
<1>3. riv_kbd_map_hi[3] = "!" /\ riv_kbd_map_hi[31] = "A" /\ riv_kbd_map_hi[54] = "?" /\ riv_kbd_map_hi[58] = " "
  BY DEF riv_kbd_map_hi
<1>4. Key.digit + 1 = 3 /\ Key.letter + 1 = 31 /\ Key.slash + 1 = 54 /\ Key.space + 1 = 58 BY DEF Key
<1>5. CASE k = "digit" BY <1>1, <1>2, <1>3, <1>4, <1>5, Legends, Zenon
<1>6. CASE k = "letter" BY <1>1, <1>2, <1>3, <1>4, <1>6, Legends, Zenon
<1>7. CASE k = "slash" BY <1>1, <1>2, <1>3, <1>4, <1>7, Legends, Zenon
<1>8. CASE k = "space" BY <1>1, <1>2, <1>3, <1>4, <1>8, Legends, Zenon
<1> QED BY <1>5, <1>6, <1>7, <1>8, Zenon

\* The character a key is pressed for is the one its byte gives under the modifiers
\* that the bytes before it lead to.
LEMMA SentChar ==
    ASSUME KbdInv, NEW k \in DOMAIN Key, NEW up \in BOOLEAN, NEW code \in Nat,
           code = Key[k] + (IF up THEN Release ELSE 0), NEW last \in Mods, Held(last), ~pair
    PROVE  (IF up \/ k \in Modifiers THEN "none" ELSE Meant(k)) = CharOf(last, code)
<1>1. Key[k] \in 0 .. 127 BY DEF Key
<1>2. CodeOf(code) = Key[k] /\ (code >= Release <=> up) /\ code # E0
  <2>1. CASE up = TRUE
    <3>1. Key[k] # 96 BY DEF Key
    <3> QED BY <1>1, <2>1, <3>1 DEF CodeOf, Release, E0
  <2>2. CASE up = FALSE BY <1>1, <2>2 DEF CodeOf, Release, E0
  <2> QED BY <2>1, <2>2, Zenon
<1>3. CASE up BY <1>2, <1>3, Zenon DEF CharOf
<1>4. CASE k \in Modifiers
  <2>1. Key[k] \in {42, 54, 29, 56, 58} BY <1>4 DEF Key, Modifiers
  <2> QED BY <1>2, <1>4, <2>1, Zenon DEF CharOf
<1>5. CASE ~up /\ k \notin Modifiers
  <2>1. k \in {"digit", "letter", "slash", "space"} BY <1>5, Zenon DEF Key, Modifiers
  <2>2. Key[k] \notin {42, 54, 29, 56, 58} /\ Key[k] < 58 BY <2>1 DEF Key
  <2>3. ~(Key[k] >= Len(riv_kbd_map_lo))
    <3>1. Len(riv_kbd_map_lo) = 58 BY <2>1, MapsShowLegends, Zenon
    <3> QED BY <1>1, <2>2, <3>1
  <2>4. CharOf(last, code) = Printed(last, Key[k]) BY <1>2, <1>5, <2>2, <2>3, Zenon DEF CharOf
  <2>5. PICK c : c = Legend[k][IF (down \cap {"shift_l", "shift_r"} # {}) # locked THEN 2 ELSE 1] BY Zenon
  <2>6. (IF "shift" \in last <=> "capslock" \in last THEN riv_kbd_map_lo ELSE riv_kbd_map_hi)[Key[k] + 1] = c
    <3>1. ~("shift" \in last <=> "capslock" \in last) <=> ((down \cap {"shift_l", "shift_r"} # {}) # locked)
      <4>1. locked \in BOOLEAN /\ (down \cap {"shift_l", "shift_r"} # {}) \in BOOLEAN BY Zenon DEF KbdInv
      <4>2. ("shift" \in last <=> down \cap {"shift_l", "shift_r"} # {}) /\ ("capslock" \in last <=> locked) BY Zenon DEF Held
      <4> QED BY <4>1, <4>2, Differ, Zenon
    <3> QED BY <2>1, <2>5, <3>1, MapsShowLegends, Zenon
  <2>7. "ctrl" \in last <=> down \cap {"ctrl_l", "ctrl_r"} # {} BY Zenon DEF Held
  <2>8. Printed(last, Key[k]) = IF "ctrl" \in last /\ c = "a" THEN "ctrl-a" ELSE c BY <2>6, Zenon DEF Printed
  <2>9. Meant(k) = IF down \cap {"ctrl_l", "ctrl_r"} # {} /\ c = "a" THEN "ctrl-a" ELSE c BY <2>5, Zenon DEF Meant
  <2> QED BY <1>5, <2>4, <2>7, <2>8, <2>9, Zenon
<1> QED BY <1>3, <1>4, <1>5, Zenon

\* What the keyboard sends ends in one byte that counts.
LEMMA Sent ==
    ASSUME KbdInv, NEW k \in DOMAIN Key, NEW up \in BOOLEAN, Send(k, up), NEW code \in Nat,
           code = Key[k] + (IF up THEN Release ELSE 0), NEW last \in Mods, Held(last),
           Runs(bytes, ModsOf(st), last, meant, pair)
    PROVE  /\ bytes' \in Seq(Nat) /\ meant' \in Seq(Chars) /\ Len(meant') = Len(bytes')
           /\ Runs(bytes', ModsOf(st), ModsAfter(last, code), meant', pair)
<1>1. bytes \in Seq(Nat) /\ E0 \in Nat /\ meant \in Seq(Chars) /\ Len(meant) = Len(bytes) /\ pair \in BOOLEAN BY DEF KbdInv, E0
<1>2. PICK char \in Chars : char = IF up \/ k \in Modifiers THEN "none" ELSE Meant(k)
  <2>1. ASSUME ~up, k \notin Modifiers PROVE Meant(k) \in Chars
    <3>1. k \in {"digit", "letter", "slash", "space"} BY <2>1, Zenon DEF Key, Modifiers
    <3>2. Legend[k][1] \in Chars /\ Legend[k][2] \in Chars
      <4>1. \A x \in {"none", "1", "!", "a", "A", "ctrl-a", "/", "?", " "} : x \in Chars BY Zenon DEF Chars
      <4>2. CASE k = "digit" BY <4>1, <4>2, Legends, Zenon
      <4>3. CASE k = "letter" BY <4>1, <4>3, Legends, Zenon
      <4>4. CASE k = "slash" BY <4>1, <4>4, Legends, Zenon
      <4>5. CASE k = "space" BY <4>1, <4>5, Legends, Zenon
      <4> QED BY <3>1, <4>2, <4>3, <4>4, <4>5, Zenon
    <3>3. PICK c \in Chars : c = Legend[k][IF (down \cap {"shift_l", "shift_r"} # {}) # locked THEN 2 ELSE 1]
      <4>1. PICK i \in {1, 2} : i = IF (down \cap {"shift_l", "shift_r"} # {}) # locked THEN 2 ELSE 1 BY Zenon
      <4>2. Legend[k][i] \in Chars BY <3>2, <4>1, Zenon
      <4> QED BY <4>1, <4>2, Zenon
    <3>4. Meant(k) = IF down \cap {"ctrl_l", "ctrl_r"} # {} /\ c = "a" THEN "ctrl-a" ELSE c BY <3>3, Zenon DEF Meant
    <3>5. "ctrl-a" \in Chars BY Zenon DEF Chars
    <3> QED BY <3>3, <3>4, <3>5, Zenon
  <2>2. "none" \in Chars BY Zenon DEF Chars
  <2> QED BY <2>1, <2>2, Zenon
<1>6. PICK none \in Chars : none = "none" BY Zenon DEF Chars
<1>3. pair \/ char = CharOf(last, code) BY <1>2, SentChar, Zenon
<1>4. CASE k \in Extended
  <2>1. bytes' = bytes \o <<E0, code>> /\ meant' = meant \o <<none, char>> BY <1>2, <1>4, <1>6, Zenon DEF Send
  <2>2. PICK b \in Seq(Nat) : b = Append(bytes, E0) /\ Len(b) = Len(bytes) + 1
    <3>1. Append(bytes, E0) \in Seq(Nat) /\ Len(Append(bytes, E0)) = Len(bytes) + 1 BY <1>1
    <3> QED BY <3>1, Zenon
  <2>3. PICK mean \in Seq(Chars) : mean = Append(meant, none) /\ Len(mean) = Len(meant) + 1
    <3>1. Append(meant, none) \in Seq(Chars) /\ Len(Append(meant, none)) = Len(meant) + 1 BY <1>1
    <3> QED BY <3>1, Zenon
  <2>4. Len(mean) = Len(b) BY <1>1, <2>2, <2>3, Zenon
  <2>9. bytes' = Append(b, code)
    <3>1. bytes \o <<E0, code>> = Append(Append(bytes, E0), code) BY <1>1
    <3> QED BY <2>1, <2>2, <3>1, Zenon
  <2>10. meant' = Append(mean, char)
    <3>1. meant \o <<none, char>> = Append(Append(meant, none), char) BY <1>1
    <3> QED BY <2>1, <2>3, <3>1, Zenon
  <2>5. bytes' \in Seq(Nat) /\ meant' \in Seq(Chars) /\ Len(meant') = Len(bytes')
    <3>1. bytes' \in Seq(Nat) /\ Len(bytes') = Len(b) + 1 BY <2>9
    <3>2. meant' \in Seq(Chars) /\ Len(meant') = Len(mean) + 1 BY <2>10
    <3> QED BY <2>4, <3>1, <3>2, Zenon
  <2>6. ModsAfter(last, E0) = last
    <3>1. CodeOf(E0) = 96 BY DEF CodeOf, E0, Release
    <3>2. \A f \in Names : CodeOf(E0) \notin CodesOf(f) BY <3>1 DEF CodesOf
    <3> QED BY <3>2, Zenon DEF ModsAfter, Mods
  <2>7. none = CharOf(last, E0) BY <1>6, Zenon DEF CharOf
  <2>8. Runs(b, ModsOf(st), last, mean, pair) BY <1>1, <2>2, <2>3, <2>6, <2>7, RunOneMore, Zenon
  <2>11. PICK m : m = ModsOf(st) BY Zenon
  <2>12. Runs(b, m, last, mean, pair) BY <2>8, <2>11, Zenon
  <2>13. Runs(Append(b, code), m, ModsAfter(last, code), Append(mean, char), pair) BY <1>1, <1>3, <2>4, <2>12, RunOneMore, SMT
  <2> QED BY <2>5, <2>9, <2>10, <2>11, <2>13, Zenon
<1>5. CASE k \notin Extended
  <2>1. bytes' = bytes \o <<code>> /\ meant' = meant \o <<char>> BY <1>2, <1>5, Zenon DEF Send
  <2>2. bytes' = Append(bytes, code) /\ bytes' \in Seq(Nat) BY <1>1, <2>1
  <2>3. meant' = Append(meant, char) /\ meant' \in Seq(Chars) BY <1>1, <2>1
  <2>4. Len(meant') = Len(bytes') BY <1>1, <2>2, <2>3
  <2> QED BY <1>1, <1>3, <2>2, <2>3, <2>4, RunOneMore, Zenon
<1> QED BY <1>4, <1>5, Zenon

\* A key goes down or up.
LEMMA SendInv ==
    ASSUME KbdInv, NEW k \in DOMAIN Key, NEW up \in BOOLEAN, Send(k, up)
    PROVE  KbdInv'
<1>1. PICK last \in Mods : Runs(bytes, ModsOf(st), last, meant, pair) /\ Held(last) BY Zenon DEF KbdInv
<1>2. PICK code \in Nat : code = Key[k] + (IF up THEN Release ELSE 0)
  <2>1. Key[k] \in Nat BY DEF Key
  <2> QED BY <2>1, SMTT(30) DEF Release
<1>3. PICK then : then = ModsAfter(last, code) BY Zenon
<1>4. /\ then \in Mods /\ bytes' \in Seq(Nat) /\ meant' \in Seq(Chars) /\ Len(meant') = Len(bytes')
      /\ Runs(bytes', ModsOf(st), then, meant', pair)
  BY <1>1, <1>2, <1>3, AfterType, Sent, Zenon
<1>5. /\ k \in Modifiers => (k \in down) = up
      /\ down' = IF up THEN down \ {k} ELSE down \cup ({k} \cap Modifiers)
      /\ locked' = (locked # (k = "caps" /\ ~up))
      /\ pair' = (pair \/ {"shift_l", "shift_r"} \subseteq down' \/ {"ctrl_l", "ctrl_r"} \subseteq down')
      /\ UNCHANGED <<st, got, want>>
  BY Zenon DEF Send
<1>13. /\ k \in Modifiers => (k \in down <=> up)
       /\ \A x \in Modifiers : x \in down' <=> IF x = k THEN ~up ELSE x \in down
       /\ locked' \in BOOLEAN /\ (locked' <=> ~(locked <=> (k = "caps" /\ ~up)))
       /\ pair' \in BOOLEAN /\ (pair => pair')
  <2>1. locked \in BOOLEAN /\ pair \in BOOLEAN BY Zenon DEF KbdInv
  <2>2. \A x \in Modifiers : x \in down' <=> IF x = k THEN ~up ELSE x \in down BY <1>5, Zenon
  <2>3. locked' \in BOOLEAN /\ (locked' <=> ~(locked <=> (k = "caps" /\ ~up))) BY <1>5, <2>1, Zenon
  <2>4. pair' \in BOOLEAN /\ (pair => pair') BY <1>5, <2>1, Zenon
  <2>5. k \in Modifiers => (k \in down <=> up) BY <1>5, Zenon
  <2> QED BY <2>2, <2>3, <2>4, <2>5, Zenon
<1>14. Runs(bytes', ModsOf(st'), then, meant', pair')
  <2>1. pair \in BOOLEAN BY Zenon DEF KbdInv
  <2> QED BY <1>4, <1>5, <1>13, <2>1, RunFreed, Zenon
<1>6. CodeOf(code) = Key[k] /\ (code < Release <=> ~up)
  <2>1. Key[k] \in 0 .. 127 BY DEF Key
  <2>2. CASE up = TRUE BY <1>2, <2>1, <2>2 DEF CodeOf, Release
  <2>3. CASE up = FALSE BY <1>2, <2>1, <2>3 DEF CodeOf, Release
  <2> QED BY <2>2, <2>3, Zenon
<1>7. k \in Modifiers \cup {"digit", "letter", "slash", "space"} BY Zenon DEF Key, Modifiers
<1>8. \A f \in Names : f \in then <=> IF Key[k] \notin CodesOf(f) THEN f \in last
                                     ELSE IF f = "capslock" THEN ~(f \in last <=> ~up) ELSE ~up
  BY <1>3, <1>6, Zenon DEF ModsAfter
<1>9. Held(then)'
  <2>1. "capslock" \in then <=> locked'
    <3>1. Key[k] \in CodesOf("capslock") <=> k = "caps" BY <1>7 DEF Key, CodesOf, Modifiers
    <3> QED BY <1>1, <1>8, <1>13, <3>1, Zenon DEF Held, Names
  <2>2. ASSUME ~pair' PROVE "alt" \in then <=> "alt" \in down'
    <3>1. Key[k] \in CodesOf("alt") <=> k = "alt" BY <1>7 DEF Key, CodesOf, Modifiers
    <3> QED BY <1>1, <1>8, <1>13, <2>2, <3>1, Zenon DEF Held, Names, Modifiers
  <2>3. ASSUME ~pair' PROVE "ctrl" \in then <=> down' \cap {"ctrl_l", "ctrl_r"} # {}
    <3>1. Key[k] \in CodesOf("ctrl") <=> k \in {"ctrl_l", "ctrl_r"} BY <1>7 DEF Key, CodesOf, Modifiers
    <3>2. "ctrl" \in last <=> ("ctrl_l" \in down \/ "ctrl_r" \in down) BY <1>1, <1>13, <2>3, Zenon DEF Held
    <3>3. "ctrl_l" \in down' <=> IF "ctrl_l" = k THEN ~up ELSE "ctrl_l" \in down BY <1>13, Zenon DEF Modifiers
    <3>4. "ctrl_r" \in down' <=> IF "ctrl_r" = k THEN ~up ELSE "ctrl_r" \in down BY <1>13, Zenon DEF Modifiers
    <3>5. k \in {"ctrl_l", "ctrl_r"} => (k \in down <=> up) BY <1>13, Zenon DEF Modifiers
    <3>6. ~("ctrl_l" \in down /\ "ctrl_r" \in down) BY <1>13, <2>3, Zenon DEF KbdInv
    <3>7. "ctrl" \in then <=> IF k \notin {"ctrl_l", "ctrl_r"} THEN "ctrl" \in last ELSE ~up BY <1>8, <3>1, Zenon DEF Names
    <3>8. "ctrl" \in then <=> ("ctrl_l" \in down' \/ "ctrl_r" \in down') BY <3>2, <3>3, <3>4, <3>5, <3>6, <3>7
    <3> QED BY <3>8, Zenon
  <2>4. ASSUME ~pair' PROVE "shift" \in then <=> down' \cap {"shift_l", "shift_r"} # {}
    <3>1. Key[k] \in CodesOf("shift") <=> k \in {"shift_l", "shift_r"} BY <1>7 DEF Key, CodesOf, Modifiers
    <3>2. "shift" \in last <=> ("shift_l" \in down \/ "shift_r" \in down) BY <1>1, <1>13, <2>4, Zenon DEF Held
    <3>3. "shift_l" \in down' <=> IF "shift_l" = k THEN ~up ELSE "shift_l" \in down BY <1>13, Zenon DEF Modifiers
    <3>4. "shift_r" \in down' <=> IF "shift_r" = k THEN ~up ELSE "shift_r" \in down BY <1>13, Zenon DEF Modifiers
    <3>5. k \in {"shift_l", "shift_r"} => (k \in down <=> up) BY <1>13, Zenon DEF Modifiers
    <3>6. ~("shift_l" \in down /\ "shift_r" \in down) BY <1>13, <2>4, Zenon DEF KbdInv
    <3>7. "shift" \in then <=> IF k \notin {"shift_l", "shift_r"} THEN "shift" \in last ELSE ~up BY <1>8, <3>1, Zenon DEF Names
    <3>8. "shift" \in then <=> ("shift_l" \in down' \/ "shift_r" \in down') BY <3>2, <3>3, <3>4, <3>5, <3>6, <3>7
    <3> QED BY <3>8, Zenon
  <2> QED BY <2>1, <2>2, <2>3, <2>4, Zenon DEF Held
<1>10. st' \in [shift : BOOLEAN, ctrl : BOOLEAN, alt : BOOLEAN, capslock : BOOLEAN, ext : BOOLEAN] BY <1>5, Zenon DEF KbdInv
<1>11. ~pair' => ~({"shift_l", "shift_r"} \subseteq down') /\ ~({"ctrl_l", "ctrl_r"} \subseteq down') BY <1>5, Zenon
<1>12. CharactersTyped' BY <1>5, <1>13, Zenon DEF KbdInv, CharactersTyped
<1> QED BY <1>4, <1>9, <1>10, <1>11, <1>12, <1>13, <1>14, Zenon DEF KbdInv

\* No key is down.
LEMMA KbdInitInv == ASSUME KbdInit PROVE KbdInv
<1>1. ModsOf(st) = {} BY DEF KbdInit, ModsOf, Names
<1>2. {} \in Mods /\ Held({}) BY Zenon DEF Mods, Held, KbdInit
<1>3. Runs(bytes, ModsOf(st), {}, meant, pair) BY <1>1, <1>2, RunNone, Zenon DEF KbdInit
<1>4. bytes \in Seq(Nat) /\ meant \in Seq(Chars) /\ Len(meant) = Len(bytes) BY DEF KbdInit
<1>5. CharactersTyped BY Zenon DEF KbdInit, CharactersTyped
<1> QED BY <1>2, <1>3, <1>4, <1>5, Zenon DEF KbdInv, KbdInit

\* Equivalent truth values are equal.
LEMMA SameTruth ==
    ASSUME NEW a \in BOOLEAN, NEW b \in BOOLEAN, a <=> b
    PROVE  a = b
BY Zenon

\* When everything is polled, the driver's modifiers are those of the keys.
LEMMA KbdTracks == ASSUME KbdInv PROVE ModifiersTrack
<1> SUFFICES ASSUME bytes = <<>>, ~pair PROVE
        /\ st.shift = (down \cap {"shift_l", "shift_r"} # {})
        /\ st.ctrl = (down \cap {"ctrl_l", "ctrl_r"} # {}) /\ st.alt = ("alt" \in down)
        /\ st.capslock = locked
  BY Zenon DEF ModifiersTrack
<1>1. PICK last \in Mods : Runs(bytes, ModsOf(st), last, meant, pair) /\ Held(last) BY Zenon DEF KbdInv
<1>2. Held(ModsOf(st)) BY <1>1, RunNoneIs, Zenon
<1>3. st.shift \in BOOLEAN /\ st.ctrl \in BOOLEAN /\ st.alt \in BOOLEAN /\ st.capslock \in BOOLEAN /\ locked \in BOOLEAN BY Zenon DEF KbdInv
<1>4. /\ "shift" \in ModsOf(st) <=> st.shift
      /\ "ctrl" \in ModsOf(st) <=> st.ctrl
      /\ "alt" \in ModsOf(st) <=> st.alt
      /\ "capslock" \in ModsOf(st) <=> st.capslock
  BY Zenon DEF ModsOf, Names
<1>5. /\ st.shift <=> down \cap {"shift_l", "shift_r"} # {}
      /\ st.ctrl <=> down \cap {"ctrl_l", "ctrl_r"} # {}
      /\ st.alt <=> "alt" \in down
      /\ st.capslock <=> locked
  BY <1>2, <1>4, Zenon DEF Held
<1>6. st.shift = (down \cap {"shift_l", "shift_r"} # {}) BY <1>3, <1>5, SameTruth, Zenon
<1>7. st.ctrl = (down \cap {"ctrl_l", "ctrl_r"} # {}) BY <1>3, <1>5, SameTruth, Zenon
<1>8. st.alt = ("alt" \in down) BY <1>3, <1>5, SameTruth
<1>9. st.capslock = locked BY <1>3, <1>5, SameTruth, Zenon
<1> QED BY <1>6, <1>7, <1>8, <1>9, Zenon

\* Whatever is typed, erased, entered and read at a terminal, and whatever keys go
\* down and up however late the driver polls: the reader of tty.h gets what the
\* screen showed, as far as there is room for it, and the driver of kbd.h gives the
\* characters of the keys under the modifiers that were held, and has the modifiers
\* of the keys held when it has polled everything.
THEOREM InputIsAsTyped ==
    ASSUME NEW CONSTANT modes
    PROVE  InputSpec(modes) => []InputAsTyped
<1> DEFINE Inv == TtyInv /\ KbdInv
           Step == (TtyNext /\ UNCHANGED kbd_vars) \/ (KbdNext /\ UNCHANGED tty_vars)
<1>1. riv_tty_init(modes) /\ KbdInit => Inv BY TtyInitInv, KbdInitInv, Zenon
<1>2. Inv /\ [Step]_<<tty_vars, kbd_vars>> => Inv'
  <2>1. TtyInv /\ TtyNext => TtyInv' BY TtyStep, Zenon
  <2>2. TtyInv /\ UNCHANGED tty_vars => TtyInv' BY DEF TtyInv, ReadAsShown, ScreenShowsLine, ReaderGetsLines, tty_vars
  <2>3. KbdInv /\ KbdNext => KbdInv' BY PollInv, SendInv, Zenon DEF KbdNext
  <2>4. ASSUME KbdInv, UNCHANGED kbd_vars PROVE KbdInv'
    <3>1. UNCHANGED <<st, bytes, got, down, locked, meant, want, pair>> BY <2>4, Zenon DEF kbd_vars
    <3>2. PICK last \in Mods : Runs(bytes, ModsOf(st), last, meant, pair) /\ Held(last) BY <2>4, Zenon DEF KbdInv
    <3>3. Runs(bytes, ModsOf(st), last, meant, pair)' /\ Held(last)' BY <3>1, <3>2, Zenon DEF Held
    <3>4. CharactersTyped' BY <2>4, <3>1, Zenon DEF KbdInv, CharactersTyped
    <3> QED BY <2>4, <3>1, <3>3, <3>4, Zenon DEF KbdInv
  <2> QED BY <2>1, <2>2, <2>3, <2>4, Zenon
<1>3. Inv => InputAsTyped BY KbdTracks, Zenon DEF InputAsTyped, TtyInv, KbdInv
<1> QED BY <1>1, <1>2, <1>3, PTL DEF InputSpec

-----------------------------------------------------------------------------
(* Arithmetic of the masked index.                                         *)

\* Quotient and remainder of a natural number.
LEMMA DivMod ==
    ASSUME NEW a \in Nat, NEW c \in Nat \ {0}
    PROVE  /\ a % c \in 0 .. c - 1
           /\ a \div c \in Int
           /\ a = c * (a \div c) + (a % c)
  BY SMT

\* The remainder is determined by the division equation.
LEMMA ModUnique ==
    ASSUME NEW a \in Nat, NEW c \in Nat \ {0}, NEW q \in Int,
           NEW r \in 0 .. c - 1, a = c * q + r
    PROVE  r = a % c
  BY SMT

\* A multiple of the capacity does not move the slot of an index.
LEMMA ModShift ==
    ASSUME NEW a \in Nat, NEW c \in Nat \ {0}, NEW k \in Nat
    PROVE  (a + k * c) % c = a % c
  <1> DEFINE q == a \div c
             r == a % c
  <1>1. q \in Int /\ r \in 0 .. c - 1 /\ a = c * q + r
    BY DivMod, Zenon
  <1>2. q + k \in Int /\ a + k * c \in Nat
    BY <1>1
  <1>3. a + k * c = c * (q + k) + r
    <2>1. c * (q + k) = c * q + k * c
      BY <1>1, SMT
    <2> QED  BY <1>1, <2>1
  <1> QED
    BY <1>1, <1>2, <1>3, ModUnique, Zenon

\* A non-zero multiple of c is at least c away from zero.
LEMMA MultipleGap ==
    ASSUME NEW c \in Nat \ {0}, NEW d \in Int, c * d > 0
    PROVE  c * d >= c
  <1>1. d >= 1
    BY SMT
  <1>2. c * (d - 1) >= 0
    BY <1>1, SMT
  <1>3. c * (d - 1) = c * d - c
    BY SMT
  <1> QED  BY <1>2, <1>3

\* Two numbers less than c apart that have the same remainder are equal.
LEMMA ModDistinct ==
    ASSUME NEW a \in Nat, NEW b \in Nat, NEW c \in Nat \ {0},
           a > b, a - b < c
    PROVE  a % c # b % c
  <1> SUFFICES ASSUME a % c = b % c PROVE FALSE
    BY Zenon
  <1> DEFINE qa == a \div c
             qb == b \div c
             r == a % c
  <1>1. qa \in Int /\ qb \in Int /\ r \in 0 .. c - 1
    BY DivMod, Zenon
  <1>2. a = c * qa + r /\ b = c * qb + r
    BY DivMod, Zenon
  <1>3. a - b = c * (qa - qb)
    <2>1. c * (qa - qb) = c * qa - c * qb
      BY <1>1, SMT
    <2>2. c * qa \in Int /\ c * qb \in Int
      BY <1>1
    <2> QED  BY <1>1, <1>2, <2>1, <2>2
  <1>4. qa - qb \in Int /\ c * (qa - qb) > 0
    BY <1>1, <1>3
  <1>5. c * (qa - qb) >= c
    BY <1>4, MultipleGap, Zenon
  <1> QED  BY <1>3, <1>5

-----------------------------------------------------------------------------
(* The index operators of Ring.                                            *)

\* riv_u32 sums and differences are indices again, and the slot is in buf.
LEMMA IndexType ==
    /\ Cap \in Nat \ {0} /\ W \in Nat /\ W >= 2 * Cap
    /\ \A a, b \in Index : Sub(a, b) \in Index
    /\ \A a \in Index : \A n \in 0 .. W : Add(a, n) \in Index
    /\ \A a \in Index : Slot(a) \in 0 .. Cap - 1
  <1>1. Cap \in Nat \ {0} /\ W \in Nat
    BY RingAssumption, Zenon
  <1>2. W >= 2 * Cap
    <2>1. PICK k \in 2 .. W : W = k * Cap
      BY RingAssumption, Zenon
    <2>2. k * Cap = 2 * Cap + (k - 2) * Cap
      BY <1>1, SMT
    <2>3. (k - 2) * Cap >= 0
      BY <1>1, SMT
    <2> QED  BY <1>1, <2>1, <2>2, <2>3
  <1>3. \A a, b \in Index : Sub(a, b) \in Index
    BY <1>1 DEF Sub, Index
  <1>4. \A a \in Index : \A n \in 0 .. W : Add(a, n) \in Index
    BY <1>1 DEF Add, Index
  <1>5. \A a \in Index : Slot(a) \in 0 .. Cap - 1
    BY <1>1, DivMod DEF Slot, Index
  <1> QED  BY <1>1, <1>2, <1>3, <1>4, <1>5, Zenon

\* Two different indices less than Cap apart use different slots, whether or
\* not the counter has wrapped between them.
LEMMA SlotDistinct ==
    ASSUME NEW a \in Index, NEW b \in Index, a # b, Sub(a, b) < Cap
    PROVE  Slot(a) # Slot(b)
  <1>1. Cap \in Nat \ {0} /\ W \in Nat /\ a \in Nat /\ b \in Nat
    BY IndexType DEF Index
  <1>2. CASE a > b
    <2>1. a - b < Cap
      BY <1>1, <1>2 DEF Sub
    <2>2. a % Cap # b % Cap
      BY <1>1, <1>2, <2>1, ModDistinct, Zenon
    <2> QED  BY <2>2, Zenon DEF Slot
  <1>3. CASE a < b
    <2>1. a + W \in Nat /\ a + W > b /\ (a + W) - b < Cap
      BY <1>1, <1>3 DEF Sub, Index
    <2>2. (a + W) % Cap # b % Cap
      BY <1>1, <2>1, ModDistinct, Zenon
    <2>3. PICK k \in 2 .. W : W = k * Cap
      BY RingAssumption, Zenon
    <2>4. k \in Nat
      BY <1>1, <2>3
    <2>5. (a + k * Cap) % Cap = a % Cap
      BY <1>1, <2>4, ModShift, Zenon
    <2> QED  BY <2>2, <2>3, <2>5, Zenon DEF Slot
  <1> QED  BY <1>1, <1>2, <1>3

-----------------------------------------------------------------------------
(* The inductive invariant.                                                *)

\* While the producer is inside riv_ring_push its h is still head; once it has
\* passed the full test there is room for one more byte, although the consumer
\* may have moved tail since; and the byte is in place before head is stored.
ProducerInv ==
    /\ pp \in {"loadTail", "write", "publish"} => ph = head /\ pleft > 0
    /\ pp \in {"write", "publish"} => Sub(head, tail) < Cap
    /\ pp = "publish" => buf[Slot(ph)] = pb
    /\ pp = "count" => seen["prod"] = head

\* The mirror image for riv_ring_pop: t is still tail, and a byte that has been
\* found in the ring cannot be overwritten before tail moves past it.
ConsumerInv ==
    /\ cp \in {"loadHead", "read", "publish"} => ct = tail /\ cleft > 0
    /\ cp \in {"read", "publish"} => Sub(head, tail) > 0
    /\ cp = "publish" => buf[Slot(ct)] = cb
    /\ cp = "count" => Sub(seen["cons"], tail) <= Sub(head, tail)

IInv == /\ TypeOK
        /\ Sub(head, tail) <= Cap
        /\ ProducerInv
        /\ ConsumerInv

\* Initially the ring is empty and both sides are idle.
LEMMA InitIInv == Init => IInv
  <1> SUFFICES ASSUME Init PROVE IInv
    BY Zenon
  <1>1. Cap \in Nat \ {0} /\ W \in Nat /\ W >= 2 * Cap /\ MaxN \in Nat
    BY IndexType, RingAssumption, Zenon
  <1>2. TypeOK
    BY <1>1 DEF Init, TypeOK, Index
  <1>3. Sub(head, tail) <= Cap
    BY <1>1 DEF Init, Sub
  <1>4. ProducerInv /\ ConsumerInv
    BY Zenon DEF Init, ProducerInv, ConsumerInv
  <1> QED  BY <1>2, <1>3, <1>4, Zenon DEF IInv

\* Storing head adds one to the distance of the indices, storing tail takes
\* one away; both across the wrap.
LEMMA SubStep ==
    ASSUME NEW h \in Index, NEW t \in Index
    PROVE  /\ Sub(h, t) < Cap => Sub(Add(h, 1), t) = Sub(h, t) + 1
           /\ Sub(h, t) > 0 => Sub(h, Add(t, 1)) = Sub(h, t) - 1
           /\ Sub(h, t) = 0 <=> h = t
  BY IndexType DEF Sub, Add, Index

\* Every step of either side, of riv_ring_count included, preserves it.
LEMMA NextIInv == IInv /\ [Next]_vars => IInv'
  <1> SUFFICES ASSUME IInv, [Next]_vars PROVE IInv'
    BY Zenon
  <1> USE DEF IInv
  <1>0. /\ MaxN \in Nat /\ Cap \in Nat \ {0} /\ W \in Nat
        /\ head \in Index /\ tail \in Index
        /\ Sub(head, tail) \in Index /\ Sub(head, tail) \in Nat
        /\ Add(head, 1) \in Index /\ Add(tail, 1) \in Index
        /\ Slot(head) \in 0 .. Cap - 1 /\ Slot(tail) \in 0 .. Cap - 1
    <2>1. MaxN \in Nat /\ Cap \in Nat \ {0} /\ W \in Nat /\ 1 \in 0 .. W
      BY IndexType, RingAssumption
    <2>2. head \in Index /\ tail \in Index
      BY Zenon DEF TypeOK
    <2>3. Sub(head, tail) \in Index
      BY <2>2, IndexType, Zenon
    <2>4. Add(head, 1) \in Index /\ Add(tail, 1) \in Index
      BY <2>1, <2>2, IndexType, Zenon
    <2>5. Slot(head) \in 0 .. Cap - 1 /\ Slot(tail) \in 0 .. Cap - 1
      BY <2>2, IndexType, Zenon
    <2>6. Sub(head, tail) \in Nat
      BY <2>1, <2>3, SMTT(30) DEF Index
    <2> QED  BY <2>1, <2>2, <2>3, <2>4, <2>5, <2>6, Zenon
  <1>1. CASE WriteCall
    BY <1>0, <1>1 DEF WriteCall, TypeOK, ProducerInv, ConsumerInv, ring, cons
  <1>2. CASE PushLoadHead
    BY <1>0, <1>2, Zenon DEF PushLoadHead, TypeOK, ProducerInv, ConsumerInv, ring, cons
  <1>3. CASE PushLoadTail
    <2>1. pp = "loadTail" /\ ph = head /\ pleft > 0
      BY <1>3, Zenon DEF PushLoadTail, ProducerInv
    <2>2. CASE Sub(ph, tail) > Cap - 1
      BY <1>0, <1>3, <2>1, <2>2
      DEF PushLoadTail, TypeOK, ProducerInv, ConsumerInv, ring, cons
    <2>3. CASE ~(Sub(ph, tail) > Cap - 1)
      <3>1. Sub(head, tail) < Cap
        BY <1>0, <2>1, <2>3
      <3> QED
        BY <1>0, <1>3, <2>1, <2>3, <3>1, Zenon
        DEF PushLoadTail, TypeOK, ProducerInv, ConsumerInv, ring, cons
    <2> QED  BY <2>2, <2>3, Zenon
  <1>4. CASE PushWrite
    <2>1. ph = head /\ Sub(head, tail) < Cap /\ Slot(ph) \in 0 .. Cap - 1
      BY <1>0, <1>4, Zenon DEF PushWrite, ProducerInv
    <2>2. cp = "publish" => Slot(ct) # Slot(ph)
      <3> SUFFICES ASSUME cp = "publish" PROVE Slot(ct) # Slot(ph)
        BY Zenon
      <3>1. ct = tail /\ Sub(head, tail) > 0
        BY Zenon DEF ConsumerInv
      <3>2. head # tail
        BY <1>0, <3>1, SubStep
      <3> QED  BY <1>0, <2>1, <3>1, <3>2, SlotDistinct, Zenon
    <2>3. TypeOK'
      BY <1>4, <2>1, Zenon DEF PushWrite, TypeOK, cons
    <2>4. ProducerInv'
      BY <1>0, <1>4, <2>1, Zenon DEF PushWrite, ProducerInv, TypeOK, cons
    <2>5. ConsumerInv'
      <3>1. cp = "publish" => Slot(ct) \in 0 .. Cap - 1
        BY <1>0, Zenon DEF ConsumerInv
      <3> QED
        BY <1>4, <2>1, <2>2, <3>1, Zenon DEF PushWrite, ConsumerInv, TypeOK, cons
    <2>6. (Sub(head, tail) <= Cap)'
      BY <1>4, Zenon DEF PushWrite
    <2> QED  BY <2>3, <2>4, <2>5, <2>6, Zenon
  <1>5. CASE PushPublish
    <2>1. ph = head /\ Sub(head, tail) < Cap /\ pleft > 0
      BY <1>5, Zenon DEF PushPublish, ProducerInv
    <2>2. head' = Add(head, 1) /\ tail' = tail /\ head' \in Index
      BY <1>0, <1>5, <2>1, Zenon DEF PushPublish
    <2>3. Sub(head', tail') = Sub(head, tail) + 1 /\ Sub(head, tail) \in Nat
      BY <1>0, <2>1, <2>2, SubStep, Zenon DEF Index
    <2>4. TypeOK'
      BY <1>0, <1>5, <2>1, <2>2 DEF PushPublish, TypeOK, cons
    <2>5. ProducerInv'
      BY <1>5, Zenon DEF PushPublish, ProducerInv
    <2>6. ConsumerInv'
      <3>1. seen["cons"] \in Index
        BY Zenon DEF TypeOK
      <3>2. Sub(seen["cons"], tail) \in Index
        BY <1>0, <3>1, IndexType, SMTT(30)
      <3>3. Sub(seen["cons"], tail) \in Nat
        BY <1>0, <3>2 DEF Index
      <3> QED
        BY <1>0, <1>5, <2>2, <2>3, <3>3 DEF PushPublish, ConsumerInv, cons
    <2> QED  BY <1>0, <2>1, <2>3, <2>4, <2>5, <2>6
  <1>6. CASE ReadCall
    BY <1>0, <1>6 DEF ReadCall, TypeOK, ProducerInv, ConsumerInv, ring, prod
  <1>7. CASE PopLoadTail
    BY <1>0, <1>7, Zenon DEF PopLoadTail, TypeOK, ProducerInv, ConsumerInv, ring, prod
  <1>8. CASE PopLoadHead
    <2>1. cp = "loadHead" /\ ct = tail /\ cleft > 0
      BY <1>8, Zenon DEF PopLoadHead, ConsumerInv
    <2>2. CASE head = ct
      BY <1>0, <1>8, <2>1, <2>2
      DEF PopLoadHead, TypeOK, ProducerInv, ConsumerInv, ring, prod
    <2>3. CASE head # ct
      <3>1. Sub(head, tail) > 0
        BY <1>0, <2>1, <2>3, SubStep
      <3> QED
        BY <1>0, <1>8, <2>1, <2>3, <3>1, Zenon
        DEF PopLoadHead, TypeOK, ProducerInv, ConsumerInv, ring, prod
    <2> QED  BY <2>2, <2>3, Zenon
  <1>9. CASE PopRead
    <2>1. ct = tail /\ Slot(ct) \in 0 .. Cap - 1
      BY <1>0, <1>9, Zenon DEF PopRead, ConsumerInv
    <2> QED
      BY <1>0, <1>9, <2>1, Zenon DEF PopRead, TypeOK, ProducerInv, ConsumerInv, ring, prod
  <1>10. CASE PopPublish
    <2>1. ct = tail /\ Sub(head, tail) > 0 /\ cleft > 0
      BY <1>10, Zenon DEF PopPublish, ConsumerInv
    <2>2. tail' = Add(tail, 1) /\ head' = head /\ tail' \in Index
      BY <1>0, <1>10, <2>1, Zenon DEF PopPublish
    <2>3. Sub(head', tail') = Sub(head, tail) - 1 /\ Sub(head, tail) \in Nat
      BY <1>0, <2>1, <2>2, SubStep, Zenon DEF Index
    <2>4. TypeOK'
      BY <1>0, <1>10, <2>1, <2>2, SMTT(30) DEF PopPublish, TypeOK, prod
    <2>5. ProducerInv'
      BY <1>0, <1>10, <2>2, <2>3 DEF PopPublish, ProducerInv, prod
    <2>6. ConsumerInv'
      BY <1>10, Zenon DEF PopPublish, ConsumerInv
    <2> QED  BY <1>0, <2>1, <2>3, <2>4, <2>5, <2>6
  <1>11. CASE CountLoadHead
    <2>1. UNCHANGED <<head, tail, buf, pb, ph, pleft, sent, ct, cb, cleft, taken>>
      BY <1>11, Zenon DEF CountLoadHead, ring, prod, cons
    <2>2. CASE pp = "idle" /\ pp' = "count" /\ cp' = cp
               /\ seen' = [seen EXCEPT !["prod"] = head]
      <3>1. seen' \in [{"prod", "cons"} -> Index] /\ seen'["prod"] = head
            /\ seen'["cons"] = seen["cons"]
        BY <1>0, <2>2, Zenon DEF TypeOK
      <3> QED  BY <2>1, <2>2, <3>1, Zenon DEF TypeOK, ProducerInv, ConsumerInv
    <2>3. CASE cp = "idle" /\ cp' = "count" /\ pp' = pp
               /\ seen' = [seen EXCEPT !["cons"] = head]
      <3>1. seen' \in [{"prod", "cons"} -> Index] /\ seen'["cons"] = head
            /\ seen'["prod"] = seen["prod"]
        BY <1>0, <2>3, Zenon DEF TypeOK
      <3> QED  BY <1>0, <2>1, <2>3, <3>1 DEF TypeOK, ProducerInv, ConsumerInv
    <2> QED  BY <1>11, <2>2, <2>3, Zenon DEF CountLoadHead, prod, cons
  <1>12. CASE CountLoadTail
    BY <1>0, <1>12, Zenon DEF CountLoadTail, TypeOK, ProducerInv, ConsumerInv,
                       ring, prod, cons
  <1>13. CASE UNCHANGED vars
    BY <1>13 DEF vars, TypeOK, ProducerInv, ConsumerInv, ring, prod, cons
  <1> QED
    BY <1>1, <1>2, <1>3, <1>4, <1>5, <1>6, <1>7, <1>8, <1>9, <1>10, <1>11, <1>12,
       <1>13, Zenon DEF Next, Producer, Consumer

\* The inductive invariant holds in every reachable state.
THEOREM Invariance == Spec => []IInv
  BY InitIInv, NextIInv, PTL DEF Spec

\* Every variable of the ring and of its two users keeps its type; head and
\* tail stay riv_u32 values through wrap-around (riv_ring_push, riv_ring_pop).
THEOREM TypeCorrect == Spec => []TypeOK
  <1>1. IInv => TypeOK
    BY Zenon DEF IInv
  <1> QED  BY <1>1, Invariance, PTL

\* For every capacity and index width, the producer's store to buf and the
\* consumer's load from it never meet in one slot: the plain accesses of
\* riv_ring_push and riv_ring_pop are free of data races.
THEOREM RaceFree == Spec => []NoRace
  <1>1. IInv => NoRace
    <2> SUFFICES ASSUME IInv, pp = "write", cp = "read"
                 PROVE  Slot(ph) # Slot(ct)
      BY Zenon DEF NoRace
    <2>1. head \in Index /\ tail \in Index /\ ph = head /\ ct = tail
      BY Zenon DEF IInv, TypeOK, ProducerInv, ConsumerInv
    <2>2. Sub(head, tail) < Cap /\ Sub(head, tail) > 0
      BY Zenon DEF IInv, ProducerInv, ConsumerInv
    <2>3. head # tail
      BY <2>1, <2>2, SubStep, SMTT(30)
    <2> QED  BY <2>1, <2>2, <2>3, SlotDistinct, Zenon
  <1> QED  BY <1>1, Invariance, PTL

\* riv_ring_count never overstates the content to the consumer, never
\* understates it to the producer, and the ring never holds more than Cap.
THEOREM CountIsSafe == Spec => []CountSafe
  <1>1. IInv => CountSafe
    <2> SUFFICES ASSUME IInv PROVE CountSafe
      BY Zenon
    <2>1. Sub(head, tail) \in Index /\ W \in Nat
      BY IndexType, Zenon DEF IInv, TypeOK
    <2>2. Sub(head, tail) \in Nat
      BY <2>1 DEF Index
    <2> QED
      BY <2>2 DEF IInv, ProducerInv, ConsumerInv, CountSafe, CountResult
  <1> QED  BY <1>1, Invariance, PTL

-----------------------------------------------------------------------------
(* Refinement: the ring implements Fifo.                                   *)

\* The i-th stored byte sits i - 1 places after tail.
QueueFacts == /\ Queue \in Seq(Byte)
              /\ Len(Queue) = Sub(head, tail)
              /\ \A i \in 1 .. Sub(head, tail) :
                     /\ Add(tail, i - 1) \in Index
                     /\ Queue[i] = buf[Slot(Add(tail, i - 1))]

\* The stored bytes form a sequence as long as the distance of the indices.
LEMMA QueueIsSeq == IInv => QueueFacts
  <1> SUFFICES ASSUME IInv PROVE QueueFacts
    BY Zenon
  <1>1. /\ head \in Index /\ tail \in Index /\ W \in Nat /\ Cap \in Nat \ {0}
        /\ buf \in [0 .. Cap - 1 -> Byte] /\ Sub(head, tail) \in Index
    BY IndexType, Zenon DEF IInv, TypeOK
  <1>2. Sub(head, tail) \in Nat /\ Sub(head, tail) <= W
    BY <1>1 DEF Index
  <1>3. \A i \in 1 .. Sub(head, tail) : Add(tail, i - 1) \in Index
    BY <1>1, <1>2 DEF Add, Index
  <1>4. \A i \in 1 .. Sub(head, tail) : buf[Slot(Add(tail, i - 1))] \in Byte
    BY <1>1, <1>3, IndexType, Zenon
  <1> QED  BY <1>2, <1>3, <1>4 DEF Queue, QueueFacts

\* Initially the stored sequence is empty.
LEMMA InitRefines == Init => F!Init
  <1> SUFFICES ASSUME Init PROVE F!Init
    BY Zenon
  <1>1. Sub(head, tail) = 0
    BY DEF Init, Sub
  <1>2. Queue = <<>>
    BY <1>1 DEF Queue
  <1> QED  BY <1>2, Zenon DEF Init, F!Init, Fresh, F!Fresh

\* A step that leaves the three components of the ring alone leaves the stored
\* sequence alone.
LEMMA SameQueue == UNCHANGED <<head, tail, buf>> => Queue' = Queue
  BY Zenon DEF Queue

\* Every step is a step of Fifo or changes nothing Fifo can see: the store of
\* head is the push, the store of tail is the pop, a refused push or pop takes
\* effect when the other side's index is loaded.
LEMMA StepRefines == IInv /\ IInv' /\ [Next]_vars => [F!Next]_(F!vars)
  <1> SUFFICES ASSUME IInv, IInv', [Next]_vars PROVE [F!Next]_(F!vars)
    BY Zenon
  <1> DEFINE n == Sub(head, tail)
  <1>0. /\ head \in Index /\ tail \in Index /\ W \in Nat /\ Cap \in Nat \ {0}
        /\ n \in Nat /\ n <= Cap
    <2>1. head \in Index /\ tail \in Index /\ n <= Cap
      BY Zenon DEF IInv, TypeOK
    <2>2. W \in Nat /\ Cap \in Nat \ {0} /\ n \in Index
      BY <2>1, IndexType, Zenon
    <2> QED  BY <2>1, <2>2 DEF Index
  <1>q. /\ Queue \in Seq(Byte) /\ Len(Queue) = n
        /\ \A i \in 1 .. n : Add(tail, i - 1) \in Index
                              /\ Queue[i] = buf[Slot(Add(tail, i - 1))]
    BY QueueIsSeq, Zenon DEF QueueFacts
  <1>qq. /\ Queue' \in Seq(Byte) /\ Len(Queue') = n'
         /\ \A i \in 1 .. n' : Queue'[i] = buf'[Slot(Add(tail', i - 1))]
    <2>1. QueueFacts'
      BY QueueIsSeq, PTL
    <2> QED  BY <2>1, Zenon DEF QueueFacts
  <1>s. ASSUME UNCHANGED <<head, tail, buf, sent, taken>> PROVE [F!Next]_(F!vars)
    BY <1>s, SameQueue, Zenon DEF F!vars
  <1>1. CASE WriteCall
    BY <1>1, <1>s, Zenon DEF WriteCall, ring, cons
  <1>2. CASE PushLoadHead
    BY <1>2, <1>s, Zenon DEF PushLoadHead, ring, cons
  <1>3. CASE PushLoadTail
    <2>1. CASE Sub(ph, tail) > Cap - 1
      <3>1. ph = head
        BY <1>3, Zenon DEF PushLoadTail, IInv, ProducerInv
      <3>2. Len(Queue) = Cap
        BY <1>0, <1>q, <2>1, <3>1
      <3>3. Queue' = Queue /\ sent' = Refused /\ taken' = taken
        BY <1>3, <2>1, SameQueue, Zenon DEF PushLoadTail, ring, cons
      <3> QED  BY <3>2, <3>3, Zenon DEF F!Next, F!PushFull, F!Refused, Refused
    <2>2. CASE ~(Sub(ph, tail) > Cap - 1)
      BY <1>3, <2>2, <1>s, Zenon DEF PushLoadTail, ring, cons
    <2> QED  BY <2>1, <2>2, Zenon
  <1>6. CASE ReadCall
    BY <1>6, <1>s, Zenon DEF ReadCall, ring, prod
  <1>7. CASE PopLoadTail
    BY <1>7, <1>s, Zenon DEF PopLoadTail, ring, prod
  <1>8. CASE PopLoadHead
    <2>1. CASE head = ct
      <3>1. head = tail
        BY <1>8, <2>1, Zenon DEF PopLoadHead, IInv, ConsumerInv
      <3>2. Queue = <<>>
        BY <1>0, <1>q, <3>1, SubStep
      <3>3. Queue' = Queue /\ taken' = Refused /\ sent' = sent
        BY <1>8, <2>1, SameQueue, Zenon DEF PopLoadHead, ring, prod
      <3> QED  BY <3>2, <3>3, Zenon DEF F!Next, F!PopEmpty, F!Refused, Refused
    <2>2. CASE head # ct
      BY <1>8, <2>2, <1>s, Zenon DEF PopLoadHead, ring, prod
    <2> QED  BY <2>1, <2>2, Zenon
  <1>9. CASE PopRead
    BY <1>9, <1>s, Zenon DEF PopRead, ring, prod
  <1>11. CASE CountLoadHead
    BY <1>11, <1>s, Zenon DEF CountLoadHead, ring, prod, cons
  <1>12. CASE CountLoadTail
    BY <1>12, <1>s, Zenon DEF CountLoadTail, ring, prod, cons
  <1>13. CASE UNCHANGED vars
    BY <1>13, <1>s, Zenon DEF vars, ring, prod, cons
  <1>4. CASE PushWrite
    <2>1. /\ ph = head /\ n < Cap
          /\ buf' = [buf EXCEPT ![Slot(head)] = pb]
          /\ UNCHANGED <<head, tail, sent, taken>>
      BY <1>4, Zenon DEF PushWrite, IInv, ProducerInv, cons
    <2>2. ASSUME NEW i \in 1 .. n
          PROVE  buf'[Slot(Add(tail, i - 1))] = buf[Slot(Add(tail, i - 1))]
      <3> DEFINE a == Add(tail, i - 1)
      <3>1. a \in Index
        BY <1>q, Zenon
      <3>2. head # a /\ Sub(head, a) < Cap
        BY <1>0, <2>1 DEF Sub, Add, Index
      <3>3. Slot(head) # Slot(a)
        BY <1>0, <3>1, <3>2, SlotDistinct, Zenon
      <3>4. Slot(a) \in 0 .. Cap - 1
        BY <3>1, IndexType, Zenon
      <3> QED  BY <2>1, <3>3, <3>4, Zenon DEF IInv, TypeOK
    <2>3. Queue' = Queue
      BY <2>1, <2>2, Zenon DEF Queue
    <2> QED  BY <2>1, <2>3, Zenon DEF F!vars
  <1>5. CASE PushPublish
    <2>1. /\ ph = head /\ n < Cap /\ buf[Slot(head)] = pb /\ pb \in Byte
          /\ head' = Add(head, 1) /\ sent' = Done(pb)
          /\ UNCHANGED <<tail, buf, taken>>
      BY <1>5, Zenon DEF PushPublish, IInv, TypeOK, ProducerInv, cons
    <2>2. n' = n + 1
      BY <1>0, <2>1, SubStep, Zenon
    <2>3. Add(tail, n) = head
      BY <1>0, SMTT(30) DEF Sub, Add, Index
    <2>4. Queue' = Append(Queue, pb)
      <3>1. \A i \in 1 .. n : Queue'[i] = Queue[i]
        BY <1>0, <1>q, <1>qq, <2>1, <2>2, SMTT(30)
      <3>2. Queue'[n + 1] = pb
        BY <1>0, <1>qq, <2>1, <2>2, <2>3
      <3> QED  BY <1>0, <1>q, <1>qq, <2>1, <2>2, <3>1, <3>2, SMTT(30)
    <2> QED
      BY <1>q, <2>1, <2>4, Zenon DEF F!Next, F!Push, F!Done, Done
  <1>10. CASE PopPublish
    <2>1. /\ ct = tail /\ n > 0 /\ buf[Slot(tail)] = cb
          /\ tail' = Add(tail, 1) /\ taken' = Done(cb)
          /\ UNCHANGED <<head, buf, sent>>
      BY <1>10, Zenon DEF PopPublish, IInv, ConsumerInv, prod
    <2>2. n' = n - 1
      BY <1>0, <2>1, SubStep, Zenon
    <2>3. \A i \in 1 .. n' : Add(tail', i - 1) = Add(tail, i)
      BY <1>0, <2>1, <2>2 DEF Sub, Add, Index
    <2>4. Queue # <<>> /\ Head(Queue) = cb
      <3>1. Add(tail, 0) = tail
        BY <1>0, SMTT(30) DEF Add, Index
      <3>2. Queue[1] = cb
        BY <1>0, <1>q, <2>1, <3>1, SMTT(30)
      <3> QED  BY <1>0, <1>q, <2>1, <3>2
    <2>5. Queue' = Tail(Queue)
      <3>1. \A i \in 1 .. n' : Queue'[i] = Queue[i + 1]
        BY <1>0, <1>q, <1>qq, <2>1, <2>2, <2>3, SMTT(30)
      <3> QED  BY <1>0, <1>q, <1>qq, <2>2, <2>4, <3>1, SMTT(30)
    <2> QED
      BY <2>1, <2>4, <2>5, Zenon DEF F!Next, F!Pop, F!Done, Done
  <1> QED
    BY <1>1, <1>2, <1>3, <1>4, <1>5, <1>6, <1>7, <1>8, <1>9, <1>10, <1>11, <1>12,
       <1>13, Zenon DEF Next, Producer, Consumer

\* For every capacity, index width and alphabet the ring implements the bounded
\* first-in first-out queue: riv_ring_push and riv_ring_pop are linearizable.
THEOREM RingImplementsFifo == Spec => Linearizable
  BY InitRefines, StepRefines, Invariance, PTL DEF Spec, F!Spec, Linearizable
=============================================================================
