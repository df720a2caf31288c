-------------------------------- MODULE Task --------------------------------
(***************************************************************************)
(* include/rivet/task.h: the super-loop scheduler and its tick interrupt.  *)
(* Ticks are counted modulo TICK_MOD (2^32 in the code).                   *)
(***************************************************************************)
EXTENDS Integers, Sequences

CONSTANTS TICK_MOD,
          Periods,      \* a sequence: the tasks' period_ticks
          MAX_AGE       \* no task is left alone for longer: bounds the ghost

\* A period of more than half the counter's range is over before it begins.
ASSUME TaskAssumption ==
    /\ TICK_MOD \in Nat \ {0}
    /\ Periods \in Seq(0 .. TICK_MOD - TICK_MOD \div 2) /\ Periods # <<>>

TaskIds == DOMAIN Periods

VARIABLES ticks, now, next_tick, enabled,
          at,           \* the index riv_sched_run is at, 0 outside it
          age,          \* ticks since the `now` from which next_tick was computed, as they are
          since_now     \* ticks since `now` was read

task_vars == <<ticks, now, next_tick, enabled, at, age, since_now>>

riv_sched_init ==
    /\ ticks = 0 /\ now = 0 /\ at = 0 /\ since_now = 0
    /\ next_tick = [i \in TaskIds |-> Periods[i] % TICK_MOD]
    /\ enabled = [i \in TaskIds |-> TRUE]
    /\ age = [i \in TaskIds |-> 0]

riv_sched_tick ==
    /\ \A i \in TaskIds : age[i] < MAX_AGE
    /\ ticks' = (ticks + 1) % TICK_MOD
    /\ age' = [i \in TaskIds |-> age[i] + 1]
    /\ since_now' = IF at = 0 THEN 0 ELSE since_now + 1
    /\ UNCHANGED <<now, next_tick, enabled, at>>

RunBegin ==
    /\ at = 0 /\ at' = 1 /\ now' = ticks /\ since_now' = 0
    /\ UNCHANGED <<ticks, next_tick, enabled, age>>

\* (riv_i32)(now - t->next_tick) >= 0
Due(i) == (now - next_tick[i]) % TICK_MOD < TICK_MOD \div 2

After(i) == IF i = Len(Periods) THEN 0 ELSE i + 1

TaskSkip ==
    /\ at # 0 /\ ~(enabled[at] /\ Due(at))
    /\ at' = After(at) /\ since_now' = IF at' = 0 THEN 0 ELSE since_now
    /\ UNCHANGED <<ticks, now, next_tick, enabled, age>>

\* The task runs, and may switch tasks on or off.
TaskRun(switched) ==
    /\ at # 0 /\ enabled[at] /\ Due(at)
    /\ next_tick' = [next_tick EXCEPT ![at] = (now + Periods[at]) % TICK_MOD]
    /\ age' = [age EXCEPT ![at] = since_now]
    /\ enabled' = [i \in TaskIds |-> IF i \in switched THEN ~enabled[i] ELSE enabled[i]]
    /\ at' = After(at) /\ since_now' = IF at' = 0 THEN 0 ELSE since_now
    /\ UNCHANGED <<ticks, now>>

TaskNext ==
    \/ riv_sched_tick \/ RunBegin \/ TaskSkip
    \/ \E switched \in {{}} \cup {{i} : i \in TaskIds} : TaskRun(switched)

-----------------------------------------------------------------------------
\* A task is run by the first pass that begins period_ticks or more after the
\* one that last ran it, and by none before, whenever the counter wraps; unless
\* it was left alone for half the counter's range past its time.
TasksOnTime ==
    at # 0 => LET passed == age[at] - since_now IN
                  passed < Periods[at] + TICK_MOD \div 2 => (Due(at) <=> passed >= Periods[at])
=============================================================================
