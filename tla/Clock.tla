-------------------------------- MODULE Clock --------------------------------
(***************************************************************************)
(* include/rivet/time.h: reading a 64-bit counter and waiting for it, on   *)
(* the three kinds of target the header has code for: one that reads 64    *)
(* bits at once, RV32, and 32-bit ARM.  A word holds HALF values (2^32 in  *)
(* the code); the counter is clk, the cycle counter for a busy wait and    *)
(* riv_ticks, moved by riv_tick in an interrupt, for a delay.              *)
(***************************************************************************)
EXTENDS Task, FiniteSets

CONSTANTS HALF,
          CLK_MAX,             \* bound: the run of the counter, below HALF^2
          Waits,               \* how many cycles or milliseconds are waited for
          TICKS_PER_MS_10      \* riv_ticks_per_sec, in ticks per ten milliseconds

ASSUME ClockAssumption ==
    /\ HALF \in Nat \ {0} /\ CLK_MAX \in 0 .. HALF * HALF - 1
    /\ Waits \subseteq Nat /\ TICKS_PER_MS_10 \in Nat \ {0}

VARIABLES target, clk,
          call,         \* "none", "cycles" (riv_busy_wait_cycles), "ms" (riv_delay_ms)
          amount, goal, \* its argument; NoGoal, or where it starts (cycles) or ends (ms)
          step, hi, lo, \* of a read in several loads
          value,        \* what the last read returned, NoValue before
          read_from,    \* clk when the read began
          begun,        \* clk when the call was made
          split          \* a 32-bit target took the halves of riv_ticks apart

clock_vars == <<target, clk, call, amount, goal, step, hi, lo, value, read_from, begun, split>>

NoValue == -1
NoGoal == -1

ClockInit(targets) ==
    /\ target \in targets /\ clk = 0 /\ call = "none" /\ amount = 0 /\ goal = NoGoal
    /\ step = "first" /\ hi = 0 /\ lo = 0 /\ value = NoValue /\ read_from = 0 /\ begun = 0 /\ split = FALSE

riv_tick ==
    /\ clk < CLK_MAX /\ clk' = clk + 1
    /\ UNCHANGED <<target, call, amount, goal, step, hi, lo, value, read_from, begun, split>>

Call(kind, n) ==
    /\ call = "none" /\ call' = kind /\ amount' = n /\ goal' = NoGoal
    /\ step' = "first" /\ hi' = 0 /\ lo' = 0 /\ value' = NoValue /\ read_from' = clk /\ begun' = clk
    /\ UNCHANGED <<target, clk, split>>

High == clk \div HALF
Low == clk % HALF

Reading == call # "none" /\ value = NoValue

\* The 64-bit targets, and on ARM the 32-bit cycle counter, are read at once.
ReadWhole ==
    /\ Reading /\ step = "first"
    /\ target = "word64" \/ (target = "arm" /\ call = "cycles")
    /\ value' = IF target = "arm" THEN Low ELSE clk
    /\ UNCHANGED <<target, clk, call, amount, goal, step, hi, lo, read_from, begun, split>>

\* hi != hi2
Again == hi # High

\* rdcycleh, rdcycle, rdcycleh, until both high halves agree.
ReadRv32 ==
    /\ Reading /\ target = "rv32" /\ call = "cycles"
    /\ CASE step = "first" -> hi' = High /\ step' = "low" /\ UNCHANGED <<lo, value>>
         [] step = "low" -> lo' = Low /\ step' = "high" /\ UNCHANGED <<hi, value>>
         [] OTHER -> /\ step' = "first" /\ UNCHANGED <<hi, lo>>
                     /\ value' = IF Again THEN NoValue ELSE hi * HALF + lo
    /\ UNCHANGED <<target, clk, call, amount, goal, read_from, begun, split>>

\* riv_ticks on a 32-bit target: two loads, in the order the compiler chose.
ReadHalves ==
    /\ Reading /\ target # "word64" /\ call = "ms"
    /\ CASE step = "first" -> \/ hi' = High /\ step' = "low" /\ UNCHANGED <<lo, value, split>>
                              \/ lo' = Low /\ step' = "high" /\ UNCHANGED <<hi, value, split>>
         [] step = "low" -> value' = hi * HALF + Low /\ split' = (split \/ hi # High) /\ step' = "first" /\ UNCHANGED <<hi, lo>>
         [] OTHER -> value' = High * HALF + lo /\ split' = (split \/ High # read_from \div HALF) /\ step' = "first" /\ UNCHANGED <<hi, lo>>
    /\ UNCHANGED <<target, clk, call, amount, goal, read_from, begun>>

\* riv_now_ms of a value read.
riv_now_ms(v) == (v * 10) \div TICKS_PER_MS_10

NewRead == value' = NoValue /\ step' = "first" /\ hi' = 0 /\ lo' = 0 /\ read_from' = clk

\* The first read sets the goal.
Start ==
    /\ value # NoValue /\ goal = NoGoal
    /\ goal' = IF call = "cycles" THEN value ELSE riv_now_ms(value) + amount
    /\ NewRead
    /\ UNCHANGED <<target, clk, call, amount, begun, split>>

\* Mutant of Elapsed: one short.
ElapsedEarly == IF call = "cycles" THEN ((value - goal) % (HALF * HALF)) + 1 >= amount ELSE riv_now_ms(value) + 1 >= goal

\* The loop's condition is over.
Elapsed == IF call = "cycles" THEN (value - goal) % (HALF * HALF) >= amount ELSE riv_now_ms(value) >= goal

Loop ==
    /\ value # NoValue /\ goal # NoGoal /\ ~Elapsed /\ NewRead
    /\ UNCHANGED <<target, clk, call, amount, goal, begun, split>>

Return ==
    /\ value # NoValue /\ goal # NoGoal /\ Elapsed
    /\ call' = "none" /\ goal' = NoGoal /\ amount' = 0 /\ begun' = 0 /\ NewRead /\ split' = FALSE
    /\ UNCHANGED <<target, clk>>

ClockNext ==
    \/ riv_tick \/ ReadWhole \/ ReadRv32 \/ ReadHalves \/ Start \/ Loop \/ Return
    \/ \E kind \in {"cycles", "ms"}, n \in Waits : Call(kind, n)

-----------------------------------------------------------------------------
\* What a read returns the counter had at some time during the read, on every
\* target that reads 64 bits at once and for the three loads of RV32.
ReadsInWindow ==
    value # NoValue /\ (target = "word64" \/ (target = "rv32" /\ call = "cycles")) => value \in read_from .. clk

\* riv_busy_wait_cycles comes back after at least the cycles asked for and
\* riv_delay_ms after more than one millisecond less than asked for; unless
\* ARM's 32-bit counter wrapped or the halves of riv_ticks were taken apart.
WaitsLongEnough ==
    value # NoValue /\ goal # NoGoal /\ Elapsed /\ ~split
        /\ ~(target = "arm" /\ call = "cycles" /\ value < goal) =>
            IF call = "cycles" THEN clk - begun >= amount
                               ELSE (clk - begun) * 10 + TICKS_PER_MS_10 > amount * TICKS_PER_MS_10

\* riv_cycle_count reads a value the counter had, and the waits built on reads
\* are long enough.
ReadsAndWaits == ReadsInWindow /\ WaitsLongEnough

-----------------------------------------------------------------------------
(* The clock beside the super loop of task.h: they share no state and      *)
(* interleave.                                                             *)

TimingSpec(targets) ==
    /\ riv_sched_init /\ ClockInit(targets)
    /\ [][(TaskNext /\ UNCHANGED clock_vars) \/ (ClockNext /\ UNCHANGED task_vars)]_<<task_vars, clock_vars>>

\* A task runs once in its period (task.h), and reading the clock, waiting and
\* delaying agree with the time that passes (time.h).
TimeKept == TasksOnTime /\ ReadsAndWaits
=============================================================================
