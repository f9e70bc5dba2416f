---------------------------- MODULE TicklessIdle ----------------------------
(***************************************************************************)
(* Tickless idle: the wakelock of freertos_pmu.c, the idle task's way into *)
(* sleep (tasks.c and the Cortex-M3 port), and the correction of the       *)
(* kernel's tick after it, from a microsecond clock made of a 32 kHz one.  *)
(*                                                                         *)
(* Only differences of tick counts matter: due[t] is a delayed task's wake *)
(* time minus xTickCount, and -1 once the count has passed it, no matter   *)
(* how far.                                                                *)
(***************************************************************************)
EXTENDS Integers, FiniteSets

CONSTANTS
    Task,           \* the tasks above the idle task, each with a wakelock bit
    Os,             \* the one whose bit is set at boot (DEFAULT_WAKELOCK)
    MaxDelay,       \* longest vTaskDelay, in ticks
    MaxSuppressed,  \* xMaximumPossibleSuppressedTicks
    TickUs,         \* microseconds of a tick (1000)
    UsMod,          \* 2^32, where the microsecond clock wraps
    TimerMod,       \* 2^32, where the G-timer wraps, in counts of 1 us here
    Late,           \* latest return from a sleep after its time, in us
    MaxMissing,     \* bound on what late returns may add up to
    MaxPended       \* bound on the ticks pended while the scheduler is off

ASSUME TicklessAssumption ==
    /\ Os \in Task
    /\ {MaxDelay, MaxSuppressed, TickUs, UsMod, TimerMod} \subseteq Nat \ {0}
    /\ {Late, MaxMissing, MaxPended} \subseteq Nat
    /\ TickUs <= MaxMissing + 1     \* the rest of a tick is kept in any case

(* The clock's range is far above the longest sleep, and where the G-timer *)
(* wraps the microseconds are far from their own wrap (2222981120 of 2^32).*)
LongestSleep == MaxSuppressed * TickUs + Late
ASSUME ClockAssumption ==
    /\ LongestSleep + MaxMissing < UsMod
    /\ LongestSleep < TimerMod % UsMod

Event == {"STIMER", "GPIO"}

VARIABLES
    wakelock,       \* the modules whose bit is set in the word
    wakeups,        \* wakeup_event
    missing,        \* missing_tick
    st,             \* what each task does
    due,            \* wake time minus xTickCount of each delayed task
    op, reg,        \* a task's wakelock call in progress, the word it loaded
    held,           \* the modules that acquired and have not begun to release
    pc,             \* where the idle task is
    stime,          \* the idle time it chose to sleep
    pended,         \* uxPendedTicks
    timer,          \* the G-timer
    lag,            \* time slept that the tick count was not stepped by
    misread,        \* the clock wrapped, or did not move, during some sleep
    still,          \* it did not move during the sleep that just ended
    overrun         \* the port stepped a tick after a sleep of the whole time

lockVars  == <<wakelock, op, reg, held>>
sleepVars == <<missing, timer, lag, misread, still, overrun>>
vars == <<lockVars, sleepVars, wakeups, st, due, pc, stime, pended>>

Idle == {"run", "suspended", "chosen", "asleep", "resume"}

TypeOK ==
    /\ wakelock \subseteq Task /\ held \subseteq Task
    /\ wakeups \subseteq Event
    /\ missing \in 0 .. UsMod - 1
    /\ st \in [Task -> {"ready", "delayed", "blocked"}]
    /\ due \in [Task -> -1 .. MaxDelay]
    /\ op \in [Task -> {"none", "acquire", "release"}]
    /\ reg \in [Task -> SUBSET Task]
    /\ pc \in Idle
    /\ stime \in 0 .. MaxSuppressed
    /\ pended \in 0 .. MaxPended
    /\ timer \in 0 .. TimerMod - 1
    /\ lag \in Int /\ misread \in BOOLEAN /\ still \in BOOLEAN /\ overrun \in BOOLEAN

Init ==
    /\ wakelock = {Os} /\ held = {Os}
    /\ wakeups = Event
    /\ missing = 0
    /\ st = [t \in Task |-> "ready"]
    /\ due = [t \in Task |-> 0]
    /\ op = [t \in Task |-> "none"]
    /\ reg = [t \in Task |-> {}]
    /\ pc = "run" /\ stime = 0 /\ pended = 0
    /\ timer = 0 /\ lag = 0 /\ misread = FALSE /\ still = FALSE /\ overrun = FALSE

-----------------------------------------------------------------------------
(* The tasks.                                                              *)

(* vTaskSuspendAll keeps every task but the idle one from running, and     *)
(* interrupts are masked while the system sleeps.                          *)
SchedulerOn == pc = "run"
Masked == pc = "asleep"
Runs(t) == SchedulerOn /\ st[t] = "ready"

(* The idle task runs when nothing else can, or when it has suspended the  *)
(* scheduler.                                                              *)
IdleRuns == ~SchedulerOn \/ \A t \in Task : st[t] # "ready"

(* The read of the read-modify-write: wakelock |= lock_id, &= ~lock_id.    *)
LoadWakelock(t, o) ==
    /\ Runs(t) /\ op[t] = "none"
    /\ op' = [op EXCEPT ![t] = o]
    /\ reg' = [reg EXCEPT ![t] = wakelock]
    /\ held' = IF o = "release" THEN held \ {t} ELSE held
    /\ UNCHANGED <<wakelock, sleepVars, wakeups, st, due, pc, stime, pended>>

(* And the write.                                                          *)
StoreWakelock(t) ==
    /\ Runs(t) /\ op[t] # "none"
    /\ \/ /\ op[t] = "acquire"
          /\ wakelock' = reg[t] \cup {t} /\ held' = held \cup {t}
       \/ /\ op[t] = "release"
          /\ wakelock' = reg[t] \ {t} /\ held' = held
    /\ op' = [op EXCEPT ![t] = "none"]
    /\ reg' = [reg EXCEPT ![t] = {}]
    /\ UNCHANGED <<sleepVars, wakeups, st, due, pc, stime, pended>>

AddWakeupEvent(t, e) ==
    /\ Runs(t) /\ op[t] = "none"
    /\ wakeups' = wakeups \cup {e}
    /\ UNCHANGED <<lockVars, sleepVars, st, due, pc, stime, pended>>

(* The system timer stays, whatever is taken out.                          *)
WithoutEvent(e) == (wakeups \ {e}) \cup {"STIMER"}

DelWakeupEvent(t, e) ==
    /\ Runs(t) /\ op[t] = "none"
    /\ wakeups' = WithoutEvent(e)
    /\ UNCHANGED <<lockVars, sleepVars, st, due, pc, stime, pended>>

(* A task waits for a time (vTaskDelay) or for an event without a timeout. *)
Delay(t, d) ==
    /\ Runs(t) /\ op[t] = "none"
    /\ st' = [st EXCEPT ![t] = "delayed"]
    /\ due' = [due EXCEPT ![t] = d]
    /\ UNCHANGED <<lockVars, sleepVars, wakeups, pc, stime, pended>>

Block(t) ==
    /\ Runs(t) /\ op[t] = "none"
    /\ st' = [st EXCEPT ![t] = "blocked"]
    /\ UNCHANGED <<lockVars, sleepVars, wakeups, due, pc, stime, pended>>

(* An interrupt readies a waiting task; while the scheduler is suspended   *)
(* the task goes to xPendingReadyList and does not run.                    *)
Interrupt(t) ==
    /\ ~Masked /\ st[t] = "blocked"
    /\ st' = [st EXCEPT ![t] = "ready"]
    /\ UNCHANGED <<lockVars, sleepVars, wakeups, due, pc, stime, pended>>

-----------------------------------------------------------------------------
(* The tick.                                                               *)

(* xTaskIncrementTick: n ticks at once, every task that is due gets ready. *)
Delayed == {t \in Task : st[t] = "delayed"}
Expired(n) == {t \in Delayed : due[t] <= n}
IncrementTick(n) ==
    /\ st' = [t \in Task |-> IF n > 0 /\ t \in Expired(n) THEN "ready" ELSE st[t]]
    /\ due' = [t \in Task |->
                  IF n > 0 /\ t \in Expired(n) THEN 0
                  ELSE IF t \in Delayed THEN due[t] - n ELSE due[t]]

(* The SysTick interrupt. While the scheduler is suspended it only counts. *)
SysTick ==
    /\ ~Masked
    /\ timer' = (timer + TickUs) % TimerMod
    /\ IF SchedulerOn
       THEN IncrementTick(1) /\ pended' = pended
       ELSE /\ pended < MaxPended
            /\ pended' = pended + 1
            /\ UNCHANGED <<st, due>>
    /\ UNCHANGED <<lockVars, missing, lag, misread, still, overrun, wakeups, pc, stime>>

-----------------------------------------------------------------------------
(* The idle task.                                                          *)

Least(a, b) == IF a < b THEN a ELSE b

(* prvGetExpectedIdleTime: xNextTaskUnblockTime - xTickCount, unsigned. It *)
(* is out of range, and later cut, when no task is delayed or the count    *)
(* has passed a wake time.                                                 *)
ExpectedIdleTime ==
    IF Delayed = {} \/ \E t \in Delayed : due[t] < 0
    THEN MaxSuppressed + 1
    ELSE CHOOSE d \in {due[t] : t \in Delayed} : \A t \in Delayed : d <= due[t]

(* configEXPECTED_IDLE_TIME_BEFORE_SLEEP *)
LongEnough == ExpectedIdleTime >= 2

IdleSuspendsAll ==
    /\ pc = "run" /\ IdleRuns /\ LongEnough
    /\ pc' = "suspended"
    /\ UNCHANGED <<lockVars, sleepVars, wakeups, st, due, stime, pended>>

SuppressedTicksUncut == ExpectedIdleTime                              \* mutant
(* The port cuts the time to what SysTick can count.                       *)
SuppressedTicks == Least(ExpectedIdleTime, MaxSuppressed)

(* The time is sampled again and freertos_ready_to_sleep is asked.         *)
ReadyToSleep == wakelock = {}

IdleChooses ==
    /\ pc = "suspended"
    /\ IF LongEnough /\ ReadyToSleep
       THEN /\ pc' = "chosen"
            /\ stime' = SuppressedTicks
       ELSE pc' = "resume" /\ stime' = 0
    /\ UNCHANGED <<lockVars, sleepVars, wakeups, st, due, pended>>

SleepConfirmedAlways == TRUE                                          \* mutant
(* eTaskConfirmSleepModeStatus, with interrupts masked: a task that was    *)
(* readied in the meantime aborts the sleep.                               *)
SleepConfirmed == \A t \in Task : st[t] # "ready"

IdleConfirms ==
    /\ pc = "chosen"
    /\ pc' = IF SleepConfirmed THEN "asleep" ELSE "resume"
    /\ UNCHANGED <<lockVars, sleepVars, wakeups, st, due, stime, pended>>

(* us_ticker_read: 32 bit microseconds of a 32 bit counter, each with a    *)
(* wrap of its own.                                                        *)
Us(count) == count % UsMod

(* The time slept, from the readings before and after.                     *)
Passed(before, after) ==
    IF after > before THEN after - before ELSE (UsMod - 1 - before) + after

WithMissingForgotten(passed) == passed                                \* mutant
StepsUncut(passed) == ((passed + missing) % UsMod) \div TickUs        \* mutant
KeptUnlessLate(passed) ==                                             \* mutant
    IF (passed + missing) % UsMod > stime * TickUs THEN 0
    ELSE ((passed + missing) % UsMod) % TickUs
(* What freertos_pre_sleep_processing makes of it: the ticks to step, and  *)
(* what it keeps for the next time.                                        *)
WithMissing(passed) == (passed + missing) % UsMod
Steps(passed) ==
    IF WithMissing(passed) > stime * TickUs THEN stime
    ELSE WithMissing(passed) \div TickUs
Kept(passed) ==
    IF WithMissing(passed) > stime * TickUs
    THEN WithMissing(passed) - stime * TickUs
    ELSE WithMissing(passed) % TickUs

(* What the port adds after the sleep. SysTick runs again while interrupts *)
(* are still masked. freertos_post_sleep_processing makes the expected     *)
(* time the ticks that SysTick still has to count, so that the port finds  *)
(* none completed, unless one ends before it reads SysTick again: then it  *)
(* steps that tick. It is time awake, and no part of lag.                  *)
PortSteps == {0, 1}

StepTick(n) ==
    due' = [t \in Task |->
               IF t \in Delayed THEN (IF due[t] < n THEN -1 ELSE due[t] - n) ELSE due[t]]

(* The sleep of k microseconds and all that follows it with interrupts     *)
(* masked.                                                                 *)
Sleep(k) ==
    LET after  == (timer + k) % TimerMod
        passed == Passed(Us(timer), Us(after))
    IN  /\ pc = "asleep"
        /\ missing' = Kept(passed)
        /\ misread' = (misread \/ Us(after) <= Us(timer))
        /\ still' = (Us(after) = Us(timer))
        /\ lag' = IF misread' THEN 0 ELSE lag + k - TickUs * Steps(passed)
        /\ \E p \in PortSteps :
              /\ StepTick(Steps(passed) + p)
              /\ timer' = (after + p * TickUs) % TimerMod
              /\ overrun' = (overrun \/ (p = 1 /\ Steps(passed) = stime))
        /\ pc' = "resume"
        /\ stime' = 0
        /\ UNCHANGED <<lockVars, wakeups, st, pended>>

(* The system timer ends the sleep when its time is over, perhaps late.    *)
TimerEndsSleep ==
    /\ "STIMER" \in wakeups
    /\ \E l \in 0 .. Late :
          /\ l = 0 \/ missing + l <= MaxMissing
          /\ Sleep(stime * TickUs + l)

(* Any other event ends it before; without any event there is no sleep.    *)
EventEndsSleep ==
    /\ wakeups # {"STIMER"}
    /\ \E k \in 0 .. stime * TickUs : (wakeups = {} => k = 0) /\ Sleep(k)

(* xTaskResumeAll: the pended ticks are counted now.                       *)
IdleResumes ==
    /\ pc = "resume"
    /\ pc' = "run"
    /\ IncrementTick(pended)
    /\ pended' = 0
    /\ still' = FALSE
    /\ UNCHANGED <<lockVars, missing, timer, lag, misread, overrun, wakeups, stime>>

-----------------------------------------------------------------------------
IdleStep == IdleSuspendsAll \/ IdleChooses \/ IdleConfirms \/ IdleResumes

TaskStep(t) ==
    \/ \E o \in {"acquire", "release"} : LoadWakelock(t, o)
    \/ StoreWakelock(t)
    \/ \E e \in Event : AddWakeupEvent(t, e) \/ DelWakeupEvent(t, e)
    \/ \E d \in 1 .. MaxDelay : Delay(t, d)
    \/ Block(t)

Next ==
    \/ \E t \in Task : TaskStep(t) \/ Interrupt(t)
    \/ SysTick
    \/ IdleStep
    \/ TimerEndsSleep
    \/ EventEndsSleep

Spec == Init /\ [][Next]_vars

(* The idle task goes on, the processor's tick comes while it is not held  *)
(* off, and the system timer ends a sleep.                                 *)
FairSpec ==
    /\ Spec
    /\ WF_vars(IdleStep)
    /\ WF_vars(SysTick)
    /\ WF_vars(TimerEndsSleep)

-----------------------------------------------------------------------------
(* Properties.                                                             *)

(* The system is asleep only with the wakelock word clear and no task      *)
(* ready: neither a task that was about to set a bit nor an interrupt that *)
(* readied one can slip in between the idle task's tests and the sleep.    *)
SleepsOnlyWhenIdle ==
    pc = "asleep" => wakelock = {} /\ \A t \in Task : st[t] # "ready"

(* No step of the tick carries it past the wake time of a delayed task:    *)
(* what vTaskStepTick asserts (tasks.c:1872). The port's own step after a  *)
(* sleep of the whole time chosen does.                                    *)
NotPastWake == \A t \in Delayed : due[t] >= 0

(* Nothing else does: not the ticks of a misread clock, of a late return,  *)
(* of what is left of earlier sleeps or of the time before the sleep, nor  *)
(* the port's step after a sleep that ended early.                         *)
OnlyPortPassesWake == overrun \/ NotPastWake

(* No time slept is lost to the tick and none is counted twice: what was   *)
(* not stepped is in missing_tick, however short the sleeps are, as long   *)
(* as the clock never wrapped or stood still during one.                   *)
TimeKept == ~misread => lag = missing

(* A delayed task gets ready, though the system may sleep and be woken     *)
(* again and again before a whole tick has passed. Two things only can     *)
(* prevent it: a clock that stands still during sleeps, and a tick count   *)
(* that the port has carried past the wake time, since the time left then  *)
(* underflows and the idle task sleeps on.                                 *)
DelayedGetsReady ==
    \A t \in Task : (st[t] = "delayed") ~> (st[t] = "ready" \/ still \/ due[t] < 0)

(* A module that acquired its wakelock keeps the system awake until it     *)
(* releases it: the promise of acquire_wakelock.                           *)
WakelockHonoured == pc = "asleep" => held = {}
=============================================================================
