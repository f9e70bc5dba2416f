------------------------ MODULE TicklessIdle_proofs -------------------------
(***************************************************************************)
(* Proofs about TicklessIdle for any tasks, delays and widths of the       *)
(* clocks: no sleep with work to do, no wake time passed except by the     *)
(* port's own step, no time lost.                                          *)
(***************************************************************************)
EXTENDS TicklessIdle, Extrema

(* Nobody can take a wakelock after the idle task has asked.               *)
LockClear == pc \in {"chosen", "asleep"} => wakelock = {}
NoneReady == pc = "asleep" => \A t \in Task : st[t] # "ready"
MissingBounded == ~misread => missing <= MaxMissing
(* The time chosen to sleep ends before any delayed task is due; the ticks *)
(* that pass before the sleep are pended.                                  *)
ChoiceFits == pc \in {"chosen", "asleep"} => \A t \in Delayed : stime <= due[t]
Punctual == NotPastWake /\ ChoiceFits

IInv ==
    /\ TypeOK /\ LockClear /\ NoneReady /\ MissingBounded /\ TimeKept
    /\ overrun \/ Punctual

-----------------------------------------------------------------------------
(* Arithmetic.                                                             *)

(* What is assumed of the constants. *)
LEMMA Constants ==
    /\ MaxDelay \in Nat \ {0} /\ MaxSuppressed \in Nat \ {0} /\ TickUs \in Nat \ {0}
    /\ UsMod \in Nat \ {0} /\ TimerMod \in Nat \ {0}
    /\ Late \in Nat /\ MaxMissing \in Nat /\ MaxPended \in Nat
    /\ TickUs <= MaxMissing + 1 /\ Os \in Task
BY TicklessAssumption

(* Quotient and remainder of naturals. *)
LEMMA DivMod ==
    ASSUME NEW a \in Nat, NEW n \in Nat \ {0}
    PROVE  /\ a \div n \in Nat /\ a % n \in 0 .. n - 1
           /\ a = n * (a \div n) + (a % n) /\ a \div n <= a
OBVIOUS

(* A number below the modulus is its own remainder; so is the rest of one  *)
(* that is less than two moduli.                                           *)
LEMMA SmallMod ==
    ASSUME NEW a \in Nat, NEW n \in Nat \ {0}
    PROVE  /\ a < n => a % n = a
           /\ n <= a /\ a < 2 * n => a % n = a - n
OBVIOUS

(* A multiple of the modulus and a rest below it have that rest as their   *)
(* remainder.                                                              *)
LEMMA ModUnique ==
    ASSUME NEW n \in Nat \ {0}, NEW q \in Nat, NEW r \in 0 .. n - 1
    PROVE  (n * q + r) % n = r
<1> DEFINE a == n * q + r
           p == a \div n
           s == a % n
<1>1. a \in Nat
  OBVIOUS
<1>2. a = n * p + s /\ p \in Nat /\ s \in 0 .. n - 1
  BY <1>1, DivMod
<1>3. n * (q - p) = s - r
  BY <1>2
<1> HIDE DEF a, p, s
<1>4. ~(q - p >= 1)
  <2> SUFFICES ASSUME q - p >= 1 PROVE FALSE
    OBVIOUS
  <2>1. n * (q - p) >= n
    BY <1>2
  <2> QED
    BY <2>1, <1>2, <1>3
<1>5. ~(p - q >= 1)
  <2> SUFFICES ASSUME p - q >= 1 PROVE FALSE
    OBVIOUS
  <2>1. n * (q - p) <= 0 - n
    BY <1>2
  <2> QED
    BY <2>1, <1>2, <1>3
<1>6. p = q
  BY <1>2, <1>4, <1>5
<1>7. s = r
  BY <1>2, <1>3, <1>6
<1> QED
  BY <1>7 DEF s, a

(* The remainder of a sum whose second term is below the modulus. *)
LEMMA ModPlus ==
    ASSUME NEW a \in Nat, NEW k \in Nat, NEW n \in Nat \ {0}, k < n
    PROVE  (a + k) % n = IF (a % n) + k < n THEN (a % n) + k ELSE (a % n) + k - n
<1>1. PICK q \in Nat, r \in 0 .. n - 1 : a = n * q + r /\ a % n = r
  BY DivMod
<1>2. CASE r + k < n
  <2>1. a + k = n * q + (r + k) /\ r + k \in 0 .. n - 1
    BY <1>1, <1>2
  <2> QED
    BY <1>1, <1>2, <2>1, ModUnique
<1>3. CASE ~(r + k < n)
  <2>1. a + k = n * (q + 1) + (r + k - n) /\ r + k - n \in 0 .. n - 1
    BY <1>1, <1>3
  <2>2. \A p \in Nat, s \in 0 .. n - 1 : (n * p + s) % n = s
    BY ModUnique
  <2>3. q + 1 \in Nat
    OBVIOUS
  <2>4. (n * (q + 1) + (r + k - n)) % n = r + k - n
    BY <2>1, <2>2, <2>3
  <2> QED
    BY <1>1, <1>3, <2>1, <2>4
<1> QED
  BY <1>2, <1>3

(* A product of naturals grows with its factor. *)
LEMMA ProductGrows ==
    ASSUME NEW a \in Nat, NEW b \in Nat, NEW n \in Nat, a <= b
    PROVE  a * n \in Nat /\ a * n <= b * n
OBVIOUS

(* A quotient is no more than a bound whose multiple is not passed. *)
LEMMA DivBelow ==
    ASSUME NEW a \in Nat, NEW n \in Nat \ {0}, NEW q \in Nat, a <= q * n
    PROVE  a \div n <= q
OBVIOUS

-----------------------------------------------------------------------------
(* The operators of the model.                                             *)

(* The microsecond count that the timer shows, and how it goes on. *)
LEMMA UsOf ==
    ASSUME NEW count \in Nat
    PROVE  /\ Us(count) \in 0 .. UsMod - 1 /\ Us(count) <= count
           /\ count < UsMod => Us(count) = count
           /\ \A k \in Nat : k < UsMod =>
                Us(count + k) = IF Us(count) + k < UsMod THEN Us(count) + k
                                ELSE Us(count) + k - UsMod
<1>1. UsMod \in Nat \ {0}
  BY Constants
<1>2. count % UsMod \in 0 .. UsMod - 1 /\ (count < UsMod => count % UsMod = count)
  BY <1>1, DivMod, SmallMod, Zenon
<1>3. ASSUME NEW k \in Nat, k < UsMod
      PROVE  (count + k) % UsMod = IF (count % UsMod) + k < UsMod THEN (count % UsMod) + k
                                   ELSE (count % UsMod) + k - UsMod
  BY <1>1, <1>3, ModPlus, Zenon
<1>4. count % UsMod <= count
  <2> DEFINE r == count % UsMod
  <2>1. r \in 0 .. UsMod - 1 /\ (count < UsMod => r = count)
    BY <1>2
  <2> HIDE DEF r
  <2>2. r <= count
    BY <2>1, <1>1
  <2> QED
    BY <2>2 DEF r
<1> QED
  BY <1>2, <1>3, <1>4, Zenon DEF Us

(* The time between two readings is right if the clock went forward: it    *)
(* cannot have wrapped then, neither in microseconds nor in the timer.     *)
LEMMA PassedIsRight ==
    ASSUME NEW before \in 0 .. TimerMod - 1, NEW k \in Nat, k <= LongestSleep,
           NEW m \in Nat, m = before + k, NEW after, after = m % TimerMod
    PROVE  /\ after \in 0 .. TimerMod - 1
           /\ Us(before) \in 0 .. UsMod - 1 /\ Us(after) \in 0 .. UsMod - 1
           /\ Us(after) > Us(before) => Us(after) - Us(before) = k
<1>1. UsMod \in Nat \ {0} /\ TimerMod \in Nat \ {0} /\ MaxMissing \in Nat
  BY Constants
<1>2. LongestSleep \in Nat
  BY Constants DEF LongestSleep
<1>3. LongestSleep < UsMod /\ LongestSleep < Us(TimerMod)
  <2>1. LongestSleep + MaxMissing < UsMod /\ LongestSleep < Us(TimerMod)
    BY ClockAssumption, Zenon DEF Us
  <2> QED
    BY <1>1, <1>2, <2>1
<1>4. Us(TimerMod) \in 0 .. UsMod - 1 /\ Us(TimerMod) <= TimerMod
  BY <1>1, UsOf
<1>5. before \in Nat /\ before + k \in Nat /\ before + k < 2 * TimerMod
  BY <1>1, <1>2, <1>3, <1>4
<1>6. m < TimerMod => m % TimerMod = m
  BY <1>1, SmallMod, Zenon
<1>7. TimerMod <= m => m % TimerMod = m - TimerMod
  <2>1. m < 2 * TimerMod
    BY <1>5
  <2> QED
    BY <1>1, <2>1, SmallMod, Zenon
<1>8. (m < TimerMod => after = m) /\ (TimerMod <= m => after = m - TimerMod)
  BY <1>6, <1>7, Zenon
<1>9. after \in 0 .. TimerMod - 1
  BY <1>1, <1>5, <1>8
<1>10. Us(before) \in 0 .. UsMod - 1 /\ Us(after) \in 0 .. UsMod - 1
  <2>1. after \in Nat
    BY <1>1, <1>9
  <2> QED
    BY <1>5, <2>1, UsOf, Zenon
<1>11. CASE m < TimerMod
  <2>1. after = before + k
    BY <1>8, <1>11
  <2>2. k < UsMod
    BY <1>1, <1>2, <1>3
  <2>3. Us(before + k) = IF Us(before) + k < UsMod THEN Us(before) + k ELSE Us(before) + k - UsMod
    BY <1>5, <2>2, UsOf, Zenon
  <2> QED
    BY <1>1, <1>9, <1>10, <2>1, <2>2, <2>3
<1>12. CASE TimerMod <= m
  <2>1. PICK rest \in Nat : TimerMod = before + rest /\ rest \in 1 .. k
    BY <1>1, <1>5, <1>12
  <2>2. after = k - rest /\ after < UsMod /\ rest < UsMod
    BY <1>1, <1>2, <1>3, <1>5, <1>8, <1>12, <2>1
  <2>3. after \in Nat
    BY <1>1, <1>9
  <2>4. Us(after) = after
    BY <2>2, <2>3, UsOf, Zenon
  <2>5. Us(before + rest) =
            IF Us(before) + rest < UsMod THEN Us(before) + rest ELSE Us(before) + rest - UsMod
    BY <1>5, <2>1, <2>2, UsOf, Zenon
  <2>6. Us(before) + rest >= Us(TimerMod)
    BY <1>1, <1>4, <1>10, <2>1, <2>5
  <2> QED
    BY <1>1, <1>2, <1>3, <1>4, <1>9, <1>10, <2>1, <2>2, <2>4, <2>6
<1> QED
  BY <1>1, <1>5, <1>9, <1>10, <1>11, <1>12

(* The time between two readings of the timer is a natural number. *)
LEMMA PassedTypes ==
    ASSUME NEW before \in 0 .. UsMod - 1, NEW after \in 0 .. UsMod - 1
    PROVE  Passed(before, after) \in Nat
BY Constants DEF Passed

(* freertos_pre_sleep_processing: at most the ticks chosen are stepped,    *)
(* and the ticks stepped and what is kept make up the whole.               *)
LEMMA StepsKept ==
    ASSUME NEW passed \in Nat, missing \in 0 .. UsMod - 1, stime \in 0 .. MaxSuppressed
    PROVE  /\ Steps(passed) \in 0 .. stime
           /\ Kept(passed) \in 0 .. UsMod - 1
           /\ WithMissing(passed) = TickUs * Steps(passed) + Kept(passed)
           /\ Kept(passed) < TickUs \/ Kept(passed) = WithMissing(passed) - stime * TickUs
<1> DEFINE w == WithMissing(passed)
<1>1. w \in 0 .. UsMod - 1
  <2>1. passed + missing \in Nat
    BY Constants
  <2> QED
    BY <2>1, Constants, DivMod DEF WithMissing
<1> HIDE DEF w
<1>0. w \in Nat /\ TickUs \in Nat \ {0}
  BY <1>1, Constants
<1>2. stime * TickUs \in Nat /\ stime * TickUs = TickUs * stime /\ stime \in Nat
  BY Constants
<1>3. w \div TickUs \in Nat /\ w % TickUs \in 0 .. TickUs - 1
      /\ w = TickUs * (w \div TickUs) + (w % TickUs)
  BY <1>0, DivMod
<1>4. w <= stime * TickUs => w \div TickUs <= stime
  BY <1>0, <1>2, DivBelow
<1>5. w % TickUs <= w
  BY <1>1, <1>3, Constants
<1>6. /\ Steps(passed) = IF w > stime * TickUs THEN stime ELSE w \div TickUs
      /\ Kept(passed) = IF w > stime * TickUs THEN w - stime * TickUs ELSE w % TickUs
  BY DEF Steps, Kept, w
<1>7. CASE w > stime * TickUs
  <2>1. Steps(passed) = stime /\ Kept(passed) = w - stime * TickUs
    BY <1>6, <1>7
  <2>2. w - stime * TickUs \in 0 .. UsMod - 1
    <3>1. PICK p \in Nat : p = stime * TickUs
      BY <1>2
    <3> QED
      BY <1>0, <1>1, <1>7, <3>1, Constants
  <2>3. w = TickUs * stime + (w - stime * TickUs)
    BY <1>0, <1>2
  <2> QED
    BY <1>2, <2>1, <2>2, <2>3 DEF w
<1>8. CASE ~(w > stime * TickUs)
  <2>1. Steps(passed) = w \div TickUs /\ Kept(passed) = w % TickUs
    BY <1>6, <1>8
  <2>2. w \div TickUs <= stime
    BY <1>0, <1>2, <1>4, <1>8
  <2>3. w % TickUs \in 0 .. UsMod - 1 /\ w % TickUs < TickUs
    <3>1. PICK r : r = w % TickUs
      OBVIOUS
    <3>2. r \in 0 .. TickUs - 1 /\ r <= w
      BY <1>3, <1>5, <3>1, Zenon
    <3>3. r \in 0 .. UsMod - 1 /\ r < TickUs
      BY <1>0, <1>1, <3>2, Constants
    <3> QED
      BY <3>1, <3>3, Zenon
  <2> QED
    BY <1>2, <1>3, <2>1, <2>2, <2>3 DEF w
<1> QED
  BY <1>7, <1>8

(* prvGetExpectedIdleTime does not exceed the wake time of any task, as    *)
(* long as the tick count has passed none.                                 *)
LEMMA ExpectedBeforeDue ==
    ASSUME due \in [Task -> -1 .. MaxDelay], NotPastWake
    PROVE  ExpectedIdleTime \in Nat /\ \A t \in Delayed : ExpectedIdleTime <= due[t]
<1>1. CASE Delayed = {}
  BY <1>1, Constants DEF ExpectedIdleTime
<1>2. CASE Delayed # {}
  <2> DEFINE S == {due[t] : t \in Delayed}
             P(d) == d \in S /\ \A t \in Delayed : d <= due[t]
  <2>1. \A t \in Delayed : due[t] \in Nat
    BY DEF NotPastWake, Delayed
  <2>2. S \in SUBSET Nat /\ S # {}
    BY <1>2, <2>1
  <2>3. PICK x \in S : \A y \in S : x <= y
    BY <2>2, LeastNatural
  <2>4. P(x)
    BY <2>3
  <2>5. ~(Delayed = {} \/ \E t \in Delayed : due[t] < 0)
    BY <1>2 DEF NotPastWake, Delayed
  <2>6. ExpectedIdleTime = CHOOSE d \in S : \A t \in Delayed : d <= due[t]
    BY <2>5 DEF ExpectedIdleTime
  <2>7. ExpectedIdleTime \in S /\ \A t \in Delayed : ExpectedIdleTime <= due[t]
    BY <2>4, <2>6, Zenon
  <2> QED
    BY <2>2, <2>7
<1> QED
  BY <1>1, <1>2

(* Whatever the tick count has passed, the time is chosen from 2 on.       *)
LEMMA ChoiceTypes ==
    ASSUME due \in [Task -> -1 .. MaxDelay], LongEnough
    PROVE  SuppressedTicks \in 0 .. MaxSuppressed
<1>1. ExpectedIdleTime \in Int
  <2>1. CASE Delayed = {} \/ \E t \in Delayed : due[t] < 0
    BY <2>1, Constants DEF ExpectedIdleTime
  <2>2. CASE ~(Delayed = {} \/ \E t \in Delayed : due[t] < 0)
    <3>1. NotPastWake
      BY <2>2 DEF NotPastWake, Delayed
    <3> QED
      BY <3>1, ExpectedBeforeDue
  <2> QED
    BY <2>1, <2>2
<1>2. ExpectedIdleTime >= 2
  BY DEF LongEnough
<1> QED
  BY <1>1, <1>2, Constants DEF SuppressedTicks, Least

(* xTaskIncrementTick readies what is due and passes no wake time.         *)
LEMMA Incremented ==
    ASSUME st \in [Task -> {"ready", "delayed", "blocked"}], due \in [Task -> -1 .. MaxDelay],
           NEW n \in Nat, IncrementTick(n)
    PROVE  /\ st' \in [Task -> {"ready", "delayed", "blocked"}] /\ due' \in [Task -> -1 .. MaxDelay]
           /\ NotPastWake => NotPastWake'
<1>1. st' \in [Task -> {"ready", "delayed", "blocked"}] /\ due' \in [Task -> -1 .. MaxDelay]
  <2>1. st' \in [Task -> {"ready", "delayed", "blocked"}]
    BY DEF IncrementTick
  <2>2. due' = [t \in Task |-> IF n > 0 /\ t \in Expired(n) THEN 0
                              ELSE IF t \in Delayed THEN due[t] - n ELSE due[t]]
    BY DEF IncrementTick
  <2>3. ASSUME NEW t \in Task
        PROVE  (IF n > 0 /\ t \in Expired(n) THEN 0
                ELSE IF t \in Delayed THEN due[t] - n ELSE due[t]) \in -1 .. MaxDelay
    BY Constants DEF Expired
  <2> QED
    BY <2>1, <2>2, <2>3
<1>2. ASSUME NotPastWake, NEW t \in Delayed' PROVE due'[t] >= 0
  <2>1. t \in Task /\ st'[t] = "delayed"
    BY DEF Delayed
  <2>2. st[t] = "delayed" /\ ~(n > 0 /\ t \in Expired(n))
    BY <2>1 DEF IncrementTick
  <2>3. t \in Delayed /\ due'[t] = due[t] - n
    BY <2>1, <2>2 DEF IncrementTick, Delayed
  <2>4. due[t] >= 0 /\ due[t] \in Int
    BY <1>2, <2>3 DEF NotPastWake, Delayed
  <2>5. n > 0 => due[t] > n
    BY <2>2, <2>3, <2>4 DEF Expired
  <2> QED
    BY <2>3, <2>4, <2>5
<1> QED
  BY <1>1, <1>2 DEF NotPastWake

-----------------------------------------------------------------------------
(* The steps.                                                              *)

(* The system starts in the inductive invariant. *)
LEMMA InitInv == Init => IInv
<1> SUFFICES ASSUME Init PROVE IInv
  OBVIOUS
<1>1. TypeOK
  <2>1. misread \in BOOLEAN /\ still \in BOOLEAN /\ overrun \in BOOLEAN
    BY Zenon DEF Init
  <2> QED
    BY <2>1, Constants DEF Init, TypeOK, Event, Idle
<1>2. Delayed = {}
  BY DEF Init, Delayed
<1> QED
  BY <1>1, <1>2, Constants DEF Init, IInv, LockClear, NoneReady, MissingBounded, TimeKept, Punctual,
        NotPastWake, ChoiceFits

(* A task runs only while the idle task is not on its way to sleep.        *)
LEMMA TaskInv == ASSUME IInv, NEW t \in Task, TaskStep(t) PROVE IInv'
<1>1. /\ pc = "run" /\ UNCHANGED <<pc, stime, pended, sleepVars>>
      /\ TypeOK
  BY DEF TaskStep, LoadWakelock, StoreWakelock, AddWakeupEvent, DelWakeupEvent, Delay, Block,
         Runs, SchedulerOn, IInv
<1>2. TypeOK'
  <2>1. ASSUME NEW o \in {"acquire", "release"}, LoadWakelock(t, o) PROVE TypeOK'
    BY <1>1, <2>1 DEF LoadWakelock, TypeOK, sleepVars
  <2>2. CASE StoreWakelock(t)
    BY <1>1, <2>2 DEF StoreWakelock, TypeOK, sleepVars
  <2>3. ASSUME NEW e \in Event, AddWakeupEvent(t, e) \/ DelWakeupEvent(t, e) PROVE TypeOK'
    BY <1>1, <2>3 DEF AddWakeupEvent, DelWakeupEvent, WithoutEvent, TypeOK, sleepVars, lockVars, Event
  <2>4. ASSUME NEW d \in 1 .. MaxDelay, Delay(t, d) PROVE TypeOK'
    BY <1>1, <2>4, Constants DEF Delay, TypeOK, sleepVars, lockVars
  <2>5. CASE Block(t)
    BY <1>1, <2>5 DEF Block, TypeOK, sleepVars, lockVars
  <2> QED
    BY <2>1, <2>2, <2>3, <2>4, <2>5 DEF TaskStep
<1>3. NotPastWake => NotPastWake'
  <2>1. ASSUME NEW d \in 1 .. MaxDelay, Delay(t, d), NotPastWake PROVE NotPastWake'
    BY <1>1, <2>1, Constants DEF Delay, NotPastWake, Delayed, TypeOK
  <2>2. CASE UNCHANGED <<st, due>>
    BY <2>2 DEF NotPastWake, Delayed
  <2>3. CASE Block(t)
    BY <1>1, <2>3 DEF Block, NotPastWake, Delayed, TypeOK
  <2> QED
    BY <2>1, <2>2, <2>3
       DEF TaskStep, LoadWakelock, StoreWakelock, AddWakeupEvent, DelWakeupEvent
<1> QED
  BY <1>1, <1>2, <1>3 DEF IInv, LockClear, NoneReady, MissingBounded, TimeKept, Punctual, ChoiceFits,
        sleepVars

(* An interrupt that readies a task keeps the invariant. *)
LEMMA InterruptInv == ASSUME IInv, NEW t \in Task, Interrupt(t) PROVE IInv'
<1>1. TypeOK' /\ Delayed' = Delayed /\ due' = due
  BY DEF Interrupt, IInv, TypeOK, Delayed, lockVars, sleepVars
<1> QED
  BY <1>1 DEF Interrupt, Masked, IInv, LockClear, NoneReady, MissingBounded, TimeKept, Punctual,
        NotPastWake, ChoiceFits, lockVars, sleepVars

(* While the scheduler is suspended the tick reaches no task.              *)
LEMMA SysTickInv == ASSUME IInv, SysTick PROVE IInv'
<1>1. /\ TypeOK /\ pc # "asleep"
      /\ UNCHANGED <<lockVars, missing, lag, misread, still, overrun, wakeups, pc, stime>>
  BY DEF SysTick, Masked, IInv
<1>2. timer' \in 0 .. TimerMod - 1
  <2>1. timer + TickUs \in Nat
    BY <1>1, Constants DEF TypeOK
  <2> QED
    BY <2>1, Constants, DivMod, Zenon DEF SysTick
<1>3. CASE pc = "run"
  <2>1. IncrementTick(1) /\ pended' = pended
    BY <1>3 DEF SysTick, SchedulerOn
  <2>2. /\ st' \in [Task -> {"ready", "delayed", "blocked"}] /\ due' \in [Task -> -1 .. MaxDelay]
        /\ NotPastWake => NotPastWake'
    BY <1>1, <2>1, Incremented DEF TypeOK
  <2>3. TypeOK'
    BY <1>1, <1>2, <2>1, <2>2 DEF TypeOK, lockVars
  <2> QED
    BY <1>1, <1>3, <2>2, <2>3 DEF IInv, LockClear, NoneReady, MissingBounded, TimeKept, Punctual,
          ChoiceFits
<1>4. CASE pc # "run"
  <2>1. pended < MaxPended /\ pended' = pended + 1 /\ UNCHANGED <<st, due>>
    BY <1>4 DEF SysTick, SchedulerOn
  <2>2. TypeOK'
    BY <1>1, <1>2, <2>1, Constants DEF TypeOK, lockVars
  <2> QED
    BY <1>1, <2>1, <2>2 DEF IInv, LockClear, NoneReady, MissingBounded, TimeKept, Punctual,
          NotPastWake, ChoiceFits, Delayed, lockVars
<1> QED
  BY <1>3, <1>4

(* So does vTaskSuspendAll in the idle task. *)
LEMMA SuspendsInv == ASSUME IInv, IdleSuspendsAll PROVE IInv'
BY DEF IdleSuspendsAll, IInv, TypeOK, Idle, LockClear, NoneReady, MissingBounded, TimeKept, Punctual,
       NotPastWake, ChoiceFits, Delayed, lockVars, sleepVars

(* The idle task has sampled the time and asked for the wakelocks while    *)
(* no task can run.                                                        *)
LEMMA ChoosesInv == ASSUME IInv, IdleChooses PROVE IInv'
<1>1. TypeOK /\ UNCHANGED <<lockVars, sleepVars, wakeups, st, due, pended>>
  BY DEF IdleChooses, IInv
<1>2. CASE LongEnough /\ ReadyToSleep
  <2>1. pc' = "chosen" /\ stime' = SuppressedTicks /\ wakelock = {}
    BY <1>2 DEF IdleChooses, ReadyToSleep
  <2>2. SuppressedTicks \in 0 .. MaxSuppressed
    BY <1>1, <1>2, ChoiceTypes DEF TypeOK
  <2>3. TypeOK'
    BY <1>1, <2>1, <2>2 DEF TypeOK, Idle, lockVars, sleepVars
  <2>4. NotPastWake => ChoiceFits'
    <3> SUFFICES ASSUME NotPastWake PROVE \A t \in Delayed : SuppressedTicks <= due[t]
      BY <1>1, <2>1 DEF ChoiceFits, Delayed
    <3>1. ExpectedIdleTime \in Nat /\ \A t \in Delayed : ExpectedIdleTime <= due[t]
      BY <1>1, ExpectedBeforeDue DEF TypeOK
    <3>2. SuppressedTicks <= ExpectedIdleTime
      BY <3>1, Constants DEF SuppressedTicks, Least
    <3>3. \A t \in Delayed : due[t] \in Int
      BY <1>1 DEF TypeOK, Delayed
    <3> QED
      BY <2>2, <3>1, <3>2, <3>3
  <2> QED
    BY <1>1, <2>1, <2>3, <2>4 DEF IInv, LockClear, NoneReady, MissingBounded, TimeKept, Punctual,
          NotPastWake, Delayed, lockVars, sleepVars
<1>3. CASE ~(LongEnough /\ ReadyToSleep)
  <2>1. pc' = "resume" /\ stime' = 0
    BY <1>3 DEF IdleChooses
  <2>2. TypeOK'
    BY <1>1, <2>1, Constants DEF TypeOK, Idle, lockVars, sleepVars
  <2> QED
    BY <1>1, <2>1, <2>2 DEF IInv, LockClear, NoneReady, MissingBounded, TimeKept, Punctual,
          NotPastWake, ChoiceFits, Delayed, lockVars, sleepVars
<1> QED
  BY <1>2, <1>3

(* So does eTaskConfirmSleepModeStatus. *)
LEMMA ConfirmsInv == ASSUME IInv, IdleConfirms PROVE IInv'
BY DEF IdleConfirms, SleepConfirmed, IInv, TypeOK, Idle, LockClear, NoneReady, MissingBounded,
       TimeKept, Punctual, NotPastWake, ChoiceFits, Delayed, lockVars, sleepVars

(* So does xTaskResumeAll in the idle task. *)
LEMMA ResumesInv == ASSUME IInv, IdleResumes PROVE IInv'
<1>1. /\ pc' = "run" /\ IncrementTick(pended) /\ pended' = 0 /\ still' = FALSE
      /\ UNCHANGED <<lockVars, missing, timer, lag, misread, overrun, wakeups, stime>> /\ TypeOK
  BY DEF IdleResumes, IInv
<1>2. /\ st' \in [Task -> {"ready", "delayed", "blocked"}] /\ due' \in [Task -> -1 .. MaxDelay]
      /\ NotPastWake => NotPastWake'
  BY <1>1, Incremented DEF TypeOK
<1>3. TypeOK'
  <2>1. misread' \in BOOLEAN /\ still' \in BOOLEAN /\ overrun' \in BOOLEAN
    BY <1>1, Zenon DEF TypeOK
  <2> QED
    BY <1>1, <1>2, <2>1, Constants DEF TypeOK, Idle, lockVars
<1> QED
  BY <1>1, <1>2, <1>3 DEF IInv, LockClear, NoneReady, MissingBounded, TimeKept, Punctual, ChoiceFits

(* A sleep: what is stepped and what is kept make up the time slept, as    *)
(* long as the clock moved and did not wrap, and no task was due in it.    *)
LEMMA SleepInv ==
    ASSUME IInv, NEW k \in Nat, k <= stime * TickUs + Late,
           k <= stime * TickUs \/ missing + (k - stime * TickUs) <= MaxMissing,
           Sleep(k)
    PROVE  IInv'
<1> DEFINE after == (timer + k) % TimerMod
<1>1. PICK passed : passed = Passed(Us(timer), Us(after))
  OBVIOUS
<1>2. /\ pc = "asleep" /\ pc' = "resume" /\ stime' = 0
      /\ missing' = Kept(passed)
      /\ misread' = (misread \/ Us(after) <= Us(timer)) /\ still' = (Us(after) = Us(timer))
      /\ lag' = IF misread' THEN 0 ELSE lag + k - TickUs * Steps(passed)
      /\ UNCHANGED <<lockVars, wakeups, st, pended>>
  BY <1>1 DEF Sleep
<1>3. TypeOK /\ missing \in 0 .. UsMod - 1 /\ stime \in 0 .. MaxSuppressed /\ stime \in Nat
  BY Constants DEF IInv, TypeOK
<1>4. PICK q \in Nat : q = stime * TickUs /\ q <= MaxSuppressed * TickUs
  BY <1>3, Constants, ProductGrows
<1>5. k <= LongestSleep /\ LongestSleep + MaxMissing < UsMod /\ LongestSleep \in Nat
  <2>1. PICK m \in Nat : m = MaxSuppressed * TickUs
    BY Constants
  <2> QED
    BY <1>4, <2>1, Constants, ClockAssumption DEF LongestSleep
<1>6. /\ after \in 0 .. TimerMod - 1
      /\ Us(timer) \in 0 .. UsMod - 1 /\ Us(after) \in 0 .. UsMod - 1
      /\ Us(after) > Us(timer) => Us(after) - Us(timer) = k
  <2>1. timer \in 0 .. TimerMod - 1
    BY <1>3 DEF TypeOK
  <2> QED
    <3>1. timer + k \in Nat
      BY <2>1, Constants
    <3> QED
      BY <1>5, <2>1, <3>1, PassedIsRight, Zenon
<1>7. passed \in Nat
  BY <1>1, <1>6, PassedTypes
<1>8. /\ Steps(passed) \in 0 .. stime
      /\ Kept(passed) \in 0 .. UsMod - 1
      /\ WithMissing(passed) = TickUs * Steps(passed) + Kept(passed)
      /\ Kept(passed) < TickUs \/ Kept(passed) = WithMissing(passed) - stime * TickUs
  BY <1>3, <1>7, StepsKept
<1> HIDE DEF after
<1>9. TickUs * Steps(passed) \in Int
  BY <1>8, Constants
<1>10. /\ lag' \in Int /\ misread' \in BOOLEAN /\ still' \in BOOLEAN
       /\ MissingBounded' /\ TimeKept'
  <2>1. CASE misread'
    <3>1. lag' = 0
      BY <1>2, <2>1
    <3> QED
      BY <1>2, <2>1, <3>1 DEF MissingBounded, TimeKept
  <2>2. CASE ~misread'
    <3>1. ~misread /\ Us(after) > Us(timer)
      <4>1. ~misread /\ ~(Us(after) <= Us(timer))
        BY <1>2, <2>2, Zenon
      <4> QED
        BY <1>6, <4>1, Constants
    <3>2. missing <= MaxMissing /\ lag = missing
      BY <3>1 DEF IInv, MissingBounded, TimeKept
    <3>3. passed = k
      BY <1>1, <1>6, <3>1 DEF Passed
    <3>4. WithMissing(passed) = k + missing
      <4>1. k + missing \in Nat /\ k + missing < UsMod /\ UsMod \in Nat \ {0}
        BY <1>3, <1>5, <3>2, Constants
      <4>2. (k + missing) % UsMod = k + missing
        BY <4>1, SmallMod, Zenon
      <4> QED
        BY <3>3, <4>2, Zenon DEF WithMissing
    <3>5. lag' = lag + k - TickUs * Steps(passed)
      BY <1>2, <2>2
    <3>6. lag' = Kept(passed) /\ lag' \in Int
      <4>1. PICK x \in Int : x = TickUs * Steps(passed)
        BY <1>9
      <4> QED
        BY <1>3, <1>8, <3>2, <3>4, <3>5, <4>1, Constants
    <3>7. Kept(passed) <= MaxMissing
      BY <1>3, <1>4, <1>8, <3>2, <3>4, Constants
    <3> QED
      BY <1>2, <2>2, <3>6, <3>7 DEF MissingBounded, TimeKept
  <2> QED
    BY <2>1, <2>2
<1>11. PICK p \in PortSteps :
          /\ StepTick(Steps(passed) + p)
          /\ timer' = (after + p * TickUs) % TimerMod
          /\ overrun' = (overrun \/ (p = 1 /\ Steps(passed) = stime))
  BY <1>1 DEF Sleep, after
<1>12. p = 0 \/ p = 1
  BY DEF PortSteps
<1>13. PICK n \in Nat : n = Steps(passed) + p
  BY <1>8, <1>12
<1>14. due' = [t \in Task |->
                 IF t \in Delayed THEN (IF due[t] < n THEN -1 ELSE due[t] - n) ELSE due[t]]
  BY <1>11, <1>13 DEF StepTick
<1>15. TypeOK'
  <2>1. missing' \in 0 .. UsMod - 1 /\ stime' \in 0 .. MaxSuppressed /\ pc' \in Idle
    BY <1>2, <1>8, Constants DEF Idle
  <2>2. timer' \in 0 .. TimerMod - 1
    <3>1. after + p * TickUs \in Nat /\ TimerMod \in Nat \ {0}
      BY <1>6, <1>12, Constants
    <3> QED
      BY <1>11, <3>1, DivMod, Zenon
  <2>3. due' \in [Task -> -1 .. MaxDelay]
    <3>1. ASSUME NEW t \in Task
          PROVE  (IF t \in Delayed THEN (IF due[t] < n THEN -1 ELSE due[t] - n) ELSE due[t])
                     \in -1 .. MaxDelay
      BY <1>3, Constants DEF TypeOK
    <3> QED
      BY <1>14, <3>1
  <2>4. misread' \in BOOLEAN /\ still' \in BOOLEAN /\ overrun' \in BOOLEAN
    BY <1>2, <1>3, <1>11, Zenon DEF TypeOK
  <2> QED
    BY <1>2, <1>3, <1>10, <2>1, <2>2, <2>3, <2>4 DEF TypeOK, lockVars
<1>16. overrun' \/ Punctual'
  <2> SUFFICES ASSUME ~overrun', NEW t \in Delayed' PROVE due'[t] >= 0
    BY <1>2 DEF Punctual, NotPastWake, ChoiceFits
  <2>1. t \in Delayed /\ t \in Task
    BY <1>2 DEF Delayed
  <2>2. ~overrun /\ ~(p = 1 /\ Steps(passed) = stime)
    BY <1>11, Zenon
  <2>3. stime <= due[t] /\ due[t] \in Int
    BY <1>2, <1>3, <2>1, <2>2 DEF IInv, Punctual, ChoiceFits, TypeOK
  <2>4. n <= stime
    BY <1>3, <1>8, <1>12, <1>13, <2>2
  <2> QED
    BY <1>3, <1>14, <2>1, <2>3, <2>4
<1> QED
  BY <1>2, <1>10, <1>15, <1>16 DEF IInv, LockClear, NoneReady

(* So does a sleep that its timer ends. *)
LEMMA TimerEndsInv == ASSUME IInv, TimerEndsSleep PROVE IInv'
<1>1. PICK l \in 0 .. Late : (l = 0 \/ missing + l <= MaxMissing) /\ Sleep(stime * TickUs + l)
  BY DEF TimerEndsSleep
<1>2. stime * TickUs \in Nat
  BY Constants DEF IInv, TypeOK
<1>3. PICK k \in Nat : k = stime * TickUs + l
  BY <1>2, Constants
<1>4. k - stime * TickUs = l /\ k <= stime * TickUs + Late /\ (l = 0 => k <= stime * TickUs)
  BY <1>2, <1>3, Constants
<1> QED
  BY <1>1, <1>3, <1>4, SleepInv

(* So does a sleep that another interrupt ends. *)
LEMMA EventEndsInv == ASSUME IInv, EventEndsSleep PROVE IInv'
<1>1. stime * TickUs \in Nat
  BY Constants DEF IInv, TypeOK
<1>2. PICK k \in 0 .. stime * TickUs : Sleep(k)
  BY DEF EventEndsSleep
<1>3. k \in Nat /\ k <= stime * TickUs + Late /\ k <= stime * TickUs
  BY <1>1, <1>2, Constants
<1> QED
  BY <1>2, <1>3, SleepInv

(* Every step keeps the inductive invariant. *)
LEMMA NextInv == IInv /\ [Next]_vars => IInv'
<1> SUFFICES ASSUME IInv, [Next]_vars PROVE IInv'
  OBVIOUS
<1>1. ASSUME NEW t \in Task, TaskStep(t) PROVE IInv'
  BY <1>1, TaskInv
<1>2. ASSUME NEW t \in Task, Interrupt(t) PROVE IInv'
  BY <1>2, InterruptInv
<1>3. CASE UNCHANGED vars
  <2>1. TypeOK'
    BY <1>3 DEF IInv, TypeOK, vars, lockVars, sleepVars
  <2> QED
    BY <1>3, <2>1 DEF IInv, LockClear, NoneReady, MissingBounded, TimeKept, Punctual,
       NotPastWake, ChoiceFits, Delayed, vars, lockVars, sleepVars
<1> QED
  BY <1>1, <1>2, <1>3, SysTickInv, SuspendsInv, ChoosesInv, ConfirmsInv, ResumesInv,
     TimerEndsInv, EventEndsInv
     DEF Next, IdleStep

(* The inductive invariant of the tick count, the sleep and the wake lock, *)
(* for any clock rates, tasks and bounds (freertos_pmu.c:16-275,           *)
(* tasks.c:1583-2802).                                                     *)
THEOREM Invariance == Spec => []IInv
BY InitInv, NextInv, PTL DEF Spec

(* The clocks, the kept microseconds and the tasks stay in their ranges.   *)
THEOREM TypeCorrect == Spec => []TypeOK
<1>1. IInv => TypeOK
  BY DEF IInv
<1> QED
  BY Invariance, <1>1, PTL

(* The system is asleep only with no bit in the wakelock word and no task  *)
(* ready.                                                                  *)
THEOREM IdleSleep == Spec => []SleepsOnlyWhenIdle
<1>1. IInv => SleepsOnlyWhenIdle
  BY DEF IInv, LockClear, NoneReady, SleepsOnlyWhenIdle
<1> QED
  BY Invariance, <1>1, PTL

(* The tick count passes a wake time only by the port's own step after a   *)
(* sleep of the whole time, however long a sleep is taken to have been.    *)
THEOREM Punctuality == Spec => []OnlyPortPassesWake
<1>1. IInv => OnlyPortPassesWake
  BY DEF IInv, Punctual, OnlyPortPassesWake
<1> QED
  BY Invariance, <1>1, PTL

(* While the clock moves and does not wrap in a sleep, the time slept and  *)
(* not yet stepped is exactly missing_tick.                                *)
THEOREM NoTimeLost == Spec => []TimeKept
<1>1. IInv => TimeKept
  BY DEF IInv
<1> QED
  BY Invariance, <1>1, PTL
=============================================================================
