----------------------------- MODULE DeviceLock -----------------------------
(***************************************************************************)
(* The per-device mutexes of component/os/os_dep/device_lock.c.            *)
(*                                                                         *)
(* Every user of the SPI flash or the efuse brackets its accesses with     *)
(* device_mutex_lock(device) and device_mutex_unlock(device).  There is no *)
(* start-up code: the first call for a device creates its FreeRTOS mutex   *)
(* behind a double-checked flag, mutex_init.  The tasks are preempted      *)
(* between any two steps below, except inside rtw_enter_critical ..        *)
(* rtw_exit_critical, which masks interrupts and is therefore one step.    *)
(***************************************************************************)
EXTENDS Naturals, FiniteSets

CONSTANTS
    Task,          \* the FreeRTOS tasks that use the devices
    Device,        \* RT_DEV_LOCK_E
    NoTask,        \* no holder
    MayFail        \* the devices for which xSemaphoreCreateMutex() may find
                   \* the heap exhausted

ASSUME TaskAssumption == IsFiniteSet(Task) /\ NoTask \notin Task
ASSUME MayFailAssumption == MayFail \subseteq Device

VARIABLES
    mutex_init,    \* the devices whose bit is set in mutex_init
    created,       \* how many mutexes were created for each device; the handle
                   \* device_mutex[d] is the last one, 0 is the NULL handle
    holder,        \* holder[d][h]: the task that took mutex h of device d
    pc,            \* where each task is in device_mutex_lock/unlock
    op,            \* which of the two it is in
    dev            \* the device it asks for

vars == <<mutex_init, created, holder, pc, op, dev>>

(* Not even a broken inner test could create more mutexes for a device     *)
(* than there are tasks past the outer one.                                *)
Handle == 0 .. Cardinality(Task)
device_mutex(d) == created[d]

PcValues == {"idle", "test", "critical", "take", "blocked", "owner", "put"}

Init ==
    /\ mutex_init = {}
    /\ created = [d \in Device |-> 0]
    /\ holder = [d \in Device |-> [h \in Handle |-> NoTask]]
    /\ pc = [t \in Task |-> "idle"]
    /\ op = [t \in Task |-> "lock"]
    /\ dev \in [Task -> Device]

-----------------------------------------------------------------------------
(* The body that device_mutex_lock and device_mutex_unlock go on with once *)
(* device_mutex_init has returned.                                         *)
AfterInit(t) == IF op[t] = "lock" THEN "take" ELSE "put"

(* A task enters device_mutex_lock(d). *)
CallLock(t) ==
    /\ pc[t] = "idle"
    /\ \E d \in Device : dev' = [dev EXCEPT ![t] = d]
    /\ op' = [op EXCEPT ![t] = "lock"]
    /\ pc' = [pc EXCEPT ![t] = "test"]
    /\ UNCHANGED <<mutex_init, created, holder>>

(* The owner, done with the device, enters device_mutex_unlock(d). *)
CallUnlock(t) ==
    /\ pc[t] = "owner"
    /\ op' = [op EXCEPT ![t] = "unlock"]
    /\ pc' = [pc EXCEPT ![t] = "test"]
    /\ UNCHANGED <<mutex_init, created, holder, dev>>

(* The outer test of device_mutex_init, outside any critical section. *)
TestInit(t) ==
    /\ pc[t] = "test"
    /\ pc' = [pc EXCEPT ![t] = IF dev[t] \in mutex_init
                                 THEN AfterInit(t) ELSE "critical"]
    /\ UNCHANGED <<mutex_init, created, holder, op, dev>>

(* rtw_enter_critical, the inner test, rtw_mutex_init and the flag,        *)
(* rtw_exit_critical.  The flag is set whether or not the mutex could be   *)
(* created.                                                                *)
InnerTestDropped(d) == TRUE                                       \* mutant
InnerTest(d) == d \notin mutex_init

CriticalInitNoFlag(t) ==                                          \* mutant
    /\ pc[t] = "critical"
    /\ IF InnerTest(dev[t])
         THEN created' = [created EXCEPT ![dev[t]] = @ + 1] ELSE UNCHANGED created
    /\ pc' = [pc EXCEPT ![t] = AfterInit(t)]
    /\ UNCHANGED <<mutex_init, holder, op, dev>>

CriticalInit(t) ==
    /\ pc[t] = "critical"
    /\ IF InnerTest(dev[t])
         THEN /\ \/ created' = [created EXCEPT ![dev[t]] = @ + 1]
                 \/ dev[t] \in MayFail /\ UNCHANGED created
              /\ mutex_init' = mutex_init \cup {dev[t]}
         ELSE UNCHANGED <<created, mutex_init>>
    /\ pc' = [pc EXCEPT ![t] = AfterInit(t)]
    /\ UNCHANGED <<holder, op, dev>>

-----------------------------------------------------------------------------
(* rtw_mutex_get_timeout = xSemaphoreTake on the handle read at the call.  *)
(* On the NULL handle the queue code dereferences address 0: undefined,    *)
(* modelled by either result of the call.                                  *)
Take(t) ==
    /\ pc[t] = "take"
    /\ LET d == dev[t]
           h == device_mutex(d)
       IN \/ /\ h = 0 \/ holder[d][h] = NoTask
             /\ holder' = [holder EXCEPT ![d][h] = IF h = 0 THEN @ ELSE t]
             /\ pc' = [pc EXCEPT ![t] = "owner"]
          \/ /\ h = 0 \/ holder[d][h] # NoTask
             /\ pc' = [pc EXCEPT ![t] = "blocked"]
             /\ UNCHANGED holder
    /\ UNCHANGED <<mutex_init, created, op, dev>>

(* xSemaphoreTake comes back: a Give woke the task, or the 10000 ms passed *)
(* and the while loop prints and calls it again.                           *)
Wake(t) ==
    /\ pc[t] = "blocked"
    /\ pc' = [pc EXCEPT ![t] = "take"]
    /\ UNCHANGED <<mutex_init, created, holder, op, dev>>

(* rtw_mutex_put = xSemaphoreGive. *)
PutNothing(t) ==                                                  \* mutant
    /\ pc[t] = "put"
    /\ pc' = [pc EXCEPT ![t] = "idle"]
    /\ UNCHANGED <<mutex_init, created, holder, op, dev>>

Put(t) ==
    /\ pc[t] = "put"
    /\ LET d == dev[t]
           h == device_mutex(d)
       IN holder' = [holder EXCEPT ![d][h] = NoTask]
    /\ pc' = [pc EXCEPT ![t] = "idle"]
    /\ UNCHANGED <<mutex_init, created, op, dev>>

Step(t) == TestInit(t) \/ CriticalInit(t) \/ Take(t) \/ Wake(t) \/ Put(t)

Next == \E t \in Task : CallLock(t) \/ CallUnlock(t) \/ Step(t)

Spec == Init /\ [][Next]_vars

(* Tasks inside the module keep running (the scheduler is preemptive and   *)
(* the callers do bounded work) and an owner gives the device back; nobody *)
(* is obliged to ask for one.                                              *)
Fairness == \A t \in Task : WF_vars(Step(t)) /\ WF_vars(CallUnlock(t))

FairSpec == Spec /\ Fairness

-----------------------------------------------------------------------------
(* A task is between the return of device_mutex_lock(d) and the release of *)
(* the mutex in device_mutex_unlock(d).                                    *)
Inside(t, d) ==
    /\ dev[t] = d
    /\ \/ pc[t] = "owner"
       \/ op[t] = "unlock" /\ pc[t] \in {"test", "critical", "put"}

TypeOK ==
    /\ mutex_init \in SUBSET Device
    /\ created \in [Device -> Handle]
    /\ holder \in [Device -> [Handle -> Task \cup {NoTask}]]
    /\ pc \in [Task -> PcValues]
    /\ op \in [Task -> {"lock", "unlock"}]
    /\ dev \in [Task -> Device]

(* Two tasks are never inside the same device, provided its mutex exists:  *)
(* what device_mutex_lock is for (device_lock.c).                          *)
MutualExclusion ==
    \A t, u \in Task, d \in Device :
        Inside(t, d) /\ Inside(u, d) /\ device_mutex(d) # 0 => t = u

(* The double-checked creation makes at most one mutex per device, however *)
(* many first callers race for it: no handle is leaked or replaced while   *)
(* somebody holds it.                                                      *)
OneMutexPerDevice == \A d \in Device : created[d] <= 1

(* Once the flag is set, the handle of a device never changes: what a task *)
(* read stays the mutex everyone else uses.                                *)
HandleStable ==
    [][\A d \in mutex_init : device_mutex(d)' = device_mutex(d)]_vars

(* The devices whose mutex can be created. *)
Served == Device \ MayFail

(* When somebody wants a device, somebody gets it (no deadlock and no      *)
(* livelock of the lazy creation and the timeout loop).  Which one is up   *)
(* to the task priorities, so no individual guarantee is stated.           *)
Wants(t, d) == dev[t] = d /\ op[t] = "lock" /\ pc[t] \in {"test", "critical", "take", "blocked"}

SomebodyEnters ==
    \A d \in Served : (\E t \in Task : Wants(t, d)) ~> (\E t \in Task : Inside(t, d))

-----------------------------------------------------------------------------
(* What the callers are promised is the lock of LockService: its owner is  *)
(* the task inside the device.                                             *)
owner == [d \in Served |->
            IF \E t \in Task : Inside(t, d)
              THEN CHOOSE t \in Task : Inside(t, d) ELSE NoTask]

Service == INSTANCE LockService WITH Device <- Served

(* The lazily created mutexes implement the abstract lock service for the  *)
(* devices the heap had room for, whatever happens to the others.          *)
ImplementsLock == Service!Spec
=============================================================================
