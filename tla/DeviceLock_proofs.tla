-------------------------- MODULE DeviceLock_proofs -------------------------
(***************************************************************************)
(* Proofs about DeviceLock for any set of tasks and devices.               *)
(***************************************************************************)
EXTENDS DeviceLock, FiniteSetTheorems, TLAPS

(* A handle has been created exactly when the flag is set, unless the heap *)
(* failed.                                                                 *)
CreatedOnce ==
    \A d \in Device :
        /\ created[d] <= 1
        /\ d \notin mutex_init => created[d] = 0
        /\ d \in mutex_init /\ d \notin MayFail => created[d] = 1

(* Whoever is past device_mutex_init found or made the flag set.           *)
InitBeforeUse ==
    \A t \in Task :
        /\ pc[t] \in {"take", "blocked", "owner", "put"} => dev[t] \in mutex_init
        /\ op[t] = "unlock" /\ pc[t] # "idle" => dev[t] \in mutex_init
        /\ pc[t] = "put" => op[t] = "unlock"
        /\ pc[t] \in {"take", "blocked"} => op[t] = "lock"

(* Whoever is inside a device holds its mutex.                             *)
InsideHolds ==
    \A t \in Task :
        Inside(t, dev[t]) /\ created[dev[t]] # 0 => holder[dev[t]][created[dev[t]]] = t

(* A mutex nobody is inside with is free: with InsideHolds, "inside" and   *)
(* "holds" are the same.                                                   *)
HolderInside ==
    \A d \in Device : \A h \in Handle :
        holder[d][h] # NoTask => h = created[d] /\ Inside(holder[d][h], d)

IInv == TypeOK /\ CreatedOnce /\ InitBeforeUse /\ InsideHolds /\ HolderInside

-----------------------------------------------------------------------------
(* The handle of the first mutex is a handle. *)
LEMMA HandleRange == Task # {} => 0 \in Handle /\ 1 \in Handle
<1>1. Cardinality(Task) \in Nat
  BY TaskAssumption, FS_CardinalityType
<1>2. ASSUME Task # {} PROVE Cardinality(Task) # 0
  BY TaskAssumption, FS_EmptySet, <1>2
<1> QED
  BY <1>1, <1>2 DEF Handle

LEMMA InitInv == Init => IInv
<1> SUFFICES ASSUME Init PROVE IInv
  OBVIOUS
<1>1. 0 \in Handle
  BY TaskAssumption, FS_CardinalityType DEF Handle
<1>2. TypeOK
  BY <1>1 DEF Init, TypeOK, PcValues
<1>3. CreatedOnce /\ InitBeforeUse
  BY DEF Init, CreatedOnce, InitBeforeUse
<1>4. InsideHolds /\ HolderInside
  BY DEF Init, InsideHolds, HolderInside, Inside
<1> QED
  BY <1>2, <1>3, <1>4 DEF IInv

-----------------------------------------------------------------------------
(* Each action preserves the invariant. *)
LEMMA CallLockInv == ASSUME IInv, NEW t \in Task, CallLock(t) PROVE IInv'
<1> USE DEF IInv, CallLock
<1>1. TypeOK'
  BY DEF TypeOK, PcValues
<1>2. CreatedOnce' /\ InitBeforeUse'
  BY DEF TypeOK, CreatedOnce, InitBeforeUse
<1>3. ~Inside(t, dev[t]) /\ ~Inside(t, dev[t])'
  BY DEF TypeOK, Inside
<1>4. \A u \in Task \ {t}, d \in Device : Inside(u, d)' <=> Inside(u, d)
  BY DEF TypeOK, Inside
<1>5. \A d \in Device : ~Inside(t, d)
  BY DEF TypeOK, Inside
<1>6. \A u \in Task \ {t} : dev'[u] = dev[u] /\ dev[u] \in Device
  BY DEF TypeOK
<1>7. InsideHolds'
  <2> SUFFICES ASSUME NEW u \in Task, Inside(u, dev[u])', created[dev'[u]] # 0
               PROVE holder[dev'[u]][created[dev'[u]]] = u
    BY DEF InsideHolds
  <2>1. u # t
    BY <1>3
  <2> QED
    BY <2>1, <1>4, <1>6 DEF InsideHolds
<1>8. HolderInside'
  BY <1>4, <1>5 DEF TypeOK, HolderInside
<1> QED
  BY <1>1, <1>2, <1>7, <1>8

LEMMA CallUnlockInv == ASSUME IInv, NEW t \in Task, CallUnlock(t) PROVE IInv'
<1> USE DEF IInv, CallUnlock
<1>1. TypeOK'
  BY DEF TypeOK, PcValues
<1>2. CreatedOnce' /\ InitBeforeUse'
  BY DEF TypeOK, CreatedOnce, InitBeforeUse
<1>3. \A u \in Task, d \in Device : Inside(u, d)' <=> Inside(u, d)
  BY DEF TypeOK, Inside
<1>4. InsideHolds' /\ HolderInside'
  BY <1>3 DEF TypeOK, InsideHolds, HolderInside
<1> QED
  BY <1>1, <1>2, <1>4

LEMMA TestInitInv == ASSUME IInv, NEW t \in Task, TestInit(t) PROVE IInv'
<1> USE DEF IInv, TestInit, AfterInit
<1>1. TypeOK'
  BY DEF TypeOK, PcValues
<1>2. CreatedOnce' /\ InitBeforeUse'
  BY DEF TypeOK, CreatedOnce, InitBeforeUse
<1>3. \A u \in Task, d \in Device : Inside(u, d)' <=> Inside(u, d)
  BY DEF TypeOK, Inside
<1>4. InsideHolds' /\ HolderInside'
  BY <1>3 DEF TypeOK, InsideHolds, HolderInside
<1> QED
  BY <1>1, <1>2, <1>4

LEMMA CriticalInitInv == ASSUME IInv, NEW t \in Task, CriticalInit(t) PROVE IInv'
<1> USE DEF IInv, CriticalInit, AfterInit, InnerTest
<1>1. 0 \in Handle /\ 1 \in Handle
  BY HandleRange
<1>2. TypeOK'
  BY <1>1 DEF TypeOK, PcValues, CreatedOnce
<1>3. CreatedOnce'
  BY DEF TypeOK, CreatedOnce, Handle
<1>4. InitBeforeUse'
  BY DEF TypeOK, InitBeforeUse
<1>5. \A u \in Task, d \in Device : Inside(u, d)' <=> Inside(u, d)
  BY DEF TypeOK, Inside
<1>6. \A u \in Task, d \in Device : Inside(u, d) => d \in mutex_init
  BY DEF TypeOK, Inside, InitBeforeUse
<1>7. \A d \in mutex_init : created'[d] = created[d]
  BY DEF TypeOK
<1>8. InsideHolds'
  BY <1>5, <1>6, <1>7 DEF TypeOK, InsideHolds
<1>9. HolderInside'
  BY <1>5, <1>6, <1>7 DEF TypeOK, HolderInside
<1> QED
  BY <1>2, <1>3, <1>4, <1>8, <1>9

LEMMA TakeInv == ASSUME IInv, NEW t \in Task, Take(t) PROVE IInv'
<1> USE DEF IInv, Take, device_mutex
<1>1. TypeOK'
  <2>1. dev[t] \in Device /\ created[dev[t]] \in Handle
    BY DEF TypeOK
  <2>2. pc' \in [Task -> PcValues]
    BY DEF TypeOK, PcValues
  <2>3. \A r \in Task \cup {NoTask} :
          [holder EXCEPT ![dev[t]][created[dev[t]]] = r] \in [Device -> [Handle -> Task \cup {NoTask}]]
    BY <2>1 DEF TypeOK
  <2>4. holder' \in [Device -> [Handle -> Task \cup {NoTask}]]
    BY <2>1, <2>3 DEF TypeOK
  <2> QED
    BY <2>2, <2>4 DEF TypeOK
<1>2. CreatedOnce' /\ InitBeforeUse'
  BY DEF TypeOK, CreatedOnce, InitBeforeUse
<1>3. \A u \in Task \ {t}, d \in Device : Inside(u, d)' <=> Inside(u, d)
  BY DEF TypeOK, Inside
<1>4. \A d \in Device : ~Inside(t, d)
  BY DEF TypeOK, Inside, InitBeforeUse
<1>5. dev' = dev /\ created' = created /\ dev[t] \in Device /\ created[dev[t]] \in Handle
  BY DEF TypeOK
<1>6. CASE pc'[t] = "owner" /\ created[dev[t]] # 0
  <2>1. Inside(t, dev[t])'
    BY <1>6 DEF TypeOK, Inside
  <2>2. /\ holder[dev[t]][created[dev[t]]] = NoTask
        /\ holder' = [holder EXCEPT ![dev[t]][created[dev[t]]] = t]
    BY <1>6 DEF TypeOK
  <2>3. \A u \in Task : ~Inside(u, dev[t])
    BY <1>6, <2>2, TaskAssumption DEF TypeOK, InsideHolds, Inside
  <2>4. InsideHolds'
    <3> SUFFICES ASSUME NEW u \in Task, Inside(u, dev[u])', created[dev[u]] # 0
                 PROVE holder'[dev[u]][created[dev[u]]] = u
      BY <1>5 DEF InsideHolds
    <3>1. CASE u = t
      BY <1>5, <2>2, <3>1 DEF TypeOK
    <3>2. CASE u # t
      <4>1. Inside(u, dev[u]) /\ dev[u] # dev[t]
        BY <1>3, <1>5, <2>3, <3>2 DEF TypeOK
      <4> QED
        BY <4>1, <2>2 DEF TypeOK, InsideHolds
    <3> QED
      BY <3>1, <3>2
  <2>5. HolderInside'
    <3> SUFFICES ASSUME NEW d \in Device, NEW h \in Handle, holder'[d][h] # NoTask
                 PROVE (h = created[d] /\ Inside(holder[d][h], d)') \/ (d = dev[t] /\ h = created[d])
      BY <1>5, <2>1, <2>2 DEF HolderInside, TypeOK
    <3>1. CASE d = dev[t] /\ h = created[d]
      BY <3>1
    <3>2. CASE ~(d = dev[t] /\ h = created[d])
      <4>1. holder'[d][h] = holder[d][h]
        BY <2>2, <3>2 DEF TypeOK
      <4>2. h = created[d] /\ Inside(holder[d][h], d) /\ holder[d][h] \in Task
        BY <4>1 DEF TypeOK, HolderInside
      <4> QED
        BY <4>1, <4>2, <1>3, <1>4
    <3> QED
      BY <3>1, <3>2
  <2> QED
    BY <1>1, <1>2, <2>4, <2>5
<1>7. CASE created[dev[t]] = 0
  <2>1. holder' = holder
    BY <1>7 DEF TypeOK
  <2>2. InsideHolds' /\ HolderInside'
    BY <1>3, <1>4, <1>5, <1>7, <2>1 DEF TypeOK, InsideHolds, HolderInside, Inside
  <2> QED
    BY <1>1, <1>2, <2>2
<1>8. CASE pc'[t] = "blocked" /\ created[dev[t]] # 0
  <2>1. holder' = holder /\ op[t] = "lock"
    BY <1>8 DEF TypeOK, InitBeforeUse
  <2>2. \A u \in Task, d \in Device : Inside(u, d)' <=> Inside(u, d)
    BY <1>3, <1>4, <1>8, <2>1 DEF TypeOK, Inside
  <2>3. InsideHolds' /\ HolderInside'
    BY <1>5, <2>1, <2>2 DEF TypeOK, InsideHolds, HolderInside
  <2> QED
    BY <1>1, <1>2, <2>3
<1> QED
  BY <1>6, <1>7, <1>8 DEF TypeOK

LEMMA WakeInv == ASSUME IInv, NEW t \in Task, Wake(t) PROVE IInv'
<1> USE DEF IInv, Wake
<1>1. TypeOK'
  BY DEF TypeOK, PcValues
<1>2. CreatedOnce' /\ InitBeforeUse'
  BY DEF TypeOK, CreatedOnce, InitBeforeUse
<1>3. \A u \in Task, d \in Device : Inside(u, d)' <=> Inside(u, d)
  BY DEF TypeOK, Inside
<1>4. InsideHolds' /\ HolderInside'
  BY <1>3 DEF TypeOK, InsideHolds, HolderInside
<1> QED
  BY <1>1, <1>2, <1>4

LEMMA PutInv == ASSUME IInv, NEW t \in Task, Put(t) PROVE IInv'
<1> USE DEF IInv, Put, device_mutex
<1>1. TypeOK'
  BY DEF TypeOK, PcValues
<1>2. CreatedOnce' /\ InitBeforeUse'
  BY DEF TypeOK, CreatedOnce, InitBeforeUse
<1>3. \A u \in Task \ {t}, d \in Device : Inside(u, d)' <=> Inside(u, d)
  BY DEF TypeOK, Inside
<1>4. Inside(t, dev[t]) /\ ~Inside(t, dev[t])'
  BY DEF TypeOK, Inside, InitBeforeUse
<1>5. \A u \in Task \ {t} : Inside(u, dev[t]) => created[dev[t]] = 0
  BY <1>4 DEF TypeOK, InsideHolds, Inside
<1>6. InsideHolds'
  BY <1>3, <1>4, <1>5 DEF TypeOK, InsideHolds, Inside
<1>7. \A d \in Device : \A h \in Handle : holder'[d][h] # NoTask => holder'[d][h] = holder[d][h] /\ holder[d][h] # t
  BY <1>4, TaskAssumption DEF TypeOK, InsideHolds, HolderInside, Inside
<1>8. HolderInside'
  BY <1>3, <1>7 DEF TypeOK, HolderInside
<1> QED
  BY <1>1, <1>2, <1>6, <1>8

LEMMA NextInv == IInv /\ [Next]_vars => IInv'
<1> SUFFICES ASSUME IInv, [Next]_vars PROVE IInv'
  OBVIOUS
<1>1. CASE UNCHANGED vars
  BY <1>1 DEF vars, IInv, TypeOK, CreatedOnce, InitBeforeUse, InsideHolds, HolderInside, Inside
<1>2. ASSUME NEW t \in Task, CallLock(t) \/ CallUnlock(t) \/ Step(t) PROVE IInv'
  BY <1>2, CallLockInv, CallUnlockInv, TestInitInv, CriticalInitInv, TakeInv, WakeInv, PutInv DEF Step
<1> QED
  BY <1>1, <1>2 DEF Next

-----------------------------------------------------------------------------
(* The inductive invariant holds in every reachable state. *)
THEOREM Invariance == Spec => []IInv
<1> QED
  BY InitInv, NextInv, PTL DEF Spec

(* The variables of device_lock.c and the tasks' positions keep their types. *)
THEOREM TypeCorrect == Spec => []TypeOK
<1>1. IInv => TypeOK
  BY DEF IInv
<1> QED
  BY <1>1, Invariance, PTL

(* Two tasks are never both between device_mutex_lock(d) and               *)
(* device_mutex_unlock(d) when the mutex of d could be created, for any    *)
(* number of tasks and devices and any race of first callers.              *)
THEOREM Exclusion == Spec => []MutualExclusion
<1>1. IInv => MutualExclusion
  BY DEF IInv, InsideHolds, MutualExclusion, Inside, device_mutex
<1> QED
  BY <1>1, Invariance, PTL

(* The double-checked creation never makes a second mutex for a device. *)
THEOREM CreatedAtMostOnce == Spec => []OneMutexPerDevice
<1>1. IInv => OneMutexPerDevice
  BY DEF IInv, CreatedOnce, OneMutexPerDevice
<1> QED
  BY <1>1, Invariance, PTL

(* A device's mutex, once published by the flag, is never replaced. *)
THEOREM StableHandle == Spec => HandleStable
<1>1. IInv /\ [Next]_vars => [\A d \in mutex_init : device_mutex(d)' = device_mutex(d)]_vars
  <2> SUFFICES ASSUME IInv, Next, NEW d \in mutex_init PROVE device_mutex(d)' = device_mutex(d)
    OBVIOUS
  <2>1. PICK t \in Task : CallLock(t) \/ CallUnlock(t) \/ Step(t)
    BY DEF Next
  <2> QED
    BY <2>1 DEF IInv, TypeOK, device_mutex, CallLock, CallUnlock, Step, TestInit, CriticalInit, InnerTest, Take, Wake, Put
<1> QED
  BY <1>1, Invariance, PTL DEF Spec, HandleStable

-----------------------------------------------------------------------------
(* With the mutexes created, the owner the callers see is the one task     *)
(* inside the device.                                                      *)
OwnerInside ==
    /\ owner \in [Served -> Task \cup {NoTask}]
    /\ \A d \in Served, t \in Task : owner[d] = t <=> Inside(t, d)

LEMMA OwnerLemma == IInv => OwnerInside
<1> SUFFICES ASSUME IInv PROVE OwnerInside
  OBVIOUS
<1>1. \A t, u \in Task, d \in Served : Inside(t, d) /\ Inside(u, d) => t = u
  <2> SUFFICES ASSUME NEW t \in Task, NEW u \in Task, NEW d \in Served,
                      Inside(t, d), Inside(u, d)
               PROVE t = u
    OBVIOUS
  <2>1. dev[t] = d /\ dev[u] = d /\ d \in mutex_init
    BY DEF Inside, IInv, InitBeforeUse
  <2>2. created[d] = 1
    BY <2>1 DEF IInv, CreatedOnce, Served
  <2> QED
    BY <2>1, <2>2 DEF IInv, InsideHolds
<1>2. \A d \in Served : owner[d] = IF \E t \in Task : Inside(t, d)
                                   THEN CHOOSE t \in Task : Inside(t, d) ELSE NoTask
  BY DEF owner
<1>3. ASSUME NEW d \in Served
      PROVE  owner[d] \in Task \cup {NoTask} /\ \A t \in Task : owner[d] = t <=> Inside(t, d)
  <2>1. CASE \E t \in Task : Inside(t, d)
    <3>1. owner[d] \in Task /\ Inside(owner[d], d)
      BY <1>2, <2>1
    <3> QED
      BY <3>1, <1>1
  <2>2. CASE ~\E t \in Task : Inside(t, d)
    BY <1>2, <2>2, TaskAssumption
  <2> QED
    BY <2>1, <2>2
<1>4. owner = [d \in Served |-> owner[d]]
  BY DEF owner
<1> QED
  BY <1>3, <1>4 DEF OwnerInside

(* The abstract lock is unchanged by a step that moves nobody in or out. *)
LEMMA SameInside ==
    ASSUME OwnerInside, OwnerInside',
           \A t \in Task, d \in Served : Inside(t, d)' <=> Inside(t, d)
    PROVE  owner' = owner
<1>1. ASSUME NEW d \in Served PROVE owner'[d] = owner[d]
  <2>1. owner[d] \in Task \cup {NoTask} /\ owner'[d] \in Task \cup {NoTask}
    BY DEF OwnerInside
  <2>2. \A t \in Task : owner'[d] = t <=> owner[d] = t
    BY DEF OwnerInside
  <2> QED
    BY <2>1, <2>2
<1>2. owner = [d \in Served |-> owner[d]] /\ owner' = [d \in Served |-> owner'[d]]
  BY DEF OwnerInside
<1> QED
  BY <1>1, <1>2

(* Take and Put are the abstract Lock and Unlock, everything else stutters. *)
LEMMA StepSimulation ==
    ASSUME IInv, OwnerInside, OwnerInside', [Next]_vars
    PROVE  [Service!Next]_owner
<1> USE DEF IInv, TypeOK, Served
<1>1. CASE UNCHANGED vars
  BY <1>1, SameInside DEF vars, Inside
<1>2. ASSUME NEW t \in Task, CallLock(t) PROVE owner' = owner
  <2>1. \A u \in Task, d \in Device : Inside(u, d)' <=> Inside(u, d)
    BY <1>2 DEF CallLock, Inside
  <2> QED
    BY <2>1, SameInside
<1>3. ASSUME NEW t \in Task, CallUnlock(t) PROVE owner' = owner
  <2>1. \A u \in Task, d \in Device : Inside(u, d)' <=> Inside(u, d)
    BY <1>3 DEF CallUnlock, Inside
  <2> QED
    BY <2>1, SameInside
<1>4. ASSUME NEW t \in Task, TestInit(t) \/ CriticalInit(t) \/ Wake(t) PROVE owner' = owner
  <2>1. \A u \in Task, d \in Device : Inside(u, d)' <=> Inside(u, d)
    BY <1>4 DEF TestInit, CriticalInit, Wake, AfterInit, Inside, InitBeforeUse
  <2> QED
    BY <2>1, SameInside
<1>5. ASSUME NEW t \in Task, Take(t), dev[t] \in MayFail PROVE owner' = owner
  <2>1. \A u \in Task, d \in Served : Inside(u, d)' <=> Inside(u, d)
    BY <1>5 DEF Take, Inside, InitBeforeUse
  <2> QED
    BY <2>1, SameInside
<1>6. ASSUME NEW t \in Task, Put(t), dev[t] \in MayFail PROVE owner' = owner
  <2>1. \A u \in Task, d \in Served : Inside(u, d)' <=> Inside(u, d)
    BY <1>6 DEF Put, Inside, InitBeforeUse
  <2> QED
    BY <2>1, SameInside
<1>7. ASSUME NEW t \in Task, Take(t), dev[t] \notin MayFail PROVE [Service!Next]_owner
  <2> PICK d \in Served : d = dev[t]
    BY <1>7
  <2>1. dev[t] = d /\ created[d] = 1 /\ op[t] = "lock" /\ pc[t] = "take"
    BY <1>7 DEF Take, CreatedOnce, InitBeforeUse
  <2>2. CASE holder[d][1] = NoTask
    <3>1. pc' = [pc EXCEPT ![t] = "owner"] /\ UNCHANGED <<op, dev, created>>
      BY <1>7, <2>1, <2>2 DEF Take, device_mutex
    <3>2. \A u \in Task : ~Inside(u, d)
      BY <2>1, <2>2, TaskAssumption DEF InsideHolds, Inside
    <3>3. owner[d] = NoTask
      BY <3>2 DEF OwnerInside
    <3>4. Inside(t, d)'
      BY <3>1 DEF Inside
    <3>5. \A e \in Served \ {d}, u \in Task : Inside(u, e)' <=> Inside(u, e)
      BY <3>1, <2>1 DEF Inside
    <3>6. \A e \in Served \ {d} : owner'[e] = owner[e]
      BY <3>5 DEF OwnerInside
    <3>7. owner'[d] = t
      BY <3>4, <2>1 DEF OwnerInside
    <3>8. owner' = [owner EXCEPT ![d] = t]
      BY <3>6, <3>7, <2>1 DEF OwnerInside
    <3> QED
      BY <3>3, <3>8, <2>1 DEF Service!Next, Service!Lock
  <2>3. CASE holder[d][1] # NoTask
    <3>1. pc' = [pc EXCEPT ![t] = "blocked"] /\ UNCHANGED <<op, dev, created>>
      BY <1>7, <2>1, <2>3 DEF Take, device_mutex
    <3>2. \A u \in Task, e \in Served : Inside(u, e)' <=> Inside(u, e)
      BY <3>1, <2>1 DEF Inside
    <3> QED
      BY <3>2, SameInside
  <2> QED
    BY <2>2, <2>3
<1>8. ASSUME NEW t \in Task, Put(t), dev[t] \notin MayFail PROVE [Service!Next]_owner
  <2> PICK d \in Served : d = dev[t]
    BY <1>8
  <2>1. dev[t] = d /\ Inside(t, d)
    BY <1>8 DEF Put, Inside, InitBeforeUse
  <2>2. owner[d] = t
    BY <2>1 DEF OwnerInside
  <2>3. \A u \in Task \ {t}, e \in Served : Inside(u, e)' <=> Inside(u, e)
    BY <1>8 DEF Put, Inside
  <2>4. \A e \in Served : ~Inside(t, e)'
    BY <1>8 DEF Put, Inside
  <2>5. \A u \in Task : ~Inside(u, d)'
    BY <2>1, <2>2, <2>3, <2>4 DEF OwnerInside
  <2>6. owner'[d] = NoTask
    BY <2>5, <2>1 DEF OwnerInside
  <2>7. \A e \in Served \ {d}, u \in Task : Inside(u, e)' <=> Inside(u, e)
    BY <2>3, <2>4, <2>1 DEF Inside
  <2>8. \A e \in Served \ {d} : owner'[e] = owner[e]
    BY <2>7 DEF OwnerInside
  <2>9. owner' = [owner EXCEPT ![d] = NoTask]
    BY <2>6, <2>8, <2>1 DEF OwnerInside
  <2> QED
    BY <2>2, <2>9, <2>1 DEF Service!Next, Service!Unlock
<1> QED
  BY <1>1, <1>2, <1>3, <1>4, <1>5, <1>6, <1>7, <1>8 DEF Next, Step

(* device_lock.c implements the abstract lock service, for the devices     *)
(* whose mutex the heap has room for: one owner per device, given back by  *)
(* itself, whatever happens to the other devices.                          *)
THEOREM LockImplemented == Spec => ImplementsLock
<1>1. Init => Service!Init
  <2> SUFFICES ASSUME Init PROVE owner = [d \in Served |-> NoTask]
    BY DEF Service!Init
  <2>1. \A t \in Task, d \in Served : ~Inside(t, d)
    BY DEF Init, Inside
  <2> QED
    BY <2>1 DEF owner
<1>2. Spec => []OwnerInside
  <2>1. IInv => OwnerInside
    BY OwnerLemma
  <2> QED
    BY <2>1, Invariance, PTL
<1>3. IInv /\ OwnerInside /\ OwnerInside' /\ [Next]_vars => [Service!Next]_owner
  BY StepSimulation
<1> QED
  BY <1>1, <1>2, <1>3, Invariance, PTL DEF Spec, ImplementsLock, Service!Spec
=============================================================================
