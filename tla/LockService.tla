---------------------------- MODULE LockService -----------------------------
(***************************************************************************)
(* What component/os/os_dep/include/device_lock.h promises: each device    *)
(* has at most one owner, who is the only one to give it back.             *)
(***************************************************************************)
CONSTANTS Task, Device, NoTask

VARIABLE owner

Init == owner = [d \in Device |-> NoTask]

Lock(t, d) == owner[d] = NoTask /\ owner' = [owner EXCEPT ![d] = t]

Unlock(t, d) == owner[d] = t /\ owner' = [owner EXCEPT ![d] = NoTask]

Next == \E t \in Task, d \in Device : Lock(t, d) \/ Unlock(t, d)

Spec == Init /\ [][Next]_owner
=============================================================================
