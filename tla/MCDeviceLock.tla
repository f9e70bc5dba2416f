---------------------------- MODULE MCDeviceLock ----------------------------
(* Three tasks, so that a third one can arrive while two race for the      *)
(* creation; two devices (RT_DEV_LOCK_EFUSE, RT_DEV_LOCK_FLASH), of which   *)
(* one may find the heap exhausted.                                        *)
EXTENDS DeviceLock

CONSTANTS t1, t2, t3, efuse, flash
=============================================================================
