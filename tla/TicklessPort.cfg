SPECIFICATION Spec
CONSTANTS
    t1 = t1
    t2 = t2
    Task = {t1, t2}
    Os = t1
    MaxDelay = 3
    MaxSuppressed = 2
    TickUs = 3
    UsMod = 10
    TimerMod = 18
    Late = 1
    MaxMissing = 2
    MaxPended = 1
INVARIANT NotPastWake
