SPECIFICATION FairSpec
CONSTANTS
    t1 = t1
    t2 = t2
    t3 = t3
    efuse = efuse
    flash = flash
    Task = {t1, t2, t3}
    Device = {efuse, flash}
    NoTask = NoTask
    MayFail = {efuse}
INVARIANTS TypeOK MutualExclusion OneMutexPerDevice
PROPERTIES HandleStable SomebodyEnters ImplementsLock
