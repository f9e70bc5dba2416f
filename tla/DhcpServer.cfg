SPECIFICATION FairSpec
CONSTANTS
    c1 = c1
    c2 = c2
    Client = {c1, c2}
    Nobody = Nobody
    Word = 1
    Own = 1
    Gateway = 2
    PoolStart = 1
    PoolEnd = 4
    MaxInFlight = 1
    MaxTroubles = 2
INVARIANTS TypeOK NeverReserved UniqueUnlessTaken
PROPERTIES ServedWhenAlone
