SPECIFICATION Spec
CONSTANTS
    c1 = c1
    c2 = c2
    Client = {c1, c2}
    Nobody = Nobody
    Word = 1
    Own = 1
    Gateway = 2
    PoolStart = 5
    PoolEnd = 6
    MaxInFlight = 1
    MaxTroubles = 0
INVARIANT LeasesLatched
