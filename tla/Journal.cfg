SPECIFICATION Spec
CONSTANTS
    Sessions = {s1}
    Terminals = {p1}
    Viewers = {v1}
    RingCapacity = 2
    ReplayCap = 1
    MaxSeq = 3
    MaxBoot = 1
CHECK_DEADLOCK FALSE
INVARIANTS TypeOK RingIsSuffix NoSilentHole MissedAreReissued NumberingNeverFallsBack
PROPERTIES GapsAreOld
