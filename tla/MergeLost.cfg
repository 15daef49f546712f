SPECIFICATION Spec
CONSTANTS
    None = None
    c1 = c1
    c2 = c2
    Claims <- TwoClaims
    MaxRecords = 3
    MaxPicks = 2
    MaxTurns = 1
    MaxKills = 1
    MaxLosses = 1
    MaxLate = 3
INVARIANTS CancellationRecovers
CHECK_DEADLOCK FALSE
