SPECIFICATION Spec
CONSTANTS
    None = None
    c1 = c1
    c2 = c2
    Claims <- TwoClaims
    MaxRecords = 3
    MaxPicks = 2
    MaxTurns = 1
    MaxKills = 2
    MaxLosses = 2
    MaxLate = 3
INVARIANTS TypeOK JournalReadable CapturedOnce CancelledNeverLanded CarrierIsProof OneClaimant NeverWedged
CHECK_DEADLOCK FALSE
