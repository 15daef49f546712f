SPECIFICATION Spec
CONSTANTS
    None = None
    Calls = {c1, c2, c3}
    Keys = {k1, k2, k3}
    LongKeys = {k3}
    Digests = {d1, d2}
    ReceiptCap = 1
    MaxPending = 2
    MaxRestarts = 1
SYMMETRY Symmetry
INVARIANTS TypeOK AtMostOnce OwnResult FrozenIsQuiet
PROPERTIES NotSentIsTrue
CHECK_DEADLOCK FALSE
