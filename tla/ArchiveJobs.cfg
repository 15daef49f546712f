SPECIFICATION Spec
CONSTANTS
    MaxTurns = 2
    MaxCrashes = 2
    MaxMoods = 1
    Moods = {"clear", "privacy", "off", "kept", "down"}
    Endings = {"ok", "interrupted", "error", "exit", "stopped"}
CHECK_DEADLOCK FALSE
INVARIANTS TypeOK NoTurnForgotten ReceiptIsTrue OneCommitter JobsCanSettle
PROPERTIES JobsLeavePublished
