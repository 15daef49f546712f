SPECIFICATION Spec
CONSTANTS
    MaxTurns = 1
    MaxCrashes = 1
    MaxMoods = 0
    Moods = {"clear"}
    Endings = {"ok", "stopped"}
CHECK_DEADLOCK FALSE
INVARIANTS HeldStaysOut
