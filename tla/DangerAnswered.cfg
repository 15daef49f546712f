SPECIFICATION FairSpec
CONSTANTS
    None = None
    Requests = {q1, q2}
    Sharing = {TRUE, FALSE}
    Faults = {"native", "reject"}
    QueueCap = 1
    MaxGen = 2
    MaxNotes = 2
CHECK_DEADLOCK FALSE
PROPERTIES AnsweredUnlessTurnedAway
