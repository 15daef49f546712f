SPECIFICATION Spec
CONSTANTS
    None = None
    Requests = {q1, q2, q3}
    Sharing = {TRUE, FALSE}
    Faults = {"reject", "crash"}
    QueueCap = 1
    MaxGen = 3
    MaxNotes = 2
SYMMETRY Symmetry
CHECK_DEADLOCK FALSE
INVARIANTS TypeOK UncheckedIsMarked NoFalseMark TakenHoldsGate
PROPERTIES ImplementsInstruction
