SPECIFICATION Spec
CONSTANTS
    None = None
    Copied = Copied
    Torn = Torn
    Daemons = {a, b, c}
    Legacy = {l}
    Probers = {s}
    Pids = {n1, n2, n3}
SYMMETRY Symmetry
INVARIANTS TypeOK LiveKeepsSocket Reclaimable
PROPERTIES AbsentIsTrue
CHECK_DEADLOCK FALSE
