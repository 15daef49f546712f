SPECIFICATION Spec
CONSTANTS
    None = None
    Terminals = {11}
    Plugged = {11}
    Writers = {1}
    BoundWriters = {TRUE}
    Faults = {}
    Margin = 0
    Memory = 1
    Deadline = 1
    MaxClock = 1
    MaxRecords = 1
    MaxQueue = 1
    MaxEpoch = 2
INVARIANTS OneWriter
