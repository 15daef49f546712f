SPECIFICATION FairSpec
CONSTANTS
    None = None
    Terminals = {11}
    Plugged = {11}
    Writers = {1, 2}
    BoundWriters = {TRUE, FALSE}
    Faults = {"crash", "panic"}
    Margin = 0
    Memory = 1
    Deadline = 1
    MaxClock = 1
    MaxRecords = 0
    MaxQueue = 2
    MaxEpoch = 2
PROPERTIES  FailedReleaseHolds WaiterIsKept
