SPECIFICATION Spec
CONSTANTS
    Templates = {rigflow}
    Rigs = {r1}
    NoRig = NoRig
    Servers = {o1}
    Tools = {gt1}
    None = None
    MaxSeq = 2
    MaxBirths = 2
    MaxFaults = 1
INVARIANTS OneRunning AckedIsOnDisk IdNamesOne
CHECK_DEADLOCK FALSE
