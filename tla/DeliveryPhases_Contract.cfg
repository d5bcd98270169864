SPECIFICATION Spec
CONSTANTS
    N = 3
    FirstFiles = {"missing"}
    Changes = {{1}, {2}, {3}, {1, 2}, {1, 3}, {2, 3}, {1, 2, 3}}
INVARIANT EveryPhaseCompleted
CHECK_DEADLOCK FALSE
