SPECIFICATION FairSpec
CONSTANTS
    N = 3
    FirstFiles = {"missing", "stub", "good"}
    Changes = {{2}}
INVARIANTS TypeOK NoPhaseSkipped CompletedIsBuilt
PROPERTY DeliveryFinishes
CHECK_DEADLOCK FALSE
