SPECIFICATION FairSpec
CONSTANTS
    Nudges <- OneNudge
    Reminders <- OneNudge
    Expiring <- OneNudge
    Senders = {s1}
    Drainers = {hook, acp}
    Hooks = {hook}
    Propellers = {acp}
    MaxDepth = 1
    MaxFiles = 3
    MaxFaults = 2
INVARIANTS AtMostOnce NoSilentLoss
PROPERTY EveryNudgeSettles
CHECK_DEADLOCK FALSE
