SPECIFICATION Spec
CONSTANTS
    Nudges <- OneNudge
    Reminders <- OneNudge
    Expiring <- OneNudge
    Senders = {s1}
    Drainers = {hook, acp}
    Hooks = {hook}
    Propellers = {acp}
    MaxDepth = 1
    MaxFiles = 1
    MaxFaults = 0
INVARIANT DeliveredOnce
CHECK_DEADLOCK FALSE
