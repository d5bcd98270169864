SPECIFICATION FetchSpec
CONSTANTS
    State <- RigState
    Outcome <- PlainOutcome
    RoleOf <- RigRoleOf
    To <- RigTo
    InitialState = "kickoff"
    TimeLimited <- RigTimeLimited
    TimeoutHooked <- RigTimeoutHooked
    ProgressGuarded <- RigProgressGuarded
    NoProgressLimit = 2
    MaxReviewRetries = 2
    Resettable <- NoStates
    Version <- OneVersion
    InitialProfile <- Fresh
    IOFails = FALSE
    NoRole = "none"
    NoState = "no_state"
PROPERTIES ReviewLoopEscalates
