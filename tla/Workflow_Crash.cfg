SPECIFICATION Spec
CONSTANTS
    State <- RigState
    Outcome <- FlowOutcome
    RoleOf <- RigRoleOf
    To <- RigTo
    InitialState = "kickoff"
    TimeLimited <- SomeLimited
    TimeoutHooked <- RigTimeoutHooked
    ProgressGuarded <- NoStates
    NoProgressLimit = 2
    MaxReviewRetries = 2
    Resettable <- ResetStates
    Version <- OneVersion
    InitialProfile <- Fresh
    IOFails = TRUE
    Rank <- RigRank
    NoRole = "none"
    NoState = "no_state"
INVARIANTS AckedIsDurable EndedMeansEnded 
PROPERTIES GatesInOrder
