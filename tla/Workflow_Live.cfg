SPECIFICATION FetchSpec
CONSTANTS
    State <- RigState
    Outcome <- PlainOutcome
    RoleOf <- RigRoleOf
    To <- RigTo
    InitialState = "kickoff"
    TimeLimited <- SomeLimited
    TimeoutHooked <- RigTimeoutHooked
    ProgressGuarded <- RigProgressGuarded
    NoProgressLimit = 2
    MaxReviewRetries = 2
    Resettable <- ReviewResets
    Version <- OneVersion
    InitialProfile <- Fresh
    IOFails = FALSE
    NoRole = "none"
    NoState = "no_state"
INVARIANT TypeOK
PROPERTIES WorkflowFinishes FetchIsAnswered DesignLoopPauses
