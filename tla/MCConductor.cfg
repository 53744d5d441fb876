SPECIFICATION CFairSpec
CONSTANTS
    Scenario = "new_op"
    InitPlan <- NewOpPlan
    MaxRetry = 3
    RetryLimit <- SmallLimits
INVARIANTS
    BudgetsRespected
    OneStageAtWork
    TerminalPhases
    NoStageSkipped
    OneReentryPerRevision
    DesignReviewed
    DoneIsDelivered
    NothingDownstreamOfOpenStage
PROPERTIES
    FailedIsFinal
    CountersResetOnlyByRevision
    TaskEnds
