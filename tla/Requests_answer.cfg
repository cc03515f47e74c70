CONSTANTS
    MaxInt32 = 6
    MaxInt64 = 12
    Fields <- MCFields
    Schema <- MCSchema
    Words = {"p1"}
    Deployments <- MCDeployments
    Calls <- MCCalls
    Outcomes <- MCOutcomes
    PeerReplies <- MCPeerReplies
    Widths = {"int8", "int32"}
SPECIFICATION Spec
INVARIANTS
    RoutedMethodRuns AnswerCrosses UnhandledTextStays LadderBounded CopiesFaithful
CHECK_DEADLOCK FALSE
