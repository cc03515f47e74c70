CONSTANTS
    svcL = svcL
    ownL = ownL
    badL = badL
    s1 = s1
    s2 = s2
    s3 = s3
    e1 = e1
    Listeners = {svcL, ownL, badL}
    Owned = {svcL}
    Private = {ownL, badL}
    Retrying = {svcL, badL}
    Subs = {s1, s2, s3}
    On <- MCOn
    Plans <- MCPlans
    All = {s3}
    Evs = {e1}
    TopicOf <- MCTopicOf
    TypeOf <- MCTypeOf
    Topics <- MCTopics
    Results = {"ok", "fail", "handled"}
    MaxRetries = 1
    MaxFaults = 1
SPECIFICATION Spec
INVARIANTS
    SubscribedIsBound RetriesEarned SubscriptionServed
PROPERTY
    RoutesInOrder
CHECK_DEADLOCK FALSE
