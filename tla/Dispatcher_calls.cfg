CONSTANTS
    c1 = c1
    Callers = {c1}
    MaxFaults = 2
    Scenes <- MCScenes
SPECIFICATION FairSpec
INVARIANTS
    SentOnce TableExact DisconnectedIsTrue OneReplyConsumer
PROPERTY NoCallLeftBehind
CHECK_DEADLOCK FALSE
