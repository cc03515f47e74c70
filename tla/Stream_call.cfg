CONSTANTS
    s1 = s1
    Calls = {s1}
    MaxFrames = 3
    Plans <- AllPlans
    FrameBytes = 1
    MaxChunks = 2
    MaxBytes = 3
    MaxTotal = 3
    MaxRetries = 1
    MaxFaults = 2
    SameReruns = TRUE
SPECIFICATION Spec
INVARIANTS
    FinalBeforeAck BufferExact
PROPERTY PromiseKept
CHECK_DEADLOCK FALSE
