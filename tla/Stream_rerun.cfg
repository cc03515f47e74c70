CONSTANTS
    s1 = s1
    Calls = {s1}
    MaxFrames = 2
    Plans <- AllPlans
    FrameBytes = 1
    MaxChunks = 2
    MaxBytes = 2
    MaxTotal = 2
    MaxRetries = 1
    MaxFaults = 1
    SameReruns = FALSE
SPECIFICATION Spec
INVARIANT CleanMeansComplete
CHECK_DEADLOCK FALSE
