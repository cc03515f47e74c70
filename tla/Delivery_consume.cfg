CONSTANTS
    m1 = m1
    t1 = t1
    t2 = t2
    Msg = {m1}
    Dlv = {t1, t2}
    ReplyTo = {m1}
    Modes = {"late", "bare", "early", "event", "stream"}
    MaxRetries = 1
    Results = {"ok", "fail", "handled"}
    Concurrency = 1
    MaxFaults = 2
    Stops = {"late", "stream"}
SPECIFICATION FairSpec
INVARIANTS
    LeavesByDecision HandlersBounded RerunsPaid DrainCompletes RegistrationsEnd
PROPERTIES
    EveryMessageSettles NothingAwaitsHandlers
CHECK_DEADLOCK FALSE
