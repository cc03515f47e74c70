CONSTANTS
    m1 = m1
    t1 = t1
    t2 = t2
    Msg = {m1}
    Dlv = {t1, t2}
    ReplyTo = {m1}
    Modes = {"early"}
    MaxRetries = 1
    Results = {"ok", "fail", "handled"}
    Concurrency = 1
    MaxFaults = 1
    Stops = {}
SPECIFICATION Spec
INVARIANT
    AtMostOnce
CHECK_DEADLOCK FALSE
