CONSTANTS
    a = a
    b = b
    n1 = n1
    n2 = n2
    Conns = {n1, n2}
    Channels = {a, b}
    ConnOf <- MCConnOf
    Queues <- MCQueues
    Exchanges <- MCExchanges
    BindKeys <- MCBindKeys
    Policies = {"ack", "late", "nack", "drop", "hold"}
    Tags = {"t"}
    Profiles <- MCProfiles
    MaxCopies = 3
    MaxTags = 2
    MaxFaults = 1
SPECIFICATION Spec
SYMMETRY Clients
INVARIANTS
    NothingLost NoIdle PrefetchHeld ReturnThenConfirm NothingDangles
CHECK_DEADLOCK FALSE
