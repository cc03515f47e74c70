CONSTANTS
    c1 = c1
    c2 = c2
    Comp = {c1, c2}
    MaxGen = 4
    MaxFaults = 2
    Scenes <- PartialScenes
SPECIFICATION FairSpec
PROPERTY ConsumerRebuilt
CHECK_DEADLOCK FALSE
