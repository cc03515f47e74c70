CONSTANTS
    c1 = c1
    c2 = c2
    Comp = {c1, c2}
    MaxGen = 4
    MaxFaults = 2
    Scenes <- MCScenes
SPECIFICATION FairSpec
INVARIANTS
    ReadyMeansRestored NoConnLeaks
PROPERTIES
    NeverReadyAgain NeverHangs ConsumerRebuiltWhenReady
CHECK_DEADLOCK FALSE
