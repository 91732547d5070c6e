CONSTANTS
    p1 = p1
    p2 = p2
    w1 = w1
    w2 = w2
    Publishers <- MCPublishers
    Watchers <- MCWatchers
    Capacity = 1
    MaxEvents = 3
    MaxCloses = 1
SPECIFICATION FairSpec
INVARIANTS
    NothingUnaccounted
    LossIsLag
PROPERTIES
    CaughtUp
CHECK_DEADLOCK FALSE
