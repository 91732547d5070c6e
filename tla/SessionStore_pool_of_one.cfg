CONSTANTS
    r1 = r1
    r2 = r2
    c1 = c1
    c2 = c2
    c3 = c3
    s1 = s1
    NoReplica = NoReplica
    Db = Db
    Absent = Absent
    NoCall = NoCall
    Replicas <- OneReplica
    PoolSize = 1
    Attempts = 2
    StartRetries = 1
    MaxOutages = 2
    Cases <- Nothing
    Calls <- NoCalls
    Extra <- NoCalls
    Ids <- OneId
    Placements <- SameOrTwo
SPECIFICATION FairSpec
PROPERTIES
    StartEnds
CHECK_DEADLOCK FALSE
