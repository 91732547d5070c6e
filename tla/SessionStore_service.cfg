CONSTANTS
    r1 = r1
    r2 = r2
    c1 = c1
    c2 = c2
    c3 = c3
    s1 = s1
    NoReplica = NoReplica
    Db = Db
    Absent = Absent
    NoCall = NoCall
    Replicas <- TwoReplicas
    PoolSize = 2
    Attempts = 2
    StartRetries = 1
    MaxOutages = 2
    Cases <- ServiceCases
    Calls <- ThreeCalls
    Extra <- Third
    Ids <- OneId
    Placements <- SameOrTwo
SPECIFICATION FairSpec
INVARIANTS
    LookStaysTrue
    FatalIsEarned
    StatementsFindTable
PROPERTIES
    KeepsContract
    Serves
    CallsEnd
CHECK_DEADLOCK FALSE
