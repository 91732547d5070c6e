CONSTANTS
    t1 = t1
    t2 = t2
    s1 = s1
    s2 = s2
    NoTurn = NoTurn
    NoRecord = NoRecord
    Turns <- TwoTurns
    Sessions <- TwoSessions
    MaxCrashes = 1
    MaxDeletes = 1
    Cases <- HostCases
SPECIFICATION FairSpec
INVARIANTS
    NoStaleToken
    UncancelledIsRegistered
    AnsweredIsStored
    DeletedStaysGone
PROPERTIES
    RecordsGrow
    CancelledIsAnswered
CHECK_DEADLOCK FALSE
