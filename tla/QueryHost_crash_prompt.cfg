CONSTANTS
    t1 = t1
    t2 = t2
    s1 = s1
    s2 = s2
    NoTurn = NoTurn
    NoRecord = NoRecord
    Turns <- TwoTurns
    Sessions <- TwoSessions
    MaxCrashes = 1
    MaxDeletes = 0
    Cases <- CrashCase
SPECIFICATION FairSpec
PROPERTIES
    CrashKeepsPrompt
CHECK_DEADLOCK FALSE
