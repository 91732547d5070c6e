CONSTANTS
    t1 = t1
    t2 = t2
    NoTurn = NoTurn
    Turns <- TwoTurns
    MaxCalls = 2
    AutoApprove = FALSE
SPECIFICATION FairSpec
INVARIANTS
    TokenIsTheTurns
    DialogIsAwaited
PROPERTIES
    SessionGrows
    TypingNeverAllows
    EscFrees
CHECK_DEADLOCK FALSE
