CONSTANTS
    c1 = c1
    c2 = c2
    NoCall = NoCall
    NoFinish = NoFinish
    Calls <- MCCalls
    Reasons <- MCReasons
    MaxTurns = 2
    MaxDeltas = 3
SPECIFICATION FairSpec
INVARIANTS
    NoTextLost
    ToolUseAnswered
    OutcomeClosesBus
    ReasonIsTrue
    HooksPaired
PROPERTIES
    CancelIsPrompt
    CancelReturns
    KeepsContract
CHECK_DEADLOCK FALSE
