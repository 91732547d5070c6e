CONSTANTS
    c1 = c1
    c2 = c2
    NoCall = NoCall
    NoFinish = NoFinish
    Calls <- MCCalls
    Reasons <- MCReasons
    MaxTurns = 2
    MaxDeltas = 2
SPECIFICATION Spec
INVARIANT ToolResultPaired
CHECK_DEADLOCK FALSE
