CONSTANTS
    c1 = c1
    c2 = c2
    c3 = c3
    p1 = p1
    p2 = p2
    NoFile = NoFile
    None = None
    Calls <- ThreeCalls
    Paths <- OnePath
    MaxLines = 2
    MaxMatches = 2
    Wrap = 8
    Offsets <- SomeOffsets
    Limits <- SomeLimits
    MaxCrashes = 1
    Cases <- TwoWriters
SPECIFICATION Spec
INVARIANTS
    WriteIsAtomic
CHECK_DEADLOCK FALSE
