CONSTANTS
    a = a
    b = b
    a1 = a1
    a2 = a2
    u = u
    w1 = w1
    Absent = Absent
    Malformed = Malformed
    Files <- TwoFiles
    Skills <- ThreeSkills
    Names <- TwoNames
    NameOf <- Bears
    Streams <- OneStream
    MaxChanges = 2
    MaxReloads = 1
SPECIFICATION FairSpec
INVARIANTS
    TypeOK
    QuietIsCurrent
    ViewFollows
PROPERTIES
    Converges
CHECK_DEADLOCK FALSE
