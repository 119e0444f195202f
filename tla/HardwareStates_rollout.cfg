SPECIFICATION FairSpec
CONSTANTS
    Docs <- EveryKind
    MaxUserOps = 2
    MaxFaults = 1
INVARIANTS
    TypeOK
    AllApplied
PROPERTIES
    Validated
    RollsOut
