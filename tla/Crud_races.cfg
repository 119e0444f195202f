SPECIFICATION FairSpec
CONSTANTS
    Kinds <- RecipeKinds
    Specs = {1, 2}
    IPs = {11, 12}
    MaxOps = 4
INVARIANTS
    TypeOK
    ExitNeedsCause
PROPERTIES
    NoLostUpdate
    EventuallyApplied
