SPECIFICATION FairSpec
CONSTANTS
    base = "driver-container-base"
    kmod = "simple-kmod"
    gpu = "nvidia-gpu"
    Names = {"driver-container-base", "simple-kmod", "nvidia-gpu"}
    Namespaces = {"driver-container-base", "simple-kmod", "nvidia-gpu"}
    SpecNamespace <- OwnNamespace
    DependsOn <- MCDependsOn
    ImageReference <- MCImageReference
    Recipes = {"driver-container-base", "simple-kmod", "nvidia-gpu"}
    MaxUserOps = 2
    MaxFaults = 1
INVARIANTS
    TypeOK
    GrantScope
    DependenciesFirst
    OwnedByListed
PROPERTIES
    EventuallyRolledOut
    EventuallyCollected
