SPECIFICATION FairSpec
CONSTANTS
    base = "driver-container-base"
    kmod = "simple-kmod"
    gpu = "nvidia-gpu"
    Names = {"driver-container-base", "simple-kmod"}
    Namespaces = {"driver-container-base", "simple-kmod"}
    SpecNamespace <- DefaultNamespace
    DependsOn <- MCDependsOn
    ImageReference <- MCImageReference
    Recipes = {"driver-container-base", "simple-kmod"}
    MaxUserOps = 1
    MaxFaults = 0
PROPERTIES
    EventuallyRolledOut
