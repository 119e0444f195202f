SPECIFICATION RandomOrderSpec
CONSTANTS
    a = a
    b = b
    n1 = n1
    n2 = n2
    Vendor <- MCVendor
    Vendors = {"va", "vb"}
    SpecialResources <- TwoResources
    HasBuildConfig = {a, b}
    WaitForLogs = {}
    Nodes = {n1, n2}
    InitialNodes = {n1, n2}
    Selects <- OwnNode
    MaxKernel = 1
    MaxFaults = 1
INVARIANTS
    BuildNeedsPullFailure
    LabelsInScope
PROPERTIES
    EachValidated
    Converges
