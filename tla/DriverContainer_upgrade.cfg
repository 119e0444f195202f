SPECIFICATION FairSpec
CONSTANTS
    a = a
    b = b
    n1 = n1
    n2 = n2
    Vendor <- MCVendor
    Vendors = {"va", "vb"}
    SpecialResources <- OneResource
    HasBuildConfig = {a}
    WaitForLogs = {}
    Nodes = {n1}
    InitialNodes = {n1}
    Selects <- AllNodes
    MaxKernel = 2
    MaxFaults = 0
PROPERTIES
    PullFailureIsRepaired
