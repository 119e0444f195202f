SPECIFICATION Spec
CONSTANTS
    a = a
    b = b
    n1 = n1
    n2 = n2
    Vendor <- MCVendor
    Vendors = {"va", "vb"}
    SpecialResources <- OneResource
    HasBuildConfig = {a}
    WaitForLogs = {a}
    Nodes = {n1, n2}
    InitialNodes = {}
    Selects <- AllNodes
    MaxKernel = 2
    MaxFaults = 0
INVARIANTS
    ReadyNeedsImage
    RenderedForKernel
