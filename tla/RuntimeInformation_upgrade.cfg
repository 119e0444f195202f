SPECIFICATION Spec
CONSTANTS
    n1 = n1
    n2 = n2
    s1 = s1
    s2 = s2
    SpecialResources = {s1, s2}
    Nodes = {n1, n2}
    Releases <- Openshift
    MaxProxy = 1
    MaxHistory = 2
SYMMETRY Symmetry
INVARIANTS
    TypeOK
    ReadFactsOfThisPass
    FromOneNode
PROPERTIES
    UpgradeIsNotOlder
