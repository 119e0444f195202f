SPECIFICATION LoopSpec
CONSTANTS
    MaxLines = 2
    Manifests <- Pods
    Registered <- Names
    MaxEditions = 1
INVARIANTS
    ProxyInjected
