SPECIFICATION LoopSpec
CONSTANTS
    MaxLines = 5
    Manifests <- EveryKind
    Registered <- Names
    MaxEditions = 2
INVARIANTS
    TypeOK
    HooksTypeOK
    DocumentsKept
    ExitsOnEmptyDocument
