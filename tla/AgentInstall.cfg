SPECIFICATION Spec
CONSTANTS
    None = None
    MaxTx = 4
    MaxRenames = 1
    MaxFaults = 2
    MaxCrashes = 2
INVARIANTS
    TypeOK
    RuntimeIsKept
PROPERTIES
    RecoveryCompletes
