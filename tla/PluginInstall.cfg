SPECIFICATION Spec
CONSTANTS
    N = 2
    Broken = Broken
    NoJournal = NoJournal
    Unknown = Unknown
    MaxInstalls = 2
    MaxEdits = 1
    MaxFaults = 1
    MaxCrashes = 2
INVARIANTS
    TypeOK
    NothingIsLost
PROPERTIES
    ImplementsInstallation
    RecoveryCompletes
