SPECIFICATION QuantSpec
CONSTANTS
    None = None
    Parts = {"0", "x", "c"}
    Requests <- MCRequests
    AuditEvery = 2
    MinBits = 3
    MaxBits = 5
    StartK = 5
    StartV = 4
    Window = 2
    Interval = 7
    Improvements <- MCImprovements
INVARIANTS
    NoForeignAnswer
PROPERTIES
    NeverLowersByDefault
    DriftRaisesBits
