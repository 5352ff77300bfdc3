SPECIFICATION FairSpec
CONSTANTS
    Devices = {d1, d2}
    MaxRuns = 2
INVARIANTS
    TypeOK
    ClientFindsConnection
    OneLateMessage
PROPERTIES
    ClientEnds
    ImplementsProvisioning
