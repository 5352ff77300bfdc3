SPECIFICATION Spec
CONSTANTS
    Devices = {d1, d2}
    MaxRuns = 2
INVARIANTS
    ClientFindsDevice
    TelemetryHasClient
    OneAttestationPasses
PROPERTIES
    ImplementsProvisioning
