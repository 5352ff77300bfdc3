SPECIFICATION Spec
CONSTANTS
    Devices = {d1}
    MaxRuns = 2
INVARIANTS
    DualCitizenship
