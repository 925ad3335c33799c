SPECIFICATION Spec
CONSTANTS
    Sessions = {h1, h2}
    NumSteps = 2
    MaxRuns = 2
    MaxReport = 2
    Settings <- CalmOrRough
INVARIANTS MissionAddsUp
PROPERTY ReportFrozen
SYMMETRY SessionSymmetry
CHECK_DEADLOCK FALSE
