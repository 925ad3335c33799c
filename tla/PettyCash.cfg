SPECIFICATION Spec
CONSTANTS
    Sessions = {h1, h2}
    MaxReq = 2
    NumSteps = 3
    MaxRuns = 2
    MaxSubmit = 2
    Settings <- CalmOrRough
INVARIANTS NothingWithoutApproval ToldInTheCalm
PROPERTIES KeptInTheCalm
SYMMETRY SessionSymmetry
CHECK_DEADLOCK FALSE
