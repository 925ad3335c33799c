SPECIFICATION MCSpec
CONSTANTS
    Sessions = {h1, h2, h3}
    NumSteps = 3
    ManualSteps = {3}
    Assignee <- FirstTwo
    Ops = {"approve", "reject", "delete"}
INVARIANTS DecidedIsLogged ApprovalsLeaveAPending CleanAlone
SYMMETRY SessionSymmetry
CHECK_DEADLOCK FALSE
