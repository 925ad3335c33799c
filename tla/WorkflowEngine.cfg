SPECIFICATION Spec
CONSTANTS
    Users = {u1, u2}
    NoUser = NoUser
    Manager = u1
    NumSteps = 3
    ManagerSteps <- MCManagerSteps
    ManualSteps <- MCManualSteps
    Requester = req
    Overseers = {boss}
    MaxInst = 2
    MaxClock = 4
INVARIANTS OrderDiscipline NoStuckInstance DecisionsAddUp ShownMayBeOpened
PROPERTIES EndedIsFinal ImplementsLifecycle
