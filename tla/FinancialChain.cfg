SPECIFICATION Spec
CONSTANTS
    requester = requester
    colleague = colleague
    Requester = requester
    MaxAmount = 2
    Settings <- AllSettings
INVARIANTS StagesInOrder NobodyIsStuck
PROPERTIES LocksHold
CHECK_DEADLOCK FALSE
