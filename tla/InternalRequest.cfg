SPECIFICATION FairSpec
CONSTANTS
    MaxReq = 1
    NumSteps = 2
    MaxRuns = 1
    Keys = {"pen", "paper"}
    Opening <- Some
    ItemLists <- OneOrBoth
    MaxEdits = 1
    MaxRestock = 1
    MaxCrashes = 1
    Redelivery = TRUE
INVARIANTS IssuedAsApproved
PROPERTY ApprovalIsCarriedOut
CHECK_DEADLOCK FALSE
