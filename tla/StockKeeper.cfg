SPECIFICATION MCSpec
CONSTANTS
    Handlers = {h1, h2}
    Keys = {"main", "site"}
    Refs <- MCRefs
    Opening <- MCOpening
    Quantities <- MCQuantities
    MaxQty = 1
    Adjusting = TRUE
    Crashes = TRUE
INVARIANTS NothingFromNowhere BookedAlone
SYMMETRY HandlerSymmetry
CHECK_DEADLOCK FALSE
