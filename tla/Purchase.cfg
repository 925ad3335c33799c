SPECIFICATION MCSpec
CONSTANTS
    Proformas = {1, 2}
    Amounts = {1, 2}
    Clicks = {c1, c2}
    MaxRetreats = 1
    MaxEdits = 1
INVARIANTS DoneAsAsked StraightAsPlanned CanProceed
PROPERTY LinesFixedByCeo
SYMMETRY ClickSymmetry
CHECK_DEADLOCK FALSE
