SPECIFICATION MCSpec
CONSTANTS
    People = {"a", "c", "s"}
    MaxItems = 1
    Length = 2
    Assignee <- MCAssignee
    Submitter = "s"
    CEOs = {"c"}
    Handlers = {"h1"}
    MaxFailures = 1
    MaxEdits = 1
    Creator = "s"
    Bosses = {"c"}
    MaxHops = 1
INVARIANTS FeedHolds TaskIsInInbox
CHECK_DEADLOCK FALSE
