SPECIFICATION AloneSpec
CONSTANTS
    People = {"a", "c", "s"}
    MaxItems = 1
    Length = 2
    Assignee <- MCAssignee
    Submitter = "s"
    CEOs = {"c"}
    Handlers = {"h1"}
    MaxFailures = 1
    MaxEdits = 0
    Creator = "s"
    Bosses = {"c"}
    MaxHops = 1
PROPERTY DeadlinesAreAnnounced
CHECK_DEADLOCK FALSE
