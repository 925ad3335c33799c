SPECIFICATION MCSpec
CONSTANTS
    Accounts = {1, 2}
    Roles = {1, 2}
    Permissions = {1, 2}
    Usernames = {"x", "y"}
    RoleNames = {"ceo", "clerk"}
    DEFAULT_SINGLETON_ROLE_NAMES = {"ceo"}
    Codes <- MCCodes
    Needs <- MCNeeds
    Admins = {c1, c2}
    Employees = {1, 2, 3, 4}
    Departments = {1, 2, 3}
    Level = 2
    Officers = {c1, c2}
    Persons = {1, 2}
    RoleIds = {1, 2}
    Names = {"ceo", "CEO", "clerk"}
    Labels = {"chief"}
    Folded <- MCFolded
    MaxSteps = 2
    DEFAULT_ROLE_STEPS <- MCDefaultSteps
    Rows = {1, 2, 3}
    PageSize = 1
    MaxMoves = 1
INVARIANTS DirectoryIsSound OrganizationIsSound TeamIsBelow DefinitionsHold PagesMissNothing
PROPERTY RolesAreHeld
SYMMETRY Alike
CHECK_DEADLOCK FALSE
