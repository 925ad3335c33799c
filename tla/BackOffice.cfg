SPECIFICATION MCSpec
CONSTANTS
    Orders = {1, 2}
    Suppliers = {1, 2}
    Names = {"n"}
    Clerks = {c1, c2}
    Keepers = {c1, c2}
    Editors = {c1, c2}
    Tellers = {c1, c2}
    MaxLines = 3
    Receipts = {1, 2}
    MaxGrnLines = 3
    Categories = {1, 2, 3}
    Items = {1}
    Titles = {"a"}
    Common = "b"
    Parties = {"p"}
    Company = "company"
    Accounts = {1, 2, 3}
SYMMETRY Alike
INVARIANTS OrdersAddUp ReceiptsAddUp CatalogueIsWhole OneDefault
PROPERTIES ReceivedStays PostedStays
CHECK_DEADLOCK FALSE
