------------------------------- MODULE Listing -------------------------------
(***************************************************************************)
(* Reading a list page by page (services/query_utils.py, the list and count *)
(* functions of the services, and the list routes).  A page is one query,   *)
(* the total another one; rows are added, changed and removed between any   *)
(* two of them.  A list is described by the columns it searches, those its  *)
(* count searches, what else narrows both (the scope of the viewer          *)
(* included), and whether rows of equal sort value are put in order by id.  *)
(***************************************************************************)
EXTENDS Integers, FiniteSets, FiniteSetsExt, SequencesExt

CONSTANTS Rows,     \* ids of the rows, given out in their order
          PageSize,
          MaxMoves  \* bound: rows changed or removed under the reader

ASSUME ListingAssumption ==
    Rows \subseteq Nat \ {0} /\ IsFiniteSet(Rows) /\ PageSize \in Nat \ {0} /\ MaxMoves \in Nat

VARIABLES
    row,     \* row[i]: sort value, and whether it has the word searched for
             \* in the column meant, and what is filtered for
    query,   \* what the reader asks of one list
    page,    \* the page he asks for, or 0 when he has read all
    counts,  \* the page is read, its total is not
    shown,   \* rows he was shown
    total,   \* the last total
    owed,    \* rows that fitted when he began and were not touched since
    quiet,   \* nothing was added or changed since he began
    moves    \* rows changed or removed since he began

listingVars == <<row, query, page, counts, shown, total, owed, quiet, moves>>

-----------------------------------------------------------------------------
(* The lists of the services.                                               *)

Counted(searched, narrowed) ==
    [searched |-> searched, counted |-> searched, narrowed |-> narrowed, tie |-> TRUE]
Uncounted(searched) == [Counted(searched, {}) EXCEPT !.counted = {"no total"}]
Untied(list) == [list EXCEPT !.tie = FALSE]

SupplierRows == Counted({"name", "code", "phone", "email"}, {"active_only", "equal"})
OrderRows == Counted({"order_no", "item_name", "description", "supplier"},
                     {"request", "supplier", "status", "equal"})
ReceiptRows == Counted({"grn_no", "status"}, {"request", "equal"})
PurchaseRows == Counted({"status", "reason"}, {"scope", "equal"})
RequestRows == Counted({"status", "type"}, {"requester", "equal"})
CategoryRows == Counted({"name"}, {"parent", "equal"})
ItemRows == Untied(Counted({"name", "sku"}, {"equal"}))
WarehouseRows == Counted({"name"}, {"equal"})
CounterpartyRows == Counted({"name", "company_name", "account_number", "sheba_number", "card_number"},
                            {"active_only"})
AccountRows == Counted({"label", "bank_name", "account_number", "sheba_number", "card_number"},
                       {"active_only"})
PaymentRows == Counted({"payment_type", "payer_account", "receiver_account", "reason", "status"},
                       {"scope", "equal"})
PettyCashRows == Counted({"reason", "status", "settlement_status"}, {"scope"})
MissionRows == Counted({"destination", "reason", "vehicle", "status"}, {"scope"})
DocumentRows == Counted({"title", "description", "check_number", "party_name"}, {"scope"})
InstanceRows == Counted({"ref_type", "status"}, {"scope", "ref_type", "status", "id"})
TaskRows == Counted({"title", "description", "status"}, {"scope"})
InboxRows == Counted({"title", "message", "ref_type"}, {"user", "equal"})
NoteRows == Counted({"title", "message", "type", "ref_type"}, {"user", "equal"})
CenterRows == Uncounted({})
FormRows == Counted({"title", "description", "status"}, {"requester", "equal"})
WarehouseFormRows ==
    LET searched == {"title", "form_type", "source", "destination", "receiver_name",
                     "description", "status"}
    IN [Counted(searched, {"requester", "equal"}) EXCEPT !.counted = searched \ {"title"}]
UserRows == Untied(Counted({"username", "email", "mobile", "first_name", "last_name", "national_id",
                            "card_number", "sheba_number", "account_number"},
                           {"id", "username", "email"}))
RoleRows == Counted({"name", "display_name"}, {"equal"})
PermissionRows == Counted({"name", "code"}, {"equal"})
DepartmentRows == Counted({"name"}, {"parent"})
DefinitionRows == Counted({"name", "code", "ref_type"}, {})
AuditRows == Counted({"entity", "action"}, {"entity", "entity_id", "user_id", "action"})

(* The routes: a list, and how it is sorted unless the reader says.         *)
ById(rows) == [rows |-> rows, sort |-> "id", newest |-> TRUE]
ByTime(rows) == [rows |-> rows, sort |-> "time", newest |-> TRUE]
OldestFirst(rows) == [rows |-> rows, sort |-> "id", newest |-> FALSE]

list_suppliers_api == ById(SupplierRows)
list_purchase_orders_api == ByTime(OrderRows)
list_grn_api == ByTime(ReceiptRows)
list_purchase_requests_api == ByTime(PurchaseRows)
list_requests_api == ByTime(RequestRows)
list_categories == OldestFirst(CategoryRows)
list_items == ById(ItemRows)
list_all == ById(WarehouseRows)
list_counterparties_api == ById(CounterpartyRows)
list_company_accounts == ById(AccountRows)
list_payment_requests_api == ByTime(PaymentRows)
list_petty_cash_api == ByTime(PettyCashRows)
list_mission_requests_api == ByTime(MissionRows)
list_financial_documents_api == ByTime(DocumentRows)
list_workflow_instances_api == ById(InstanceRows)
list_ad_hoc_tasks_api == ByTime(TaskRows)
my_inbox == ByTime(InboxRows)
list_notifications == ByTime(NoteRows)
list_notifications_paginated == ByTime(NoteRows)
notification_center == ByTime(CenterRows)
list_workflow_forms_api == ByTime(FormRows)
list_warehouse_forms_api == ByTime(WarehouseFormRows)
list_users_api == ById(UserRows)
list_roles == ByTime(RoleRows)
list_roles_rbac == ByTime(RoleRows)
list_permissions == ByTime(PermissionRows)
list_permissions_rbac == ByTime(PermissionRows)
list_departments_api == OldestFirst(DepartmentRows)
list_definitions == ByTime(DefinitionRows)
list_audit_logs_api == ById(AuditRows)

Routes ==
    {list_suppliers_api, list_purchase_orders_api, list_grn_api, list_purchase_requests_api,
     list_requests_api, list_categories, list_items, list_all, list_counterparties_api,
     list_company_accounts, list_payment_requests_api, list_petty_cash_api,
     list_mission_requests_api, list_financial_documents_api, list_workflow_instances_api,
     list_ad_hoc_tasks_api, my_inbox, list_notifications, list_notifications_paginated,
     notification_center, list_workflow_forms_api, list_warehouse_forms_api, list_users_api,
     list_roles, list_roles_rbac, list_permissions, list_permissions_rbac,
     list_departments_api, list_definitions, list_audit_logs_api}

(* What a reader may ask of a route: a word that is in some rows in one of  *)
(* the columns it searches, one of its filters, and another order.  Only    *)
(* what tells the queries apart is kept.                                    *)
Question(route, column, narrow, sort, newest) ==
    [search |-> column # "no word", countsIt |-> column \in route.rows.counted \cup {"no word"},
     total |-> route.rows.counted # {"no total"}, narrow |-> narrow # "all",
     unique |-> sort = "id", tie |-> route.rows.tie, newest |-> newest]

QuestionsOf(route) ==
    {Question(route, column, narrow, sort, newest) :
       column \in route.rows.searched \cup {"no word"}, narrow \in route.rows.narrowed \cup {"all"},
       sort \in {route.sort, "another"}, newest \in {route.newest, TRUE}}
Questions == UNION {QuestionsOf(route) : route \in Routes}

-----------------------------------------------------------------------------

Absent == [at |-> 0, hit |-> FALSE, in |-> FALSE]
Deleted == [at |-> -1, hit |-> FALSE, in |-> FALSE]
There == {i \in Rows : row[i].at > 0}
Unadded == {i \in Rows : row[i] = Absent}

(* What the query does not look at is not told apart.                       *)
Contents == [at : IF query.unique THEN {1} ELSE 1..2,
             hit : IF query.search THEN BOOLEAN ELSE {FALSE},
             in : IF query.narrow THEN BOOLEAN ELSE {FALSE}]

(* The rows the page's query selects, and those the total counts.           *)
FitsNarrow(i) == query.narrow => row[i].in
Selected == {i \in There : FitsNarrow(i) /\ (query.search => row[i].hit)}
Totalled == {i \in There : FitsNarrow(i) /\ (query.search /\ query.countsIt => row[i].hit)}

ListingTypeOK ==
    /\ row \in [Rows -> Contents \cup {Absent, Deleted}]
    /\ query \in [search : BOOLEAN, countsIt : BOOLEAN, total : BOOLEAN, narrow : BOOLEAN,
                  unique : BOOLEAN, tie : BOOLEAN, newest : BOOLEAN]
    /\ shown \subseteq Rows /\ owed \subseteq There /\ total \in 0..Cardinality(Rows)
    /\ counts \in BOOLEAN /\ quiet \in BOOLEAN /\ moves \in 0..MaxMoves

ListingInit ==
    /\ query \in Questions
    /\ row \in [Rows -> Contents \cup {Absent}]
    /\ \E n \in Rows \cup {0} : There = {i \in Rows : i <= n}
    /\ page = 1 /\ counts = FALSE
    /\ shown = {} /\ total = 0 /\ owed = Selected
    /\ quiet = TRUE /\ moves = 0

(* apply_sort: by the column asked for, and rows that tie by id.            *)
Before(i, j) ==
    IF query.newest THEN row[i].at > row[j].at \/ (row[i].at = row[j].at /\ i > j)
                    ELSE row[i].at < row[j].at \/ (row[i].at = row[j].at /\ i < j)
BeforeInTime(i, j) == IF query.newest THEN row[i].at >= row[j].at ELSE row[i].at <= row[j].at

PrecedesInTime(i, j) ==
    IF query.unique THEN (IF query.newest THEN i > j ELSE i < j) ELSE BeforeInTime(i, j)

(* get_items and list_users order by the one column alone; the column "id"  *)
(* has no ties.                                                             *)
Precedes(i, j) ==
    CASE query.unique -> IF query.newest THEN i > j ELSE i < j
      [] ~query.unique /\ query.tie -> Before(i, j)
      [] OTHER -> BeforeInTime(i, j)

Sortings(S) == {s \in SetToSeqs(S) : \A m, n \in 1..Len(s) : m < n => Precedes(s[m], s[n])}

Window(s) == {s[n] : n \in {m \in 1..Len(s) : m > (page - 1) * PageSize /\ m <= page * PageSize}}

(* Any of the orders the database may choose; offset and limit.             *)
ReadPage ==
    /\ page # 0 /\ ~counts
    /\ \E s \in Sortings(Selected) :
         /\ shown' = shown \cup Window(s)
         /\ page' = IF Cardinality(Window(s)) = PageSize THEN page + 1 ELSE 0
    /\ counts' = query.total
    /\ UNCHANGED <<row, query, total, owed, quiet, moves>>

ReadTotal ==
    /\ counts
    /\ total' = Cardinality(Totalled)
    /\ counts' = FALSE
    /\ UNCHANGED <<row, query, page, shown, owed, quiet, moves>>

Reading == page # 0 \/ counts

(* A new row has the next id, but its time may be that of an older one: it  *)
(* is the time its transaction began.                                       *)
AddRow ==
    /\ Reading /\ Unadded # {}
    /\ \E new \in Contents : row' = [row EXCEPT ![Min(Unadded)] = new]
    /\ quiet' = FALSE
    /\ UNCHANGED <<query, page, counts, shown, total, owed, moves>>

(* A row is changed, decided or deleted by somebody else.                   *)
MoveRow(i) ==
    /\ Reading /\ i \in There /\ moves < MaxMoves
    /\ \E new \in (Contents \cup {Deleted}) \ {row[i]} : row' = [row EXCEPT ![i] = new]
    /\ quiet' = FALSE /\ moves' = moves + 1
    /\ owed' = owed \ {i}
    /\ UNCHANGED <<query, page, counts, shown, total>>

ListingNext == ReadPage \/ ReadTotal \/ AddRow \/ \E i \in Rows : MoveRow(i)

ListingSpec == ListingInit /\ [][ListingNext]_listingVars

-----------------------------------------------------------------------------
(* The order of the rows that tie is the same in every page's query.        *)
Settled == query.unique \/ query.tie

(* The types; and who reads all pages of a settled list, in any order, was  *)
(* shown every row that fitted when he began, but for one for each row that *)
(* others moved from under him: those they add hide none.  If nothing       *)
(* happened the total is the number of rows shown.                          *)
PagesMissNothing ==
    /\ ListingTypeOK
    /\ ~Reading /\ Settled =>
         /\ Cardinality(owed \ shown) <= moves
         /\ quiet /\ query.total /\ query.countsIt => total = Cardinality(shown)
=============================================================================
