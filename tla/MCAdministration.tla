-------------------------- MODULE MCAdministration --------------------------
(* Accounts and roles, access, departments, definitions and lists, which    *)
(* are administered apart.  Each initial state has one of them.             *)
EXTENDS Directory, Organization, WorkflowDefinitions, Listing, TLC

VARIABLE part

all == <<part, directoryVars, organizationVars, definitionsVars, listingVars>>

MCCodes == {<<"*">>, <<"item", "*">>, <<"item", "read">>}
MCNeeds == {<<"item", "read">>, <<"items", "read">>}
NoOrder(aliases, does) == [at |-> does, aliases |-> aliases, strategy |-> "role_pool", fixed |-> 0, does |-> does]
MCFolded == [w \in Names \cup Labels |-> IF w = "CEO" THEN "ceo" ELSE w]
FirstNames == <<"ceo", "clerk">>
MCDefaultSteps == <<NoOrder(<<"ceo", "chief">>, 1)>>

IdleList ==
    /\ row = [i \in Rows |-> Absent] /\ query = CHOOSE q \in Questions : TRUE
    /\ page = 0 /\ counts = FALSE /\ shown = {} /\ total = 0 /\ owed = {}
    /\ quiet = TRUE /\ moves = 0

(* Roles that were given names, and, for the words, one who holds them all. *)
TitlesGiven ==
    /\ title = [r \in RoleIds |-> [name |-> FirstNames[r], label |-> FirstNames[r]]]
    /\ holder = (IF part = "words" THEN {Min(Persons)} \X RoleIds ELSE {})
    /\ working = Persons /\ lead = [manager |-> 0, head |-> 0]
    /\ NothingDefined

MCInit ==
    /\ part \in {"people", "access", "departments", "staff", "words", "lists"}
    /\ DirectoryInit /\ (part \notin {"people", "access"} => ~hurried)
    /\ OrganizationInit /\ (part # "departments" => ~harried)
    /\ IF part \in {"staff", "words"} THEN TitlesGiven ELSE DefinitionsInit
    /\ IF part = "lists" THEN ListingInit /\ ~(query.search /\ query.narrow) ELSE IdleList

(* Bounds: where requests overlap, one name for roles; while permissions    *)
(* are looked at, one account and one plain role, no second permission      *)
(* beside that of everything, and only permissions are granted by requests  *)
(* that overlap; departments while there are two employees at most, and one *)
(* inactive employee while there are three, one department at most and no   *)
(* requests that overlap; definitions whose steps differ in who is asked,   *)
(* while all roles have their names and one person only heads a department, *)
(* or definitions of one step by all words, while roles are named, and      *)
(* labelled by another word or by one of the names; lists searched or       *)
(* narrowed, not both.                                                      *)
InPeople == part = "people" /\ UNCHANGED <<part, organizationVars, definitionsVars, listingVars>>
InAccess == part = "access" /\ UNCHANGED <<part, organizationVars, definitionsVars, listingVars>>
InDepartments == part = "departments" /\ UNCHANGED <<part, directoryVars, definitionsVars, listingVars>>
InStaff == part = "staff" /\ UNCHANGED <<part, directoryVars, organizationVars, listingVars>>
InWords == part = "words" /\ UNCHANGED <<part, directoryVars, organizationVars, listingVars>>
InLists == part = "lists" /\ UNCHANGED <<part, directoryVars, organizationVars, definitionsVars>>

NamesToGive == IF hurried THEN DEFAULT_SINGLETON_ROLE_NAMES ELSE RoleNames
NewNames == IF hurried THEN {"x"} ELSE Usernames
Wards == {0, 1}
Inactive == {u \in Staff : ~employee[u].active}
FewInactive == Inactive' = {} \/ (Cardinality(Inactive') = 1 /\ 4 \notin Staff' /\ DepartmentsNow' \subseteq {1} /\ ~harried)
FewOfBoth == Staff' \subseteq {1, 2} \/ DepartmentsNow' = {}
FewCodes == Cardinality(PermissionsNow') <= 1 \/ \A p \in PermissionsNow' : permission'[p] # <<"*">>
First == Min(Accounts)
Alone == \A u \in Accounts \ {First} : user'[u] = NoLogin
Plain == Min(Roles)

NewLabels == {"ceo"} \cup Labels
RawSteps ==
    [at : 1..MaxSteps, aliases : {<<w>> : w \in Words} \cup {<<w, v>> : w, v \in Names},
     strategy : Strategies, fixed : Persons \cup {0}, does : 1..MaxSteps]
StaffDrafts ==
    LET asks(k) == {s \in RawSteps : /\ s.at = k /\ s.does = k
                                     /\ s.aliases = (IF k = 1 THEN <<"ceo", "clerk">> ELSE <<"ceo">>)
                                     /\ s.strategy = "fixed_user" <=> s.fixed # 0}
    IN {<<s>> : s \in asks(1)} \cup {<<s, t>> : s \in asks(1), t \in {u \in asks(2) : u.strategy # "department_head"}}
WordDrafts == {<<s>> : s \in {t \in RawSteps : t.strategy = "role_pool" /\ t.fixed = 0 /\ t.at = 1 /\ t.does = 1}}

MCNext ==
    \/ InPeople /\ \E a \in Admins, u \in Accounts, r \in Roles : BeginAssign(a, u, r)
    \/ InPeople /\ \E a \in Admins : CommitAssign(a)
    \/ InPeople /\ \E a \in Admins, n \in Usernames, r \in Roles \cup {0} : BeginCreateUser(a, n, r)
    \/ InPeople /\ \E a \in Admins : CommitCreateUser(a)
    \/ InPeople /\ \E a \in Admins, u \in Accounts, n \in NewNames, r \in Roles \cup {0} :
                      BeginUpdateUser(a, u, n, r)
    \/ InPeople /\ \E a \in Admins : CommitUpdateUser(a)
    \/ InPeople /\ \E a \in Admins, u \in Accounts : DeleteUser(a, u)
    \/ InPeople /\ \E a \in Admins, u \in Accounts, r \in Roles : RevokeRole(a, u, r)
    \/ InPeople /\ \E a \in Admins, n \in NamesToGive, s \in BOOLEAN : CreateRole(a, n, s)
    \/ InPeople /\ \E a \in Admins, r \in Roles, n \in NamesToGive, s \in BOOLEAN : UpdateRole(a, r, n, s)
    \/ InPeople /\ \E a \in Admins, r \in Roles : DeleteRole(a, r)
    \/ InAccess /\ \E a \in Admins, c \in Codes : CreatePermission(a, c) /\ FewCodes
    \/ InAccess /\ \E a \in Admins, p \in Permissions, c \in Codes : UpdatePermission(a, p, c) /\ FewCodes
    \/ InAccess /\ \E a \in Admins, p \in Permissions : DeletePermission(a, p)
    \/ InAccess /\ \E a \in Admins, p \in Permissions : AssignPermission(a, Plain, p)
    \/ InAccess /\ \E a \in Admins, p \in Permissions : UnassignPermission(a, Plain, p)
    \/ InAccess /\ \E a \in Admins, new \in SUBSET Permissions : BeginReplace(a, Plain, new)
    \/ InAccess /\ \E a \in Admins : CommitReplace(a)
    \/ InAccess /\ \E a \in Admins : Named("clerk") = {} /\ CreateRole(a, "clerk", FALSE)
    \/ InAccess /\ \E a \in Admins : DeleteRole(a, Plain)
    \/ InAccess /\ ~hurried /\ \E a \in Admins, n \in Usernames : BeginCreateUser(a, n, 0)
    \/ InAccess /\ \E a \in Admins : CommitCreateUser(a) /\ Alone
    \/ InAccess /\ ~hurried /\ \E a \in Admins, n \in Usernames : BeginUpdateUser(a, First, n, 0)
    \/ InAccess /\ \E a \in Admins : CommitUpdateUser(a)
    \/ InAccess /\ ~hurried /\ \E a \in Admins : BeginAssign(a, First, Plain)
    \/ InAccess /\ \E a \in Admins : CommitAssign(a)
    \/ InAccess /\ \E a \in Admins : RevokeRole(a, First, Plain)
    \/ InAccess /\ \E a \in Admins : DeleteUser(a, First)
    \/ InAccess /\ ~hurried /\ Login(First)
    \/ InAccess /\ \E need \in Needs : Request(need)
    \/ InDepartments /\ \E o \in Officers, m \in Employees \cup {0}, d \in Wards :
                           Hire(o, m, d, TRUE) /\ FewOfBoth /\ FewInactive
    \/ InDepartments /\ \E o \in Officers, u \in Employees, m \in Employees \cup {0}, d \in Wards,
                             active \in BOOLEAN : Place(o, u, m, d, active) /\ FewInactive
    \/ InDepartments /\ \E o \in Officers, u \in Employees : Dismiss(o, u)
    \/ InDepartments /\ (harried => 2 \notin DepartmentsNow) /\
         \E o \in Officers, p \in Departments \cup {0}, h \in {0, 1} :
                           CreateDepartment(o, p, h) /\ FewOfBoth /\ FewInactive
    \/ InDepartments /\ \E o \in Officers, d \in Departments, p \in Departments \cup {0}, h \in {0, 1} :
                           BeginUpdateDepartment(o, d, p, h)
    \/ InDepartments /\ \E o \in Officers : CommitUpdateDepartment(o)
    \/ InDepartments /\ \E o \in Officers, d \in Departments : DeleteDepartment(o, d)
    \/ InStaff /\ chain = {} /\ \E raw \in StaffDrafts, f \in Dictionaries : UpsertDefinition(raw, f)
    \/ InStaff /\ DeleteDefinition
    \/ InStaff /\ chain = {} /\ Restaff /\ lead'.head # 2
    \/ InStaff /\ \E f \in Dictionaries, p \in Persons \cup {0} : StartChain(f, p)
    \/ InStaff /\ EndChain
    \/ InWords /\ \E raw \in WordDrafts, f \in Dictionaries : UpsertDefinition(raw, f)
    \/ InWords /\ DeleteDefinition
    \/ InWords /\ \E r \in RoleIds, n \in Names, w \in NewLabels : NameRole(r, n, w)
    \/ InWords /\ \E r \in RoleIds : RemoveRole(r)
    \/ InWords /\ \E f \in Dictionaries : StartChain(f, 0)
    \/ InWords /\ EndChain
    \/ InLists /\ ReadPage
    \/ InLists /\ ReadTotal
    \/ InLists /\ AddRow
    \/ InLists /\ \E i \in Rows : MoveRow(i)
MCSpec == MCInit /\ [][MCNext]_all

Alike == Permutations(Admins)
=============================================================================
