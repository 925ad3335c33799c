---------------------------- MODULE Organization ----------------------------
(***************************************************************************)
(* Who leads whom: departments, their heads, and the managers of employees  *)
(* (services/department.py, org.py, org_hierarchy.py, the fields of         *)
(* user_list.py, and their routes).  The walk that refuses a loop among the *)
(* departments is made on what a request reads, before it writes.           *)
(***************************************************************************)
EXTENDS Integers, FiniteSets, FiniteSetsExt, Sequences, Sessions

CONSTANTS Employees,    \* ids, positive; 0 is nobody
          Departments,  \* ids, positive; 0 is none
          Level,        \* managers get_manager_chain lists at most
          Officers      \* concurrent HTTP requests

ASSUME OrganizationAssumption ==
    /\ Employees \subseteq Nat \ {0} /\ IsFiniteSet(Employees)
    /\ Departments \subseteq Nat \ {0} /\ IsFiniteSet(Departments)
    /\ Level \in Nat

VARIABLES
    employee,    \* employee[u]: manager, department and is_active
    department,  \* department[d]: parent and head
    officer,     \* officer[o]: the change of a department that o is about to write
    harried      \* requests overlap

organizationVars == <<employee, department, officer, harried>>

NoEmployee == [manager |-> -1, dept |-> 0, active |-> FALSE]
NoDepartment == [parent |-> -1, head |-> 0]
OffDuty == [d |-> 0, seen |-> NoDepartment, row |-> NoDepartment]

Staff == {u \in Employees : employee[u] # NoEmployee}
DepartmentsNow == {d \in Departments : department[d] # NoDepartment}

OrganizationTypeOK ==
    /\ employee \in [Employees -> [manager : Employees \cup {0, -1}, dept : Departments \cup {0},
                                  active : BOOLEAN]]
    /\ department \in [Departments -> [parent : Departments \cup {0, -1}, head : Employees \cup {0}]]
    /\ \A o \in Officers : officer[o].d \in Departments \cup {0}

OrganizationInit ==
    /\ employee = [u \in Employees |-> NoEmployee]
    /\ department = [d \in Departments |-> NoDepartment]
    /\ officer = [o \in Officers |-> OffDuty]
    /\ harried \in BOOLEAN

-----------------------------------------------------------------------------

Ready(o) == officer[o] = OffDuty /\ (harried \/ \A p \in Officers : officer[p] = OffDuty)

(* create_user_admin and update_user_admin, the fields that place somebody  *)
(* and is_active, which neither asks about the manager: the foreign keys    *)
(* ask again whether manager and department exist.                          *)
Hire(o, manager, d, active) ==
    /\ UNCHANGED harried
    /\ Ready(o) /\ manager \in Staff \cup {0} /\ d \in DepartmentsNow \cup {0}
    /\ Staff # Employees
    /\ employee' = [employee EXCEPT ![Min(Employees \ Staff)] =
                                         [manager |-> manager, dept |-> d, active |-> active]]
    /\ UNCHANGED <<department, officer>>

Place(o, u, manager, d, active) ==
    /\ UNCHANGED harried
    /\ Ready(o) /\ u \in Staff /\ manager # u
    /\ manager \in Staff \cup {0} /\ d \in DepartmentsNow \cup {0}
    /\ employee' = [employee EXCEPT ![u] = [manager |-> manager, dept |-> d, active |-> active]]
    /\ UNCHANGED <<department, officer>>

LedBy(u) == {v \in Staff : employee[v].manager = u}
HeadedBy(u) == {d \in DepartmentsNow : department[d].head = u}

(* delete_user_admin: the foreign keys keep a manager and a head.           *)
DismissAnybody(o, u) == Ready(o) /\ u \in Staff
Dismissable(o, u) == Ready(o) /\ u \in Staff /\ LedBy(u) = {} /\ HeadedBy(u) = {}
Dismiss(o, u) ==
    /\ UNCHANGED harried
    /\ Dismissable(o, u)
    /\ employee' = [employee EXCEPT ![u] = NoEmployee]
    /\ UNCHANGED <<department, officer>>

-----------------------------------------------------------------------------
(* Departments.                                                             *)

(* Those met on the way up from p, p included.                              *)
Over(p) ==
    LET up[n \in 0..Cardinality(Departments)] ==
            IF n = 0 THEN {p} \ {0}
            ELSE up[n - 1] \cup ({department[d].parent : d \in up[n - 1]} \ {0})
    IN up[Cardinality(Departments)]
Topped(p) == p = 0 \/ \E d \in Over(p) : department[d].parent = 0

(* _validate_parent of a department that exists.                            *)
ParentIsOther(d, p) == p = 0 \/ (p \in DepartmentsNow /\ p # d)
ParentIsValid(d, p) == p = 0 \/ (p \in DepartmentsNow /\ d \notin Over(p) /\ Topped(p))

CreateDepartment(o, p, head) ==
    /\ UNCHANGED harried
    /\ Ready(o) /\ p \in DepartmentsNow \cup {0} /\ head \in Staff \cup {0}
    /\ DepartmentsNow # Departments
    /\ department' = [department EXCEPT ![Min(Departments \ DepartmentsNow)] = [parent |-> p, head |-> head]]
    /\ UNCHANGED <<employee, officer>>

(* update_department: a parent is changed, but never taken away.            *)
BeginUpdateDepartment(o, d, p, head) ==
    /\ UNCHANGED harried
    /\ Ready(o) /\ d \in DepartmentsNow
    /\ p # department[d].parent => p # 0 /\ ParentIsValid(d, p)
    /\ head \in Staff \cup {0}
    /\ officer' = [officer EXCEPT ![o] = [d |-> d, seen |-> department[d],
                                          row |-> [parent |-> p, head |-> head]]]
    /\ UNCHANGED <<employee, department>>

CommitUpdateDepartment(o) ==
    LET d == officer[o].d
        seen == officer[o].seen
        row == officer[o].row IN
    /\ UNCHANGED harried
    /\ d # 0
    /\ department' = IF d \in DepartmentsNow /\ row.parent \in DepartmentsNow \cup {0} /\ row.head \in Staff \cup {0}
                     THEN [department EXCEPT ![d].parent = Kept(seen.parent, row.parent, @),
                                             ![d].head = Kept(seen.head, row.head, @)]
                     ELSE department
    /\ officer' = [officer EXCEPT ![o] = OffDuty]
    /\ UNCHANGED employee

DeleteDepartment(o, d) ==
    /\ UNCHANGED harried
    /\ Ready(o) /\ d \in DepartmentsNow
    /\ \A c \in DepartmentsNow : department[c].parent # d
    /\ \A u \in Staff : employee[u].dept # d
    /\ department' = [department EXCEPT ![d] = NoDepartment]
    /\ UNCHANGED <<employee, officer>>

OrganizationNext ==
    \E o \in Officers :
        \/ \E m \in Employees \cup {0}, d \in Departments \cup {0}, active \in BOOLEAN :
             Hire(o, m, d, active) \/ \E u \in Employees : Place(o, u, m, d, active)
        \/ \E u \in Employees : Dismiss(o, u)
        \/ \E p \in Departments \cup {0}, h \in Employees \cup {0} :
             CreateDepartment(o, p, h) \/ \E d \in Departments : BeginUpdateDepartment(o, d, p, h)
        \/ CommitUpdateDepartment(o)
        \/ \E d \in Departments : DeleteDepartment(o, d)

OrganizationSpec == OrganizationInit /\ [][OrganizationNext]_organizationVars

-----------------------------------------------------------------------------
(* What is read.                                                            *)

(* get_manager_chain: up the managers, Level of them at most.               *)
ManagerChain(u) ==
    LET up[n \in 0..Level] ==
            IF n = 0 THEN <<>>
            ELSE LET below == IF up[n - 1] = <<>> THEN u ELSE up[n - 1][Len(up[n - 1])]
                     m == employee[below].manager
                 IN IF m = 0 THEN up[n - 1] ELSE Append(up[n - 1], m)
    IN up[Level]

HeadOver(u) == IF employee[u].dept = 0 THEN 0 ELSE department[employee[u].dept].head

(* get_user_org_position: everybody it names.                               *)
Position(u) ==
    {employee[u].manager, HeadOver(u)} \cup {ManagerChain(u)[n] : n \in 1..Len(ManagerChain(u))}

(* collect_team_member_user_ids: those led by the viewer through others,    *)
(* where only the active are seen, so that the walk does not go on below    *)
(* one who is not, and the members of the departments he heads and of those *)
(* below them, active or not.  Both walks stop at what they have met.       *)
AnyLedBy(u) == LedBy(u)
ActiveLedBy(u) == {v \in LedBy(u) : employee[v].active}
LedThrough(u) ==
    LET down[n \in 0..Cardinality(Employees)] ==
            IF n = 0 THEN ActiveLedBy(u)
            ELSE LET met == down[n - 1] IN met \cup UNION {ActiveLedBy(v) : v \in met \ {u}}
    IN down[Cardinality(Employees)]
BelowNext(d) == {d} \cup {c \in DepartmentsNow : department[c].parent = d}
Below(d) ==
    LET down[n \in 0..Cardinality(Departments)] ==
            IF n = 0 THEN {d}
            ELSE LET met == down[n - 1] IN met \cup {c \in DepartmentsNow : department[c].parent \in met}
    IN down[Cardinality(Departments)]
Team(u) ==
    (LedThrough(u) \cup {v \in Staff : \E d \in HeadedBy(u) : employee[v].dept \in Below(d)}) \ {u}

(* build_department_tree: the trees below the departments without a parent. *)
InTree == {d \in DepartmentsNow : Topped(d)}

(* The types; and, however requests overlap, nobody is his own manager, and *)
(* managers, heads and parents, and so a chain of managers or a branch, are *)
(* there.                                                                   *)
PlacesAreFilled ==
    /\ OrganizationTypeOK
    /\ \A u \in Staff : /\ employee[u].manager # u
                        /\ employee[u].dept \in DepartmentsNow \cup {0}
                        /\ Position(u) \subseteq Staff \cup {0}
    /\ \A d \in DepartmentsNow : /\ department[d].parent \in DepartmentsNow \cup {0}
                                 /\ department[d].head \in Staff \cup {0}

(* One request at a time, every department is in the tree that is shown.    *)
TreeIsShown == ~harried => InTree = DepartmentsNow

(* Both: places are filled by those that are there, and seen by all.        *)
OrganizationIsSound == PlacesAreFilled /\ TreeIsShown

AllActive(S) == \A v \in S : employee[v].active

(* The two ways to ask who is above whom agree, loops or not: the team of   *)
(* somebody are those who have him as the head of their department or of    *)
(* one it belongs to, or in their chain of managers, when they and all in   *)
(* between are active; and nobody else, but active ones whose chain of      *)
(* managers is as long as it is listed.  Who was deactivated, and whoever   *)
(* is led through him, has his managers above him and is in their team no   *)
(* longer.                                                                  *)
TeamIsBelow ==
    \A u \in Staff : \A v \in Staff \ {u} :
        LET chain == ManagerChain(v)
            below == \/ \E n \in 1..Len(chain) :
                          chain[n] = u /\ AllActive({v} \cup {chain[k] : k \in 1..(n - 1)})
                     \/ \E d \in Over(employee[v].dept) : department[d].head = u
        IN /\ below => v \in Team(u)
           /\ v \in Team(u) => below \/ (employee[v].active /\ Len(chain) = Level)
=============================================================================
