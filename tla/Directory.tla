------------------------------ MODULE Directory ------------------------------
(***************************************************************************)
(* Accounts, roles, permissions and what a request with a token is let do   *)
(* (services/rbac.py, user_list.py, permission.py, auth.py,                 *)
(* dependencies/auth.py and their routes).  An operation whose checks the   *)
(* unique and foreign keys make again at its commit is one action; the      *)
(* others read first and write later, and another may commit in between.    *)
(***************************************************************************)
EXTENDS Integers, FiniteSets, FiniteSetsExt, Sequences, SequencesExt, Sessions

CONSTANTS Accounts,    \* ids of accounts, given out in their order
          Roles,       \* ids of roles, positive; 0 is no role
          Permissions, \* ids of permissions
          Usernames,
          RoleNames,
          DEFAULT_SINGLETON_ROLE_NAMES,
          Codes,       \* permission codes: the parts between their dots
          Needs,       \* what the routes require, likewise
          Admins       \* concurrent HTTP requests

ASSUME DirectoryAssumption ==
    /\ Accounts \subseteq Nat \ {0} /\ Roles \subseteq Nat \ {0} /\ Permissions \subseteq Nat \ {0}
    /\ {"none", "gone"} \cap Usernames = {} /\ "none" \notin RoleNames
    /\ Codes \subseteq Seq(STRING) \ {<<>>} /\ Needs \subseteq Seq(STRING)

VARIABLES
    user,       \* user[u]: the row of an account
    role,       \* role[r]
    held,       \* held[<<u, r>>]: the row of user_roles
    permission, \* permission[p]: the code of a permission
    granted,    \* the rows of role_permissions
    token,      \* the token somebody has, with its claims
    let,        \* the request that was let in last
    admin,      \* admin[a]: what the request of a has read, and will write
    hurried     \* requests overlap

directoryVars == <<user, role, held, permission, granted, token, let, admin, hurried>>

NoLogin == [name |-> "none", active |-> FALSE]
UserGone == [name |-> "gone", active |-> FALSE]
NoRole == [name |-> "none", single |-> FALSE]
NoCode == <<>>
NoToken == [name |-> "none", claims |-> {}]
Nobody == [who |-> 0, need |-> <<>>]
Unbusy == [op |-> "none", u |-> 0, r |-> 0, seen |-> NoLogin, row |-> NoLogin,
           off |-> {}, was |-> "no", old |-> {}, new |-> {}]

LoginRows == [name : Usernames, active : BOOLEAN]
UsersNow == {u \in Accounts : user[u].name \in Usernames}
RolesNow == {r \in Roles : role[r] # NoRole}
PermissionsNow == {p \in Permissions : permission[p] # NoCode}

DirectoryTypeOK ==
    /\ user \in [Accounts -> LoginRows \cup {NoLogin, UserGone}]
    /\ role \in [Roles -> [name : RoleNames, single : BOOLEAN] \cup {NoRole}]
    /\ held \in [Accounts \X Roles -> {"no", "active", "inactive"}]
    /\ permission \in [Permissions -> Codes \cup {NoCode}]
    /\ granted \subseteq Roles \X Permissions
    /\ token.name \in Usernames \cup {"none"} /\ token.claims \subseteq Codes

DirectoryInit ==
    /\ user = [u \in Accounts |-> NoLogin]
    /\ role = [r \in Roles |-> NoRole]
    /\ held = [ur \in Accounts \X Roles |-> "no"]
    /\ permission = [p \in Permissions |-> NoCode]
    /\ granted = {}
    /\ token = NoToken /\ let = Nobody
    /\ admin = [a \in Admins |-> Unbusy]
    /\ hurried \in BOOLEAN

access == <<permission, granted>>
people == <<user, role, held>>
visits == <<token, let>>

-----------------------------------------------------------------------------

Idle(a) == admin[a] = Unbusy /\ (hurried \/ \A b \in Admins : admin[b] = Unbusy)
Takes(a, job) ==
    /\ Idle(a)
    /\ admin' = [admin EXCEPT ![a] = job]
    /\ UNCHANGED <<people, access, visits, hurried>>
Answered(a) == admin' = [admin EXCEPT ![a] = Unbusy]

(* _role_is_singleton *)
IsSingleton(r) == role[r].single \/ role[r].name \in DEFAULT_SINGLETON_ROLE_NAMES

Holders(r) == {u \in Accounts : held[<<u, r>>] = "active"}

(* _assert_singleton_slot_available: a holder counts though his account is  *)
(* not active.                                                              *)
SlotOfActiveUser(r, u) == IsSingleton(r) => \A v \in Holders(r) \ {u} : ~user[v].active
SlotAvailable(r, u) == IsSingleton(r) => Holders(r) \subseteq {u}

(* assign_role_to_user, its checks, *)
MayHold(u, r) == r \in RolesNow /\ (held[<<u, r>>] = "active" \/ SlotAvailable(r, u))

(* and the row it leaves: one that was there is made active again; the key  *)
(* refuses a second one of the pair.                                        *)
RowStandsForPair(u, r, was) == r = 0 \/ was = "active" \/ (was = "no" <=> held[<<u, r>>] = "no")
RowStands(u, r, was) ==
    \/ r = 0 \/ was = "active"
    \/ r \in RolesNow /\ (was = "no" <=> held[<<u, r>>] = "no")
Holding(u, r, was, off) ==
    [ur \in Accounts \X Roles |->
        IF ur = <<u, r>> /\ was # "active" THEN "active"
        ELSE IF ur[1] = u /\ ur[2] \in off THEN "inactive" ELSE held[ur]]

Was(u, r) == IF r = 0 THEN "no" ELSE held[<<u, r>>]

BeginAssign(a, u, r) ==
    /\ u \in UsersNow /\ held[<<u, r>>] # "active" /\ MayHold(u, r)
    /\ Takes(a, [Unbusy EXCEPT !.op = "assign", !.u = u, !.r = r, !.was = Was(u, r)])

CommitAssign(a) ==
    LET job == admin[a] IN
    /\ UNCHANGED hurried
    /\ job.op = "assign"
    /\ held' = IF job.u \in UsersNow /\ RowStands(job.u, job.r, job.was)
               THEN Holding(job.u, job.r, job.was, {}) ELSE held
    /\ Answered(a)
    /\ UNCHANGED <<user, role, access, visits>>

NameFree(name, u) == \A v \in UsersNow \ {u} : user[v].name # name

(* create_user_admin *)
BeginCreateUser(a, name, r) ==
    /\ NameFree(name, 0)
    /\ r # 0 => r \in RolesNow /\ SlotAvailable(r, 0)
    /\ \E active \in BOOLEAN :
         Takes(a, [Unbusy EXCEPT !.op = "create", !.r = r, !.row = [name |-> name, active |-> active]])

CommitCreateUser(a) ==
    LET job == admin[a]
        u == Min({v \in Accounts : user[v] = NoLogin}) IN
    /\ UNCHANGED hurried
    /\ job.op = "create"
    /\ \E v \in Accounts : user[v] = NoLogin
    /\ IF NameFree(job.row.name, 0) /\ RowStands(u, job.r, "no")
       THEN user' = [user EXCEPT ![u] = job.row] /\ held' = Holding(u, job.r, "no", {})
       ELSE UNCHANGED <<user, held>>
    /\ Answered(a)
    /\ UNCHANGED <<role, access, visits>>

OthersActive(u, r) == {x \in Roles \ {r} : held[<<u, x>>] = "active"}

(* update_user_admin: a name, an active flag, a role or any of them; the    *)
(* role takes the place of those he has.                                    *)
BeginUpdateUser(a, u, name, r) ==
    /\ u \in UsersNow /\ NameFree(name, u)
    /\ r # 0 => MayHold(u, r)
    /\ \E active \in BOOLEAN :
         Takes(a, [Unbusy EXCEPT !.op = "update", !.u = u, !.r = r, !.seen = user[u],
                                 !.row = [name |-> name, active |-> active], !.was = Was(u, r),
                                 !.off = IF r = 0 THEN {} ELSE OthersActive(u, r)])

CommitUpdateUser(a) ==
    LET job == admin[a]
        u == job.u IN
    /\ UNCHANGED hurried
    /\ job.op = "update"
    /\ IF /\ u \in UsersNow /\ NameFree(job.row.name, u) /\ RowStands(u, job.r, job.was)
          /\ \A x \in job.off : held[<<u, x>>] # "no"
       THEN /\ user' = [user EXCEPT ![u].name = Kept(job.seen.name, job.row.name, @),
                                    ![u].active = Kept(job.seen.active, job.row.active, @)]
            /\ held' = Holding(u, job.r, job.was, job.off)
       ELSE UNCHANGED <<user, held>>
    /\ Answered(a)
    /\ UNCHANGED <<role, access, visits>>

(* delete_user_admin, of an account nothing refers to.                      *)
DeleteUser(a, u) ==
    /\ UNCHANGED hurried
    /\ Idle(a) /\ u \in UsersNow
    /\ user' = [user EXCEPT ![u] = UserGone]
    /\ held' = [ur \in Accounts \X Roles |-> IF ur[1] = u THEN "no" ELSE held[ur]]
    /\ UNCHANGED <<role, access, visits, admin>>

RevokeRole(a, u, r) ==
    /\ UNCHANGED hurried
    /\ Idle(a) /\ held[<<u, r>>] = "active"
    /\ held' = [held EXCEPT ![<<u, r>>] = "inactive"]
    /\ UNCHANGED <<user, role, access, visits, admin>>

-----------------------------------------------------------------------------
(* Roles.                                                                   *)

Named(name) == {r \in RolesNow : role[r].name = name}

(* create_role: one of that name is taken, and may be made a singleton.     *)
CreateRole(a, name, single) ==
    /\ UNCHANGED hurried
    /\ Idle(a)
    /\ IF Named(name) # {}
       THEN role' = [r \in Roles |-> IF r \in Named(name) /\ single
                                     THEN [role[r] EXCEPT !.single = TRUE] ELSE role[r]]
       ELSE /\ RolesNow # Roles
            /\ role' = [role EXCEPT ![Min(Roles \ RolesNow)] =
                          [name |-> name,
                           single |-> single \/ name \in DEFAULT_SINGLETON_ROLE_NAMES]]
    /\ UNCHANGED <<user, held, access, visits, admin>>

(* update_role: nobody asks how many hold it.                               *)
UpdateRole(a, r, name, single) ==
    /\ UNCHANGED hurried
    /\ Idle(a) /\ r \in RolesNow /\ Named(name) \subseteq {r}
    /\ role' = [role EXCEPT ![r] = [name |-> name, single |-> single]]
    /\ UNCHANGED <<user, held, access, visits, admin>>

(* delete_role, of a role that no step, rule or other row refers to.        *)
DeleteRole(a, r) ==
    /\ UNCHANGED hurried
    /\ Idle(a) /\ r \in RolesNow
    /\ role' = [role EXCEPT ![r] = NoRole]
    /\ held' = [ur \in Accounts \X Roles |-> IF ur[2] = r THEN "no" ELSE held[ur]]
    /\ granted' = {g \in granted : g[1] # r}
    /\ UNCHANGED <<user, permission, visits, admin>>

-----------------------------------------------------------------------------
(* Permissions.  Code and name go together.                                 *)

CodeFree(code, p) == \A q \in PermissionsNow \ {p} : permission[q] # code

CreatePermission(a, code) ==
    /\ UNCHANGED hurried
    /\ Idle(a) /\ CodeFree(code, 0) /\ PermissionsNow # Permissions
    /\ permission' = [permission EXCEPT ![Min(Permissions \ PermissionsNow)] = code]
    /\ UNCHANGED <<people, granted, visits, admin>>

UpdatePermission(a, p, code) ==
    /\ UNCHANGED hurried
    /\ Idle(a) /\ p \in PermissionsNow /\ CodeFree(code, p)
    /\ permission' = [permission EXCEPT ![p] = code]
    /\ UNCHANGED <<people, granted, visits, admin>>

DeletePermission(a, p) ==
    /\ UNCHANGED hurried
    /\ Idle(a) /\ p \in PermissionsNow
    /\ permission' = [permission EXCEPT ![p] = NoCode]
    /\ granted' = {g \in granted : g[2] # p}
    /\ UNCHANGED <<people, visits, admin>>

AssignPermission(a, r, p) ==
    /\ UNCHANGED hurried
    /\ Idle(a) /\ r \in RolesNow /\ p \in PermissionsNow
    /\ granted' = granted \cup {<<r, p>>}
    /\ UNCHANGED <<people, permission, visits, admin>>

UnassignPermission(a, r, p) ==
    /\ UNCHANGED hurried
    /\ Idle(a) /\ <<r, p>> \in granted
    /\ granted' = granted \ {<<r, p>>}
    /\ UNCHANGED <<people, permission, visits, admin>>

(* replace_role_permissions: deletes the rows it finds, and adds the new    *)
(* ones; another request's new rows it does not find.                       *)
BeginReplace(a, r, new) ==
    /\ r \in RolesNow /\ new \subseteq PermissionsNow
    /\ Takes(a, [Unbusy EXCEPT !.op = "replace", !.r = r, !.new = {<<r, p>> : p \in new},
                               !.old = {g \in granted : g[1] = r}])

CommitReplace(a) ==
    LET job == admin[a]
        left == granted \ job.old IN
    /\ UNCHANGED hurried
    /\ job.op = "replace"
    /\ granted' = IF /\ job.new \subseteq RolesNow \X PermissionsNow
                     /\ job.new \cap left = {}
                  THEN left \cup job.new ELSE granted
    /\ Answered(a)
    /\ UNCHANGED <<people, permission, visits>>

-----------------------------------------------------------------------------
(* Tokens.                                                                  *)

(* get_user_permissions_db *)
PermissionsOf(u) ==
    {permission[g[2]] : g \in {h \in granted : held[<<u, h[1]>>] = "active"}}

(* permission_matches: "*", the code itself, or "x.*" for what begins so.   *)
PermissionMatches(have, need) ==
    \/ <<"*">> \in have \/ need \in have
    \/ \E code \in have : Len(code) > 1 /\ Last(code) = "*" /\ IsPrefix(Front(code), need)

(* authenticate_user, and a token with his roles' permissions in it.        *)
Login(u) ==
    /\ UNCHANGED hurried
    /\ u \in UsersNow /\ user[u].active
    /\ token' = [name |-> user[u].name, claims |-> PermissionsOf(u)]
    /\ UNCHANGED <<people, access, let, admin>>

(* get_current_user: whoever has the token's name.                          *)
Bearer(t) == {u \in UsersNow : user[u].name = t.name}

LetInByClaims(u, t, need) == user[u].active /\ PermissionMatches(t.claims, need)
LetIn(u, t, need) == user[u].active /\ PermissionMatches(PermissionsOf(u), need)

(* A request that carries the token, to a route with require_permission or  *)
(* require_any_permission.                                                  *)
Request(need) ==
    /\ UNCHANGED hurried
    /\ \E u \in Bearer(token) : LetIn(u, token, need) /\ let' = [who |-> u, need |-> need]
    /\ UNCHANGED <<people, access, token, admin>>

DirectoryNext ==
    \/ \E a \in Admins, u \in Accounts, r \in Roles : BeginAssign(a, u, r) \/ RevokeRole(a, u, r)
    \/ \E a \in Admins : CommitAssign(a) \/ CommitCreateUser(a) \/ CommitUpdateUser(a) \/ CommitReplace(a)
    \/ \E a \in Admins, n \in Usernames, r \in Roles \cup {0} :
         BeginCreateUser(a, n, r) \/ \E u \in Accounts : BeginUpdateUser(a, u, n, r)
    \/ \E a \in Admins, u \in Accounts : DeleteUser(a, u)
    \/ \E a \in Admins, n \in RoleNames, single \in BOOLEAN :
         CreateRole(a, n, single) \/ \E r \in Roles : UpdateRole(a, r, n, single)
    \/ \E a \in Admins, r \in Roles :
         \/ DeleteRole(a, r)
         \/ \E p \in Permissions : AssignPermission(a, r, p) \/ UnassignPermission(a, r, p)
         \/ \E new \in SUBSET Permissions : BeginReplace(a, r, new)
    \/ \E a \in Admins, c \in Codes :
         CreatePermission(a, c) \/ \E p \in Permissions : UpdatePermission(a, p, c)
    \/ \E a \in Admins, p \in Permissions : DeletePermission(a, p)
    \/ \E u \in Accounts : Login(u)
    \/ \E need \in Needs : Request(need)

DirectorySpec == DirectoryInit /\ [][DirectoryNext]_directoryVars

-----------------------------------------------------------------------------
(* The types; and, however requests overlap, no name or code is given twice *)
(* and no row of user_roles or role_permissions refers to what is gone.     *)
DirectoryIsSound ==
    /\ DirectoryTypeOK
    /\ \A u, v \in UsersNow : user[u].name = user[v].name => u = v
    /\ \A r, s \in RolesNow : role[r].name = role[s].name => r = s
    /\ \A p, q \in PermissionsNow : permission[p] = permission[q] => p = q
    /\ \A u \in Accounts, r \in Roles : held[<<u, r>>] # "no" => u \in UsersNow /\ r \in RolesNow
    /\ granted \subseteq RolesNow \X PermissionsNow

(* One request at a time, who gets a singleton role, as its new holder or   *)
(* again, on any of the three ways, is its only holder.  (A role that many  *)
(* hold may become a singleton.)                                            *)
SlotTaken ==
    [][~hurried => \A r \in Roles : IsSingleton(r) /\ Holders(r)' \ Holders(r) # {} =>
                       Cardinality(Holders(r)') = 1]_directoryVars

Covers(code, need) ==
    \/ code = need
    \/ \E n \in 0..Len(need) : code = SubSeq(need, 1, n) \o <<"*">>

(* What a request is let do follows the rows there are, not the token: its  *)
(* account is active and has an active role with a permission that covers   *)
(* the need, though others were true when the token was made.               *)
Entitled(u, need) ==
    /\ user[u].active
    /\ \E r \in Roles, p \in Permissions :
         held[<<u, r>>] = "active" /\ <<r, p>> \in granted /\ Covers(permission[p], need)
AccessFollowsRows == [][let' # let => Entitled(let'.who, let'.need)]_directoryVars

(* Both: who gets a role and what it lets him do are by the rows there are. *)
RolesAreHeld == SlotTaken /\ AccessFollowsRows
=============================================================================
