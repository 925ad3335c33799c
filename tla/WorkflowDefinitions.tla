------------------------- MODULE WorkflowDefinitions -------------------------
(***************************************************************************)
(* The definition of one kind of chain, and what is read of it              *)
(* (services/workflow_definition_service.py, workflow_step_config.py,       *)
(* workflow_start.py, assignment.py).  An administrator edits definitions,  *)
(* roles and staff while chains run.  A definition names roles by words; a  *)
(* running step keeps its number, by which its configuration is looked up.  *)
(***************************************************************************)
EXTENDS Integers, FiniteSets, FiniteSetsExt, Sequences, SequencesExt

CONSTANTS Persons,    \* positive; 0 is nobody
          RoleIds,    \* positive; 0 is no role
          Names,      \* stable names of roles
          Labels,     \* other words for roles, as the forms show them
          Folded,     \* what a word reads: stripped, in lower case; never blank
          MaxSteps,   \* bound: steps of a definition
          DEFAULT_ROLE_STEPS

Words == Names \cup Labels
Strategies == {"role_pool", "fixed_user", "submitter_manager", "department_head"}

(* A step as it is stored: its number, the words for its roles, how its     *)
(* assignee is found, the person named, and what the step is there for.     *)
StepRows == [at : Nat, aliases : Seq(Words), strategy : Strategies, fixed : Persons \cup {0}, does : Nat]

(* Any word may be a label, the name of another role too; and names that    *)
(* differ may read the same.                                                *)
ASSUME DefinitionsAssumption ==
    /\ Persons \subseteq Nat \ {0} /\ RoleIds \subseteq Nat \ {0}
    /\ "none" \notin Names
    /\ DOMAIN Folded = Words
    /\ MaxSteps \in Nat
    /\ DEFAULT_ROLE_STEPS \in Seq(StepRows) \ {<<>>}

VARIABLES
    title,    \* title[r]: name and label of a role
    holder,   \* pairs of a person and a role he holds
    working,  \* persons whose accounts are active
    lead,     \* the submitter's manager, and the head of his department
    saved,    \* the stored definition, empty when there is none
    meant,    \* meant[k]: the role the administrator chose for step k, while
              \* nobody renamed or deleted it
    chain,    \* the steps of the running instance
    edited    \* the definition was edited since the instance started

definitionsVars == <<title, holder, working, lead, saved, meant, chain, edited>>
staffing == <<holder, working, lead>>

Untitled == [name |-> "none", label |-> "none"]
Titled == {r \in RoleIds : title[r] # Untitled}

DefinitionsTypeOK ==
    /\ title \in [RoleIds -> [name : Names, label : Words] \cup {Untitled}]
    /\ holder \subseteq Persons \X RoleIds /\ working \subseteq Persons
    /\ lead \in [manager : Persons \cup {0}, head : Persons \cup {0}]
    /\ saved \in Seq(StepRows) /\ Len(saved) <= MaxSteps
    /\ meant \in Seq(RoleIds \cup {0}) /\ Len(meant) = Len(saved)
    /\ \A s \in chain : s.role \in RoleIds /\ s.who \in Persons

NothingDefined ==
    /\ saved = <<>> /\ meant = <<>>
    /\ chain = {} /\ edited = FALSE
DefinitionsInit ==
    /\ title = [r \in RoleIds |-> Untitled]
    /\ holder = {} /\ working = Persons
    /\ lead = [manager |-> 0, head |-> 0]
    /\ NothingDefined

-----------------------------------------------------------------------------
(* Words for roles.                                                         *)

(* _build_role_id_by_alias: by what words read; of two roles whose names or *)
(* labels read the same, the one that the database returns last.            *)
Readings == {Folded[w] : w \in Words}
RolesRead(x) == {r \in Titled : x \in {Folded[title[r].name], Folded[title[r].label]}}
Dictionaries ==
    LET called == [x \in Readings |-> IF RolesRead(x) = {} THEN {0} ELSE RolesRead(x)]
    IN {f \in [Readings -> UNION {called[x] : x \in Readings}] : \A x \in Readings : f[x] \in called[x]}

(* resolve_role_ids_for_step *)
RoleIdsFor(aliases, f) ==
    LET ids[n \in 0..Len(aliases)] ==
            IF n = 0 THEN <<>>
            ELSE LET r == f[Folded[aliases[n]]]
                 IN IF r \in {0} \cup ToSet(ids[n - 1]) THEN ids[n - 1] ELSE Append(ids[n - 1], r)
    IN ids[Len(aliases)]

CanonicalAsGiven(aliases, f) == aliases

(* canonicalize_role_aliases: the names of the roles meant.                 *)
Canonical(aliases, f) == [k \in DOMAIN RoleIdsFor(aliases, f) |-> title[RoleIdsFor(aliases, f)[k]].name]

(* normalize_steps_config: the one order by the numbers given.              *)
Normalized(raw) ==
    LET earlier(j, k) == raw[j].at < raw[k].at \/ (raw[j].at = raw[k].at /\ j < k)
        sorted == {s \in [DOMAIN raw -> DOMAIN raw] : \A j, k \in DOMAIN raw : j < k => earlier(s[j], s[k])}
    IN {[k \in DOMAIN raw |-> raw[s[k]]] : s \in sorted}

(* get_steps_config and get_step_config_at_order *)
StepsConfig == IF saved = <<>> THEN DEFAULT_ROLE_STEPS ELSE saved
StepConfigFromZero(k) == IF k + 1 \in DOMAIN StepsConfig THEN {StepsConfig[k + 1]} ELSE {}
StepConfigAtOrder(k) == IF k \in DOMAIN StepsConfig THEN {StepsConfig[k]} ELSE {}

-----------------------------------------------------------------------------
(* Who is asked.                                                            *)

(* should_skip_missing_manager_step *)
Skipped(step) == step.strategy = "submitter_manager" /\ lead.manager \notin working

Holds(p, ids) == \E k \in DOMAIN ids : <<p, ids[k]>> \in holder

(* resolve_assignee_for_role: who is asked for by name, if he has the role, *)
(* or one that assign_user chooses.                                         *)
Offered(r, preferred) ==
    IF <<preferred, r>> \in holder THEN {preferred} ELSE {p \in working : <<p, r>> \in holder}

(* The manager or the head of the department, whether he has a role or not. *)
ContextUser(step) ==
    {IF step.strategy = "submitter_manager" THEN lead.manager ELSE lead.head} \cap working

(* resolve_step_assignee_user: empty when there is nobody.                  *)
Assignees(step, ids, override) ==
    LET preferred == IF override = 0 THEN step.fixed ELSE override
        first == {k \in DOMAIN ids : /\ Offered(ids[k], override) # {}
                                     /\ \A j \in 1..(k - 1) : Offered(ids[j], override) = {}}
    IN CASE step.strategy \in {"submitter_manager", "department_head"} -> ContextUser(step)
         [] step.strategy = "fixed_user" -> {p \in {preferred} \cap working : Holds(p, ids)}
         [] step.strategy = "role_pool" -> UNION {Offered(ids[k], override) : k \in first}

ToAsk == {k \in DOMAIN StepsConfig : ~Skipped(StepsConfig[k])}

RolesReady(f) == \A k \in DOMAIN StepsConfig : RoleIdsFor(StepsConfig[k].aliases, f) # <<>>

(* preview_assignees, and assert_workflow_assignees_ready, which looks at   *)
(* the roles of every step and at who would be asked in those not skipped.  *)
AssigneesReady(f) ==
    /\ RolesReady(f)
    /\ ToAsk # {}
    /\ \A k \in ToAsk : Assignees(StepsConfig[k], RoleIdsFor(StepsConfig[k].aliases, f), 0) # {}

(* The steps start_workflow_instance may make.  One person may be asked in  *)
(* several; the payload may name who is asked in the first.                 *)
StepsMade(f, override) ==
    LET ids(k) == RoleIdsFor(StepsConfig[k].aliases, f)
        asked(k) == Assignees(StepsConfig[k], ids(k), IF k = 1 THEN override ELSE 0)
        made(k, p) == [order |-> k, role |-> ids(k)[1], who |-> p, does |-> StepsConfig[k].does]
    IN IF ToAsk = {} \/ \E k \in ToAsk : ids(k) = <<>> THEN {}
       ELSE {{made(k, a[k]) : k \in ToAsk} : a \in {b \in [ToAsk -> Persons] : \A k \in ToAsk : b[k] \in asked(k)}}

-----------------------------------------------------------------------------
(* What administrators, and those who ask for approval, do.                 *)

(* upsert_definition, by the dictionary f the database gives: refused when  *)
(* a step names no role there is.                                           *)
UpsertDefinition(raw, f) ==
    /\ raw # <<>>
    /\ \E steps \in Normalized(raw) : LET ids(k) == RoleIdsFor(steps[k].aliases, f) IN
         /\ \A k \in DOMAIN steps : ids(k) # <<>>
         /\ saved' = [k \in DOMAIN steps |-> [steps[k] EXCEPT !.aliases = Canonical(@, f), !.at = k]]
         /\ meant' = [k \in DOMAIN steps |-> ids(k)[1]]
    /\ edited' = (chain # {})
    /\ UNCHANGED <<title, staffing, chain>>

(* delete_definition: the kind of chain has its default steps again.        *)
DeleteDefinition ==
    /\ saved # <<>>
    /\ saved' = <<>> /\ meant' = <<>>
    /\ edited' = (chain # {})
    /\ UNCHANGED <<title, staffing, chain>>

(* create_role and update_role, which ask for another role of this very     *)
(* name, and never about the label; and delete_role, which asks for running *)
(* steps but not for definitions.                                           *)
NameRole(r, name, label) ==
    /\ \A q \in Titled \ {r} : title[q].name # name
    /\ title' = [title EXCEPT ![r] = [name |-> name, label |-> label]]
    /\ meant' = IF name = title[r].name THEN meant
                ELSE [k \in DOMAIN meant |-> IF meant[k] = r THEN 0 ELSE meant[k]]
    /\ UNCHANGED <<staffing, saved, chain, edited>>

RemoveRole(r) ==
    /\ r \in Titled /\ \A s \in chain : s.role # r
    /\ title' = [title EXCEPT ![r] = Untitled]
    /\ holder' = {h \in holder : h[2] # r}
    /\ meant' = [k \in DOMAIN meant |-> IF meant[k] = r THEN 0 ELSE meant[k]]
    /\ UNCHANGED <<working, lead, saved, chain, edited>>

(* update_user_admin, update_department, assign and revoke role.            *)
Restaff ==
    /\ \/ \E p \in Persons, r \in Titled :
             /\ holder' = SymDiff(holder, {<<p, r>>})
             /\ UNCHANGED <<working, lead>>
       \/ \E p \in Persons : working' = SymDiff(working, {p}) /\ UNCHANGED <<holder, lead>>
       \/ \E p \in Persons \cup {0} :
             /\ lead' \in {[lead EXCEPT !.manager = p], [lead EXCEPT !.head = p]}
             /\ UNCHANGED <<holder, working>>
    /\ UNCHANGED <<title, saved, meant, chain, edited>>

StartChain(f, override) ==
    /\ chain = {}
    /\ chain' \in StepsMade(f, override)
    /\ edited' = FALSE
    /\ UNCHANGED <<title, staffing, saved, meant>>

(* The last approval or the return of the instance.                         *)
EndChain ==
    /\ chain # {}
    /\ chain' = {} /\ edited' = FALSE
    /\ UNCHANGED <<title, staffing, saved, meant>>

DefinitionsNext ==
    \/ \E n \in 1..MaxSteps : \E raw \in [1..n -> StepRows], f \in Dictionaries : UpsertDefinition(raw, f)
    \/ DeleteDefinition
    \/ \E r \in RoleIds, name \in Names, label \in Words : NameRole(r, name, label)
    \/ \E r \in RoleIds : RemoveRole(r)
    \/ Restaff
    \/ \E f \in Dictionaries, p \in Persons \cup {0} : StartChain(f, p)
    \/ EndChain
DefinitionsSpec == DefinitionsInit /\ [][DefinitionsNext]_definitionsVars

-----------------------------------------------------------------------------
(* A step of a stored definition never loses its role: it asks for the one  *)
(* that was chosen for it, whatever label that one takes, until it is       *)
(* renamed or deleted, or for one whose name or label has come to read like *)
(* the name of the chosen one; and for none else.                           *)
WordsKeepTheirRole ==
    \A k \in DOMAIN saved, f \in Dictionaries :
        LET ids == RoleIdsFor(saved[k].aliases, f)
            alike == RolesRead(Folded[title[meant[k]].name])
        IN meant[k] # 0 => ids # <<>> /\ ids[1] \in alike

(* What the forms ask before they store anything is enough: the chain can   *)
(* be started, also when one person is to be asked in several steps, and    *)
(* whoever is named for the first step, unless that one names a person      *)
(* itself.                                                                  *)
ReadyStarts ==
    \A f \in Dictionaries :
        AssigneesReady(f) =>
            \A override \in {0} \cup (IF StepsConfig[1].strategy = "fixed_user" THEN {} ELSE Persons) :
                StepsMade(f, override) # {}

(* The types; and a running step finds its own configuration by its number, *)
(* though steps before it were skipped, as long as nobody edits the         *)
(* definition.                                                              *)
RunsAsDefined ==
    /\ DefinitionsTypeOK
    /\ ~edited => \A s \in chain : \E c \in StepConfigAtOrder(s.order) : c.does = s.does

(* All three: a definition asks for the roles that were chosen, a chain by  *)
(* it starts, and each of its steps is what was defined for it.             *)
DefinitionsHold == WordsKeepTheirRole /\ ReadyStarts /\ RunsAsDefined
=============================================================================
