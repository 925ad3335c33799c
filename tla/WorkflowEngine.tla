--------------------------- MODULE WorkflowEngine ---------------------------
(***************************************************************************)
(* The approval engine (services/workflow*.py) for one business row of a    *)
(* ref_type with plain approval steps: mission_request, mission_report,     *)
(* petty_cash_settlement, request, workflow_form, warehouse_form.  Each     *)
(* handler is one database transaction and is one action here; the races    *)
(* between two such transactions are the subject of WorkflowRaces.          *)
(***************************************************************************)
EXTENDS Integers, FiniteSets

CONSTANTS Users, NoUser,
          Manager,        \* the submitter's manager, NoUser when there is none
          NumSteps,       \* steps of the ref_type's definition
          ManagerSteps,   \* those with the strategy submitter_manager
          ManualSteps,    \* those that may never be auto-skipped
          MaxInst,        \* bound: instances started for the row
          MaxClock        \* bound: decisions taken

Orders == 1..NumSteps
Insts  == 1..MaxInst

ASSUME EngineAssumption ==
    /\ NoUser \notin Users
    /\ Manager \in Users \cup {NoUser}
    /\ NumSteps \in Nat /\ MaxInst \in Nat /\ MaxClock \in Nat
    /\ ManagerSteps \subseteq Orders /\ ManualSteps \subseteq Orders

VARIABLES
    entity,     \* the business row
    inst,       \* inst[i]: WorkflowInstance.status, "absent" before it exists
    step,       \* step[i][o]: WorkflowStep.status, "none" when not created
    assignee,   \* assignee[i][o]: WorkflowStep.assigned_user_id
    log,        \* the workflow_approvals rows
    clock,      \* number of decisions taken, the order of the log
    starts,     \* workflow.start events waiting in the queue
    active,     \* users with is_active
    members     \* users with an active role of the role_pool steps

vars == <<entity, inst, step, assignee, log, clock, starts, active, members>>
staff == <<active, members>>

InstStatus == {"absent", "pending", "in_progress", "approved", "returned", "cancelled"}
StepStatus == {"none", "pending", "approved", "rejected", "cancelled"}
Decision == [inst : Insts, order : Orders, by : Users,
             verdict : {"approved", "rejected"}, at : Nat]

TypeOK ==
    /\ entity \in {"absent", "live", "deleted"}
    /\ inst \in [Insts -> InstStatus]
    /\ step \in [Insts -> [Orders -> StepStatus]]
    /\ assignee \in [Insts -> [Orders -> Users \cup {NoUser}]]
    /\ log \subseteq Decision
    /\ clock \in Nat
    /\ starts \in Nat
    /\ active \subseteq Users
    /\ members \subseteq Users

Init ==
    /\ entity = "absent"
    /\ inst = [i \in Insts |-> "absent"]
    /\ step = [i \in Insts |-> [o \in Orders |-> "none"]]
    /\ assignee = [i \in Insts |-> [o \in Orders |-> NoUser]]
    /\ log = {}
    /\ clock = 0
    /\ starts = 0
    /\ active = Users
    /\ members = Users

-----------------------------------------------------------------------------
(* Starting an instance. *)

(* _existing_active_instance *)
HasActiveInstance == \E i \in Insts : inst[i] \in {"pending", "in_progress"}

(* Instance ids are handed out in order. *)
Fresh(i) == inst[i] = "absent" /\ \A j \in Insts : j < i => inst[j] # "absent"

(* should_skip_missing_manager_step *)
Plan == IF Manager \in active THEN Orders ELSE Orders \ ManagerSteps

(* resolve_step_assignee_user: the manager, or a holder of the role; the    *)
(* override of the payload may name a holder whose account is inactive.     *)
MayBeAssigned(u, o) == IF o \in ManagerSteps THEN u = Manager ELSE u \in members

(* The body of start_workflow_instance once no active instance was found;   *)
(* it rolls back, and changes nothing, when a step has no assignee.         *)
Begin(i) ==
    /\ Fresh(i)
    /\ Plan # {}
    /\ \E a \in [Plan -> Users] :
          /\ \A o \in Plan : MayBeAssigned(a[o], o)
          /\ assignee' = [assignee EXCEPT ![i] =
                            [o \in Orders |-> IF o \in Plan THEN a[o] ELSE NoUser]]
    /\ inst' = [inst EXCEPT ![i] = "pending"]
    /\ step' = [step EXCEPT ![i] =
                  [o \in Orders |-> IF o \in Plan THEN "pending" ELSE "none"]]

(* create_mission_request and its siblings: the row is committed, the       *)
(* instance started in the request, and workflow.start published as well.   *)
Create ==
    /\ entity = "absent"
    /\ entity' = "live"
    /\ \E i \in Insts : Begin(i)
    /\ starts' = starts + 1
    /\ UNCHANGED <<log, clock, staff>>

(* The consumer handles workflow.start and acknowledges it, or dies before  *)
(* the acknowledgement and will receive it again.  Nothing asks whether the *)
(* row still exists.                                                        *)
ConsumeStart ==
    /\ starts > 0
    /\ \/ HasActiveInstance /\ UNCHANGED <<inst, step, assignee>>
       \/ ~HasActiveInstance /\ \E i \in Insts : Begin(i)
    /\ starts' \in {starts - 1, starts}
    /\ UNCHANGED <<entity, log, clock, staff>>

-----------------------------------------------------------------------------
(* Deciding a step. *)

Created(i) == {o \in Orders : step[i][o] # "none"}
Pending(i) == {o \in Orders : step[i][o] = "pending"}

Lowest(S) == {o \in S : \A p \in S : o <= p}

PendingStepUnordered(i) == Pending(i)

(* _pending_step: the pending step of the smallest order, if any. *)
PendingStep(i) == Lowest(Pending(i))

(* user_can_act_on_workflow_step, of an account that may log in. *)
CanAct(u, i, o) == assignee[i][o] = u /\ u \in active

(* The assignee a step has when the loop of approve_step reaches it: an     *)
(* inactive one is resolved again, which finds the same user while he still *)
(* holds the role, and else any active holder.                              *)
Resolved(i, o, u) ==
    LET old == assignee[i][o]
        pool == active \cap members
    IN IF old \in active \cup members \/ pool = {} THEN u = old ELSE u \in pool

Resolutions(i) ==
    {a \in [Orders -> Users \cup {NoUser}] : \A o \in Orders : Resolved(i, o, a[o])}

AutoSkippedOverManual(i, s, u, a) ==
    {o \in Pending(i) \ {s} : \A p \in Pending(i) \ {s} : p <= o => a[p] = u}

AutoSkippedForOthers(i, s, u, a) ==
    {o \in Pending(i) \ {s} : \A p \in Pending(i) \ {s} : p <= o => p \notin ManualSteps}

(* The run of steps directly after s that the same approver need not be     *)
(* asked for (can_auto_skip_next_approval_step).                            *)
AutoSkipped(i, s, u, a) ==
    {o \in Pending(i) \ {s} :
        \A p \in Pending(i) \ {s} : p <= o => a[p] = u /\ p \notin ManualSteps}

Record(i, S, u, verdict) ==
    [inst : {i}, order : S, by : {u}, verdict : {verdict}, at : {clock}]

(* approve_step, for a ref_type that is neither purchase nor financial.     *)
(* The instance's own status is never looked at.                            *)
Approve(i, u) ==
    \E s \in PendingStep(i), a \in Resolutions(i) :
        LET skipped == AutoSkipped(i, s, u, a)
            done == {s} \cup skipped
            left == Pending(i) \ done
        IN /\ CanAct(u, i, s)
           /\ clock < MaxClock
           /\ step' = [step EXCEPT ![i] =
                         [o \in Orders |-> IF o \in done THEN "approved" ELSE @[o]]]
           /\ assignee' = [assignee EXCEPT ![i] =
                             [o \in Orders |-> IF o \in skipped \cup Lowest(left)
                                               THEN a[o] ELSE @[o]]]
           /\ inst' = IF left = {} THEN [inst EXCEPT ![i] = "approved"] ELSE inst
           /\ log' = log \cup Record(i, done, u, "approved")
           /\ clock' = clock + 1
           /\ UNCHANGED <<entity, starts, staff>>

StepBefore(i, s) == {p \in Created(i) : p = s - 1}

(* The step a rejection goes back to: the greatest created order below s.   *)
PrevStep(i, s) ==
    {p \in Created(i) : p < s /\ \A q \in Created(i) : q < s => q <= p}

AfterRejectForgetful(i, s, prev) ==
    [o \in Orders |-> IF o = s THEN "rejected" ELSE step[i][o]]

AfterRejectReturned(i, s, prev) ==
    [o \in Orders |-> CASE o = s -> IF prev = {} THEN "returned" ELSE "rejected"
                        [] o \in prev -> "pending"
                        [] OTHER -> step[i][o]]

AfterReject(i, s, prev) ==
    [o \in Orders |-> CASE o = s -> "rejected"
                        [] o \in prev -> "pending"
                        [] OTHER -> step[i][o]]

(* reject_step: to the previous step when there is one, else to the requester. *)
Reject(i, u) ==
    \E s \in PendingStep(i) :
        LET prev == PrevStep(i, s)
        IN /\ CanAct(u, i, s)
           /\ clock < MaxClock
           /\ step' = [step EXCEPT ![i] = AfterReject(i, s, prev)]
           /\ inst' = [inst EXCEPT ![i] = IF prev # {} THEN "in_progress" ELSE "returned"]
           /\ log' = log \cup Record(i, {s}, u, "rejected")
           /\ clock' = clock + 1
           /\ UNCHANGED <<entity, assignee, starts, staff>>

-----------------------------------------------------------------------------
DeletableAlways == entity = "live"

(* ensure_request_deletable *)
Deletable ==
    /\ entity = "live"
    /\ \A i \in Insts, o \in Orders : step[i][o] # "approved"

CancelledCurrent(i) ==
    [o \in Orders |-> IF o \in PendingStep(i) THEN "cancelled" ELSE step[i][o]]

(* cancel_workflow_instance: every waiting step, not only the current one. *)
CancelledSteps(i) ==
    [o \in Orders |-> IF step[i][o] = "pending" THEN "cancelled" ELSE step[i][o]]

(* delete_workflow_form and its siblings: cancel_workflow_for_ref cancels   *)
(* every instance of the row, whatever its status.                          *)
Delete ==
    /\ Deletable
    /\ entity' = "deleted"
    /\ inst' = [i \in Insts |-> IF inst[i] = "absent" THEN "absent" ELSE "cancelled"]
    /\ step' = [i \in Insts |-> CancelledSteps(i)]
    /\ UNCHANGED <<assignee, log, clock, starts, staff>>

(* update_user_admin (is_active), assign and remove role. *)
ToggleAccount(u) ==
    /\ active' = IF u \in active THEN active \ {u} ELSE active \cup {u}
    /\ UNCHANGED <<entity, inst, step, assignee, log, clock, starts, members>>

ToggleRole(u) ==
    /\ members' = IF u \in members THEN members \ {u} ELSE members \cup {u}
    /\ UNCHANGED <<entity, inst, step, assignee, log, clock, starts, active>>

Decide(i, u) == Approve(i, u) \/ Reject(i, u)

Next ==
    \/ Create
    \/ ConsumeStart
    \/ \E i \in Insts, u \in Users : Decide(i, u)
    \/ Delete
    \/ \E u \in Users : ToggleAccount(u) \/ ToggleRole(u)

Spec == Init /\ [][Next]_vars

-----------------------------------------------------------------------------
(* Properties. *)

(* No step stands approved while a step before it is still waiting: the     *)
(* auto-skip loop and the return to a previous step never leave a decided   *)
(* step beyond an open one (_pending_step, AutoSkipped, reject_step).       *)
OrderDiscipline ==
    \A i \in Insts, o, p \in Orders :
        o < p /\ step[i][p] = "approved" => step[i][o] # "pending"

(* An instance that is under way has somebody to wait for: neither a return *)
(* to a step that was never created nor an auto-skip run strands it.        *)
NoStuckInstance ==
    \A i \in Insts : inst[i] \in {"pending", "in_progress"} => Pending(i) # {}

(* An instance that ended, ended: nothing of it waits, and an approved one  *)
(* has an approval, which is what protects it from being deleted.           *)
EndedIsSettled ==
    \A i \in Insts :
        /\ inst[i] \in {"absent", "approved", "cancelled"} => Pending(i) = {}
        /\ inst[i] = "approved" => \E o \in Orders : step[i][o] = "approved"

(* The policy stated in reject_step: only the first step of the instance    *)
(* returns it to the requester, gaps in the numbering included.             *)
ReturnedByFirstStep ==
    \A i \in Insts : inst[i] = "returned" =>
        \E o \in Lowest(Created(i)) : step[i][o] = "rejected"

LastDecision(i, o) ==
    {d \in log : /\ d.inst = i /\ d.order = o
                 /\ \A e \in log : e.inst = i /\ e.order = o => e.at <= d.at}

(* The steps and the approval log tell the same story: the last decision    *)
(* recorded for a decided step is that decision, and an approval is by the  *)
(* user the step is assigned to, also when the loop reassigned it.          *)
LogExplainsSteps ==
    \A i \in Insts, o \in Orders :
        /\ step[i][o] = "approved" =>
             \E d \in LastDecision(i, o) : d.verdict = "approved" /\ d.by = assignee[i][o]
        /\ step[i][o] = "rejected" =>
             \E d \in LastDecision(i, o) : d.verdict = "rejected"

(* A step that needs data or an action of its own is never approved as the  *)
(* by-product of another approval.                                          *)
ManualStepsActedOn ==
    \A d, e \in log :
        /\ d.inst = e.inst /\ d.at = e.at /\ d.order < e.order
        => e.order \notin ManualSteps

(* The types; and what became of an instance, its steps and its log add up. *)
DecisionsAddUp ==
    TypeOK /\ EndedIsSettled /\ ReturnedByFirstStep /\ LogExplainsSteps /\ ManualStepsActedOn

(* Approved and cancelled are final: no later approval, rejection, deletion *)
(* or redelivered start changes such an instance or its steps.              *)
EndedIsFinal ==
    [][\A i \in Insts : inst[i] \in {"approved", "cancelled"} =>
          inst'[i] = inst[i] /\ step'[i] = step[i]]_vars

Passed(i) == {o \in Orders : step[i][o] = "approved"}

Outcome == [i \in Insts |-> CASE inst[i] = "absent" -> "none"
                              [] inst[i] \in {"pending", "in_progress"} -> "open"
                              [] OTHER -> inst[i]]

Lifecycle == INSTANCE ApprovalLifecycle
                WITH Runs <- Insts, Steps <- Orders, outcome <- Outcome,
                     chain <- [i \in Insts |-> Created(i)],
                     todo <- [i \in Insts |-> Pending(i)],
                     passed <- [i \in Insts |-> Passed(i)]

(* The engine implements the abstract approval lifecycle. *)
ImplementsLifecycle == Lifecycle!Spec

=============================================================================
