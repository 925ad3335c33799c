----------------------------- MODULE Visibility -----------------------------
(***************************************************************************)
(* Who finds a request in which list, and who may open it (the modules      *)
(* services/*_list_scope.py, payment_request_access.py,                     *)
(* workflow_instance_list.py, workflow_attachment_access.py).  Both are     *)
(* read off the steps of the row's instances, each kind of request in its   *)
(* own way, while WorkflowEngine returns, restarts and reassigns them.  The *)
(* instances are those of the chain a row begins with: no list looks at the *)
(* chains of settlements and reports.                                       *)
(***************************************************************************)
EXTENDS WorkflowEngine

CONSTANTS Requester,  \* who filed the row; the submitter_manager is his
          Overseers   \* accounts with workflow.all.read or a role that sees all

ASSUME VisibilityAssumption == Requester # NoUser /\ NoUser \notin Overseers

Kinds == {"mission", "petty_cash", "payment", "document", "purchase", "form"}
Scopes == {"mine", "team", "all", "approver", "participated"}

Viewers == Users \cup {Requester} \cup Overseers
LoggedIn(v) == v \in Users => v \in active

Begun == {i \in Insts : inst[i] # "absent"}
LatestBegun == {i \in Begun : \A j \in Begun : j <= i}

-----------------------------------------------------------------------------
(* What a step says of a user.                                              *)

AssignedTo(v, i) == {o \in Created(i) : assignee[i][o] = v}

(* The roles of the steps that are not the manager's.                       *)
OfRole(v, i) == IF v \in members THEN Created(i) \ ManagerSteps ELSE {}

(* WorkflowStep.approved_by, which a rejection takes off the step it reopens. *)
ApprovedBy(v, i) ==
    {o \in Orders : step[i][o] \in {"approved", "rejected"} /\ \E d \in LastDecision(i, o) : d.by = v}

(* user_can_act_on_workflow_step, whatever became of the step.              *)
ActableBy(v, i) == {o \in Created(i) : IF assignee[i][o] # NoUser THEN assignee[i][o] = v
                                                                    ELSE o \in OfRole(v, i)}

PartOf(v, i) ==
    ApprovedBy(v, i) \cup {o \in AssignedTo(v, i) : step[i][o] \in {"approved", "rejected", "cancelled"}}

WaitsFor(v, i) == AssignedTo(v, i) \cap Pending(i)

(* collect_team_member_user_ids of the row; teams are Organization's.       *)
LeadsRequester(v) == v = Manager

-----------------------------------------------------------------------------
(* The lists.                                                               *)

(* assert_scope_allowed; purchases have no team.                            *)
ScopeAllowed(kind, v, scope) ==
    CASE scope = "all" -> v \in Overseers
      [] scope = "team" -> kind # "purchase"
      [] OTHER -> TRUE

(* apply_payment_request_list_scope and its siblings: the list of a kind.   *)
Listed(kind, v, scope) ==
    /\ entity = "live" /\ kind # "form" /\ ScopeAllowed(kind, v, scope)
    /\ CASE scope = "mine" -> v = Requester
         [] scope = "team" -> LeadsRequester(v)
         [] scope = "all" -> TRUE
         [] scope = "approver" -> \E i \in Begun : WaitsFor(v, i) # {}
         [] OTHER ->
              CASE kind = "mission" -> v = Requester \/ \E i \in Begun : ApprovedBy(v, i) # {}
                [] kind = "document" -> \E i \in Begun : ApprovedBy(v, i) # {}
                [] OTHER -> \E i \in Begun : PartOf(v, i) # {}

(* apply_workflow_instance_list_scope: instances, also those of deleted rows. *)
Traced(v, i, scope) ==
    /\ i \in Begun /\ ScopeAllowed("form", v, scope)
    /\ CASE scope = "mine" -> (v = Requester /\ entity = "live") \/ AssignedTo(v, i) # {}
         [] scope = "team" -> LeadsRequester(v) /\ entity = "live"
         [] scope = "all" -> TRUE
         [] scope = "approver" -> WaitsFor(v, i) # {}
         [] OTHER -> PartOf(v, i) # {}

-----------------------------------------------------------------------------
(* Opening.                                                                 *)

(* user_can_access_payment_request_extended and its siblings.               *)
SeesRequester(v) == v = Requester \/ v \in Overseers \/ LeadsRequester(v)

MayOpenWaiting(kind, v) ==
    /\ entity = "live"
    /\ SeesRequester(v) \/ \E i \in Begun : WaitsFor(v, i) # {}

(* get_petty_cash and get_mission_request ask every instance of the row,    *)
(* user_can_access_payment_request its latest, that of a document the first *)
(* the database returns: of either, which instance is asked is a choice.    *)
AskedLatest(kind) == {{i} : i \in LatestBegun}

Asked(kind) ==
    CASE kind = "payment" -> {{i} : i \in LatestBegun}
      [] kind = "document" -> {{i} : i \in Begun}
      [] OTHER -> {Begun}

InvolvedBy(kind, v, i) ==
    CASE kind \in {"mission", "petty_cash"} -> ActableBy(v, i) # {}
      [] kind = "purchase" -> WaitsFor(v, i) \cup (OfRole(v, i) \cap Pending(i)) \cup PartOf(v, i) # {}
      [] OTHER -> AssignedTo(v, i) \cup OfRole(v, i) # {}

MayOpen(kind, v) ==
    /\ entity = "live" /\ kind # "form"
    /\ \/ IF kind = "purchase" THEN v \in {Requester} \cup Overseers ELSE SeesRequester(v)
       \/ Begun # {} /\ \A is \in Asked(kind) : \E i \in is : InvolvedBy(kind, v, i)

(* user_can_access_workflow_instance: what the steps have attached.         *)
MayOpenInstance(kind, v, i) ==
    \/ AssignedTo(v, i) # {} \/ ActableBy(v, i) # {} \/ ApprovedBy(v, i) # {}
    \/ v = Requester /\ entity = "live"
    \/ MayOpen(kind, v)

-----------------------------------------------------------------------------
(* Properties.                                                              *)

OneRun == \A i, j \in Begun : i = j

(* Whoever finds a request in one of his lists may open it, however its     *)
(* steps were returned, reassigned or cancelled.  A payment or a document   *)
(* whose chain began anew is asked of one of its instances only.            *)
ListedMayOpen ==
    \A v \in Viewers : LoggedIn(v) =>
        \A kind \in Kinds :
            (\E scope \in Scopes : Listed(kind, v, scope))
            => MayOpen(kind, v) \/ (kind \in {"payment", "document"} /\ ~OneRun)

(* The list of instances and the attachments of their steps, likewise; the  *)
(* leader of a requester does not open purchases and forms, an overseer     *)
(* neither forms nor what belongs to a deleted row.                         *)
TracedMayOpen ==
    \A v \in Viewers, i \in Begun, scope \in Scopes :
        LoggedIn(v) /\ Traced(v, i, scope)
        => \A kind \in Kinds :
             \/ scope = "team" /\ kind \in {"purchase", "form"}
             \/ scope = "all" /\ (kind = "form" \/ entity # "live")
             \/ MayOpenInstance(kind, v, i)

(* Whoever must decide next finds the request where he looks for work.      *)
AskedFindIt ==
    \A i \in Begun : entity = "live" => \A o \in PendingStep(i), v \in Users :
        CanAct(v, i, o) =>
            /\ Traced(v, i, "approver")
            /\ \A kind \in Kinds \ {"form"} :
                  /\ Listed(kind, v, "approver")
                  /\ MayOpen(kind, v) \/ (kind \in {"payment", "document"} /\ ~OneRun)

(* What the lists show, and what asks for a decision, may be opened.        *)
ShownMayBeOpened == ListedMayOpen /\ TracedMayOpen /\ AskedFindIt
=============================================================================
