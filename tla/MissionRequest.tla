---------------------------- MODULE MissionRequest ----------------------------
(***************************************************************************)
(* One mission of an employee (services/mission_request.py, its routes and   *)
(* its bridge).  The mission is approved by one chain; then its report is    *)
(* filed and approved by a second one, which completes the mission or hands  *)
(* the report back.  The chains are those of ApprovalLifecycle.  The row     *)
(* hears of their ends through events, each of which sets its status         *)
(* whatever it has become; the handlers commit it before a chain is begun.   *)
(***************************************************************************)
EXTENDS Integers

CONSTANTS
    Sessions,     \* the employee's concurrent HTTP requests
    NumSteps,     \* bound: steps of a chain
    MaxRuns,      \* bound: instances of either chain
    MaxReport,    \* bound: reports filed
    Settings      \* the surroundings a behaviour may have

Steps == 1..NumSteps
Kinds == {"mission_request", "mission_report"}
Runs  == [kind : Kinds, n : 1..MaxRuns]

Setting == [queued : BOOLEAN,     \* the broker is up
            crashes : BOOLEAN,    \* the API process may die between two commits
            inboxOnly : BOOLEAN,  \* nobody decides a step of a returned instance
            restaffing : BOOLEAN, \* the approving roles may lose and regain holders
            overlap : BOOLEAN,    \* HTTP requests overlap
            steps : Steps]        \* steps of either chain

ASSUME MissionAssumption ==
    /\ NumSteps \in Nat \ {0} /\ MaxRuns \in Nat /\ MaxReport \in Nat
    /\ Settings \subseteq Setting

VARIABLES
    status,      \* MissionRequest.status, or absent or deleted
    report,      \* the report stored as report_text, or 0
    filed,       \* reports filed so far, the name of the next one
    outcome, todo, passed,   \* the chains
    queue,       \* events published and not yet acknowledged
    session,     \* session[h]: where the handler of h is
    staffed,     \* every step has somebody to be assigned to
    setting      \* one of Settings, the same all along

chains == <<outcome, todo, passed>>
row == <<status, report, filed>>
vars == <<row, chains, queue, session, staffed, setting>>

Chain == INSTANCE ApprovalLifecycle
            WITH chain <- [x \in Runs |-> IF outcome[x] = "none" THEN {}
                                             ELSE 1..setting.steps]

Messages == [event : {"workflow.start"}, kind : Kinds]
            \cup [event : {"workflow.approved", "workflow.rejected"}, run : Runs]

TypeOK ==
    /\ status \in {"absent", "PENDING", "APPROVED", "REJECTED",
                   "REPORT_PENDING_APPROVAL", "COMPLETED", "deleted"}
    /\ filed \in 0..MaxReport /\ report \in 0..filed
    /\ outcome \in [Runs -> Chain!Outcomes]
    /\ todo \in [Runs -> SUBSET Steps] /\ passed \in [Runs -> SUBSET Steps]
    /\ queue \subseteq Messages
    /\ session \in [Sessions -> {"idle", "creating", "created", "filing", "filed", "checked"}]
    /\ staffed \in BOOLEAN
    /\ setting \in Settings

Init ==
    /\ status = "absent" /\ report = 0 /\ filed = 0
    /\ Chain!Init /\ outcome = [x \in Runs |-> "none"]
    /\ queue = {}
    /\ session = [h \in Sessions |-> "idle"]
    /\ staffed = TRUE
    /\ setting \in Settings

-----------------------------------------------------------------------------
(* Publishing, starting a chain, and what the end of one does to the row. *)

(* publish_event: to the queue when there is a broker, else the handler of  *)
(* the event runs at once; lost when the process dies before publishing.    *)
Publish(m) == queue' \in IF ~setting.queued THEN {queue}
                         ELSE {queue \cup {m}} \cup IF setting.crashes THEN {queue} ELSE {}

RunsOf(kind) == {x \in Runs : x.kind = kind}
Open(kind) == \E x \in RunsOf(kind) : outcome[x] = "open"
Approved(kind) == \E x \in RunsOf(kind) : outcome[x] = "approved"

(* start_workflow_instance: an open instance is kept; it raises when a step *)
(* has nobody to be assigned to.                                            *)
CanStart(kind) == Open(kind) \/ staffed
Start(kind) ==
    IF Open(kind) THEN UNCHANGED chains
    ELSE \E x \in RunsOf(kind) :
            /\ \A y \in RunsOf(kind) : outcome[y] = "none" => x.n <= y.n
            /\ Chain!Open(x, 1..setting.steps)

Stored == status \notin {"absent", "deleted"}

(* A bridge that goes by the row's state. *)
StatusOnByState(kind, verdict) ==
    IF ~Stored THEN status
    ELSE IF verdict = "approved" THEN IF status = "PENDING" THEN "APPROVED" ELSE "COMPLETED"
    ELSE IF status = "PENDING" THEN "REJECTED" ELSE "APPROVED"

ReportVerdictFinal(verdict) == IF verdict = "approved" THEN "COMPLETED" ELSE "REJECTED"

(* on_workflow_approved and on_report_workflow_approved, ..._rejected: what *)
(* the row was before is not asked.                                         *)
ReportVerdict(verdict) == IF verdict = "approved" THEN "COMPLETED" ELSE "APPROVED"
MissionVerdict(verdict) == IF verdict = "approved" THEN "APPROVED" ELSE "REJECTED"
StatusOn(kind, verdict) ==
    IF ~Stored THEN status
    ELSE IF kind = "mission_request" THEN MissionVerdict(verdict) ELSE ReportVerdict(verdict)

(* The bridge, told of an instance. *)
RowHears(x, verdict) == status' = StatusOn(x.kind, verdict) /\ UNCHANGED <<report, filed>>

-----------------------------------------------------------------------------
(* The approvers and the consumer. *)

MayDecide(x) == ~setting.inboxOnly \/ outcome[x] = "open"

(* approve_step: the row learns of the last approval through the event. *)
Approve(x) ==
    /\ UNCHANGED setting
    /\ MayDecide(x)
    /\ Chain!Advance(x)
    /\ IF outcome'[x] # "approved" THEN UNCHANGED <<row, queue>>
       ELSE /\ Publish([event |-> "workflow.approved", run |-> x])
            /\ IF setting.queued THEN UNCHANGED row ELSE RowHears(x, "approved")
    /\ UNCHANGED <<session, staffed>>

(* reject_step: a return to the requester changes the row in the same       *)
(* transaction, and is published as well.                                   *)
Reject(x) ==
    /\ UNCHANGED setting
    /\ MayDecide(x)
    /\ Chain!SendBack(x)
    /\ IF outcome'[x] # "returned" THEN UNCHANGED <<row, queue>>
       ELSE /\ Publish([event |-> "workflow.rejected", run |-> x])
            /\ RowHears(x, "rejected")
    /\ UNCHANGED <<session, staffed>>

(* The consumer; an event may be delivered again. *)
Consume(m) ==
    /\ UNCHANGED setting
    /\ m \in queue
    /\ queue' \in {queue, queue \ {m}}
    /\ CASE m.event = "workflow.start" -> CanStart(m.kind) /\ Start(m.kind) /\ UNCHANGED row
         [] m.event = "workflow.approved" -> RowHears(m.run, "approved") /\ UNCHANGED chains
         [] m.event = "workflow.rejected" -> RowHears(m.run, "rejected") /\ UNCHANGED chains
    /\ UNCHANGED <<session, staffed>>

-----------------------------------------------------------------------------
(* The employee's HTTP requests, a step of them for each commit. *)

Goto(h, pc) == session' = [session EXCEPT ![h] = pc]
Alone == setting.overlap \/ \A g \in Sessions : session[g] = "idle"
Served(h) == session[h] = "idle" /\ Alone

(* create_mission_request: the assignees are checked (another request to     *)
(* create one makes another mission, with its own state),                    *)
BeginCreate(h) ==
    /\ UNCHANGED setting
    /\ Served(h)
    /\ status = "absent" /\ \A g \in Sessions : session[g] # "creating"
    /\ staffed
    /\ Goto(h, "creating")
    /\ UNCHANGED <<row, chains, queue, staffed>>

(* the row is committed, *)
CommitCreate(h) ==
    /\ UNCHANGED setting
    /\ session[h] = "creating"
    /\ status' = "PENDING"
    /\ Goto(h, "created")
    /\ UNCHANGED <<report, filed, chains, queue, staffed>>

(* and the chain started; if it cannot be, the row stays as it is. *)
StartCreated(h) ==
    /\ UNCHANGED setting
    /\ session[h] = "created"
    /\ IF CanStart("mission_request")
       THEN /\ Start("mission_request")
            /\ Publish([event |-> "workflow.start", kind |-> "mission_request"])
       ELSE UNCHANGED <<chains, queue>>
    /\ Goto(h, "idle")
    /\ UNCHANGED <<row, staffed>>

(* submit_mission_report: the status is read, *)
ReportableUntilCompleted == status \in {"APPROVED", "REPORT_PENDING_APPROVAL"}
Reportable == status = "APPROVED"
BeginReport(h) ==
    /\ UNCHANGED setting
    /\ Served(h)
    /\ Reportable
    /\ Goto(h, "filing")
    /\ UNCHANGED <<row, chains, queue, staffed>>

(* the report is committed with the new status, if the row is still there,  *)
CommitReport(h) ==
    /\ UNCHANGED setting
    /\ session[h] = "filing"
    /\ Stored
    /\ filed < MaxReport
    /\ filed' = filed + 1 /\ report' = filed'
    /\ status' = "REPORT_PENDING_APPROVAL"
    /\ Goto(h, "filed")
    /\ UNCHANGED <<chains, queue, staffed>>

(* the assignees are checked, outside of the try block,                     *)
CheckReady(h) ==
    /\ UNCHANGED setting
    /\ session[h] = "filed"
    /\ Goto(h, IF staffed THEN "checked" ELSE "idle")
    /\ UNCHANGED <<row, chains, queue, staffed>>

(* and the chain is started, or the status taken back.                      *)
StartReport(h) ==
    /\ UNCHANGED setting
    /\ session[h] = "checked"
    /\ IF CanStart("mission_report")
       THEN /\ Start("mission_report")
            /\ Publish([event |-> "workflow.start", kind |-> "mission_report"])
            /\ UNCHANGED row
       ELSE status' = "APPROVED" /\ UNCHANGED <<report, filed, chains, queue>>
    /\ Goto(h, "idle")
    /\ UNCHANGED staffed

(* The API process dies with the request half done. *)
Crash(h) ==
    /\ UNCHANGED setting
    /\ setting.crashes
    /\ session[h] # "idle"
    /\ Goto(h, "idle")
    /\ UNCHANGED <<row, chains, queue, staffed>>

(* delete_mission_request *)
Deletable == status = "PENDING"
Delete ==
    /\ UNCHANGED setting
    /\ Alone
    /\ Deletable
    /\ Chain!Cancel(Runs)
    /\ status' = "deleted"
    /\ UNCHANGED <<report, filed, queue, session, staffed>>

(* The last holder of an approving role leaves it, or one is appointed. *)
Restaff ==
    /\ UNCHANGED setting
    /\ setting.restaffing
    /\ staffed' = ~staffed
    /\ UNCHANGED <<row, chains, queue, session>>

Handler(h) ==
    \/ BeginCreate(h) \/ CommitCreate(h) \/ StartCreated(h)
    \/ BeginReport(h) \/ CommitReport(h) \/ CheckReady(h) \/ StartReport(h)
    \/ Crash(h)

Next ==
    \/ \E x \in Runs : Approve(x) \/ Reject(x)
    \/ \E m \in queue : Consume(m)
    \/ \E h \in Sessions : Handler(h)
    \/ Delete
    \/ Restaff

Spec == Init /\ [][Next]_vars

-----------------------------------------------------------------------------
(* Whatever the queue, the crashes and the users do: a mission stands        *)
(* approved, or has a report, only if its chain approved it, and is complete *)
(* only if the report's chain approved a report (on_report_workflow_approved *)
(* asks neither).                                                            *)
NothingUnapproved ==
    /\ TypeOK
    /\ status \in {"APPROVED", "REPORT_PENDING_APPROVAL", "COMPLETED"} \/ report # 0
         => Approved("mission_request")
    /\ status = "COMPLETED" => report # 0 /\ Approved("mission_report")

(* The surroundings in which the messages of the code tell the truth: events *)
(* are handled in place, one request is served at a time, nothing fails.     *)
Calm == /\ ~(setting.queued \/ setting.crashes \/ setting.restaffing \/ setting.overlap)
        /\ setting.inboxOnly

Under(kind) == Open(kind) \/ \E h \in Sessions : session[h] # "idle"

(* The status and the chains are two records of the same progress, written   *)
(* by different transactions; they agree whenever no request is half done.   *)
StatusTellsTheRun ==
    Calm => /\ status = "PENDING" => Under("mission_request")
            /\ status = "REJECTED" => \E x \in RunsOf("mission_request") : outcome[x] = "returned"
            /\ status = "REPORT_PENDING_APPROVAL" => Under("mission_report")
            /\ status = "deleted" => \A x \in Runs : outcome[x] \in {"none", "cancelled"}
            /\ Open("mission_request") => status = "PENDING"
            /\ Open("mission_report") => status = "REPORT_PENDING_APPROVAL"
            /\ Approved("mission_report") => status = "COMPLETED"

(* What is said of the mission, whatever happens and in the calm.            *)
MissionAddsUp == NothingUnapproved /\ StatusTellsTheRun

(* What the approvers of a report have read stays what it was: while the     *)
(* report is under approval, and for ever once the mission is complete.      *)
ReportFrozen ==
    [][Calm /\ (Open("mission_report") \/ status = "COMPLETED")
         => report' = report /\ (status = "COMPLETED" => status' = status)]_vars
=============================================================================
