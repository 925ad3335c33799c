------------------------------ MODULE PettyCash ------------------------------
(***************************************************************************)
(* Petty cash of one employee (services/petty_cash.py, its bridge, and the   *)
(* publisher and consumer between them).  A request is approved by one       *)
(* chain, then its expenses are filed and approved by a second one; until    *)
(* they are settled the employee may not ask again.  The chains are those of *)
(* ApprovalLifecycle; here the interest is in the row, which learns of them  *)
(* through the queue, and in the HTTP handlers, which commit several times.  *)
(***************************************************************************)
EXTENDS Integers, FiniteSets

CONSTANTS
    Sessions,     \* the employee's concurrent HTTP requests
    MaxReq,       \* bound: petty cash rows
    NumSteps,     \* bound: steps of a chain
    MaxRuns,      \* bound: instances per row and kind
    MaxSubmit,    \* bound: expense lists filed
    Settings      \* the surroundings a behaviour may have

Reqs  == 1..MaxReq
Steps == 1..NumSteps
Kinds == {"petty_cash", "petty_cash_settlement"}
Runs  == [row : Reqs, kind : Kinds, n : 1..MaxRuns]

Setting == [queued : BOOLEAN,     \* the broker is up; if not, publish_event
                                  \* handles in-process
            crashes : BOOLEAN,    \* the API process may die between two commits
            inboxOnly : BOOLEAN,  \* nobody decides a step of a returned instance
            restaffing : BOOLEAN, \* the approving roles may lose and regain holders
            overlap : BOOLEAN,    \* HTTP requests overlap
            replace : SUBSET BOOLEAN, \* replace_existing, as the client sends it
            rows : 0..MaxReq,     \* bound: rows
            steps : Steps]        \* steps of either chain; none is left out

ASSUME PettyCashAssumption ==
    /\ MaxReq \in Nat /\ NumSteps \in Nat \ {0} /\ MaxRuns \in Nat /\ MaxSubmit \in Nat
    /\ Settings \subseteq Setting

VARIABLES
    status,      \* status[r]: PettyCashRequest.status
    settlement,  \* settlement[r]: PettyCashRequest.settlement_status
    lines,       \* lines[r]: expense lists whose lines are stored for r
    total,       \* total[r]: the list total_expenses was computed from, or 0
    filed,       \* lists filed so far, the name of the next one
    outcome, todo, passed,   \* the chains
    queue,       \* events published and not yet acknowledged
    session,     \* session[h]: where the handler of h is
    staffed,     \* every step of the chains has somebody to be assigned to
    setting      \* one of Settings, the same all along

chains == <<outcome, todo, passed>>
row == <<status, settlement>>
expenses == <<lines, total, filed>>
vars == <<row, expenses, chains, queue, session, staffed, setting>>

Chain == INSTANCE ApprovalLifecycle
            WITH chain <- [x \in Runs |-> IF outcome[x] = "none" THEN {}
                                             ELSE 1..setting.steps]

Idle == [pc |-> "idle", row |-> 0, seen |-> {}]
Messages == [event : {"workflow.start"}, row : Reqs, kind : Kinds]
            \cup [event : {"workflow.approved", "workflow.rejected"}, run : Runs]

TypeOK ==
    /\ status \in [Reqs -> {"absent", "PENDING", "APPROVED", "REJECTED", "deleted"}]
    /\ settlement \in [Reqs -> {"NONE", "PENDING", "PENDING_APPROVAL", "SETTLED"}]
    /\ lines \in [Reqs -> SUBSET (1..MaxSubmit)]
    /\ total \in [Reqs -> 0..MaxSubmit]
    /\ filed \in 0..MaxSubmit
    /\ outcome \in [Runs -> Chain!Outcomes]
    /\ todo \in [Runs -> SUBSET Steps] /\ passed \in [Runs -> SUBSET Steps]
    /\ queue \subseteq Messages
    /\ session \in [Sessions ->
          [pc : {"idle", "creating", "created", "saving", "saved", "checked"},
           row : Reqs \cup {0}, seen : SUBSET (1..MaxSubmit)]]
    /\ staffed \in BOOLEAN
    /\ setting \in Settings

Init ==
    /\ status = [r \in Reqs |-> "absent"]
    /\ settlement = [r \in Reqs |-> "NONE"]
    /\ lines = [r \in Reqs |-> {}]
    /\ total = [r \in Reqs |-> 0]
    /\ filed = 0
    /\ Chain!Init /\ outcome = [x \in Runs |-> "none"]
    /\ queue = {}
    /\ session = [h \in Sessions |-> Idle]
    /\ staffed = TRUE
    /\ setting \in Settings

-----------------------------------------------------------------------------
(* Publishing, starting a chain, and what the end of one does to the row. *)

(* publish_event: to the queue when there is a broker, else the handler of  *)
(* the event runs at once; lost when the process dies before publishing.    *)
Publish(m) == queue' \in IF ~setting.queued THEN {queue}
                         ELSE {queue \cup {m}} \cup IF setting.crashes THEN {queue} ELSE {}

RunsOf(r, kind) == {x \in Runs : x.row = r /\ x.kind = kind}
ActiveRunOrReturned(r, kind) == \E x \in RunsOf(r, kind) : outcome[x] \in {"open", "returned"}
ActiveRun(r, kind) == \E x \in RunsOf(r, kind) : outcome[x] = "open"

(* start_workflow_instance: an open instance is kept, a returned one is not  *)
(* counted; it raises when a step has nobody to be assigned to.             *)
CanStart(r, kind) == ActiveRun(r, kind) \/ staffed
Start(r, kind) ==
    IF ActiveRun(r, kind) THEN UNCHANGED chains
    ELSE \E x \in RunsOf(r, kind) :
            /\ \A y \in RunsOf(r, kind) : outcome[y] = "none" => x.n <= y.n
            /\ Chain!Open(x, 1..setting.steps)

Stored(r) == status[r] \notin {"absent", "deleted"}

StatusOnVerbatim(x, verdict) ==
    IF Stored(x.row) /\ x.kind = "petty_cash"
    THEN [status EXCEPT ![x.row] = verdict]
    ELSE status

StatusOn(x, verdict) ==
    IF Stored(x.row) /\ x.kind = "petty_cash"
    THEN [status EXCEPT ![x.row] = IF verdict = "approved" THEN "APPROVED" ELSE "REJECTED"]
    ELSE status

SettlementOnByState(x, verdict) ==
    IF Stored(x.row) /\ verdict = "approved"
    THEN [settlement EXCEPT ![x.row] = IF @ = "NONE" THEN "PENDING" ELSE "SETTLED"]
    ELSE settlement

(* on_workflow_approved, on_settlement_workflow_approved and ..._rejected:   *)
(* whatever the row has become since, it is set to what the event implies.  *)
SettlementOn(x, verdict) ==
    IF ~Stored(x.row) \/ (x.kind = "petty_cash" /\ verdict # "approved") THEN settlement
    ELSE [settlement EXCEPT ![x.row] =
            IF x.kind = "petty_cash_settlement" /\ verdict = "approved" THEN "SETTLED" ELSE "PENDING"]

RowHears(x, verdict) ==
    /\ status' = StatusOn(x, verdict)
    /\ settlement' = SettlementOn(x, verdict)

-----------------------------------------------------------------------------
(* The approvers. *)

MayDecide(x) == ~setting.inboxOnly \/ outcome[x] = "open"

(* approve_step: the row learns of the last approval through the event.     *)
Approve(x) ==
    /\ UNCHANGED setting
    /\ MayDecide(x)
    /\ Chain!Advance(x)
    /\ IF outcome'[x] # "approved" THEN UNCHANGED <<row, queue>>
       ELSE /\ Publish([event |-> "workflow.approved", run |-> x])
            /\ IF setting.queued THEN UNCHANGED row ELSE RowHears(x, "approved")
    /\ UNCHANGED <<expenses, session, staffed>>

(* reject_step: a return to the requester changes the row in the same       *)
(* transaction, and is published as well.                                   *)
Reject(x) ==
    /\ UNCHANGED setting
    /\ MayDecide(x)
    /\ Chain!SendBack(x)
    /\ IF outcome'[x] # "returned" THEN UNCHANGED <<row, queue>>
       ELSE /\ Publish([event |-> "workflow.rejected", run |-> x])
            /\ RowHears(x, "rejected")
    /\ UNCHANGED <<expenses, session, staffed>>

(* The consumer; an event is delivered again when it dies before the        *)
(* acknowledgement, or when the handler raises.                             *)
Consume(m) ==
    /\ UNCHANGED setting
    /\ m \in queue
    /\ queue' \in {queue, queue \ {m}}
    /\ CASE m.event = "workflow.start" ->
              CanStart(m.row, m.kind) /\ Start(m.row, m.kind) /\ UNCHANGED row
         [] m.event = "workflow.approved" -> RowHears(m.run, "approved") /\ UNCHANGED chains
         [] m.event = "workflow.rejected" -> RowHears(m.run, "rejected") /\ UNCHANGED chains
    /\ UNCHANGED <<expenses, session, staffed>>

-----------------------------------------------------------------------------
(* The employee's HTTP requests.  Each step ends in a commit or is the read *)
(* a later commit relies on.                                                *)

Goto(h, pc, r, seen) == session' = [session EXCEPT ![h] = [pc |-> pc, row |-> r, seen |-> seen]]
At(h, pc) == session[h].pc = pc
Served(h) == At(h, "idle") /\ (setting.overlap \/ \A g \in Sessions : At(g, "idle"))

BlockingUnlessPaid(r) == status[r] = "PENDING"

(* _blocking_request *)
Blocking(r) == status[r] \in {"PENDING", "APPROVED"} /\ settlement[r] # "SETTLED"

(* create_petty_cash_request: the eligibility and the assignees are checked, *)
BeginCreate(h) ==
    /\ UNCHANGED setting
    /\ Served(h)
    /\ ~\E r \in Reqs : Blocking(r)
    /\ staffed
    /\ Goto(h, "creating", 0, {})
    /\ UNCHANGED <<row, expenses, chains, queue, staffed>>

(* the row is committed, *)
CommitCreate(h) ==
    /\ UNCHANGED setting
    /\ At(h, "creating")
    /\ \E r \in 1..setting.rows :
          /\ status[r] = "absent" /\ \A q \in Reqs : q < r => status[q] # "absent"
          /\ status' = [status EXCEPT ![r] = "PENDING"]
          /\ Goto(h, "created", r, {})
    /\ UNCHANGED <<settlement, expenses, chains, queue, staffed>>

(* and the chain started; if it cannot be, the row stays as it is.          *)
StartCreated(h) ==
    LET r == session[h].row IN
    /\ UNCHANGED setting
    /\ At(h, "created")
    /\ IF CanStart(r, "petty_cash")
       THEN /\ Start(r, "petty_cash")
            /\ Publish([event |-> "workflow.start", row |-> r, kind |-> "petty_cash"])
       ELSE UNCHANGED <<chains, queue>>
    /\ Goto(h, "idle", 0, {})
    /\ UNCHANGED <<row, expenses, staffed>>

FilableAgain(r) == status[r] = "APPROVED" /\ settlement[r] # "PENDING_APPROVAL"
FilableWhileSettling(r) == status[r] = "APPROVED" /\ settlement[r] # "SETTLED"
Filable(r) == status[r] = "APPROVED" /\ settlement[r] \notin {"SETTLED", "PENDING_APPROVAL"}

ReplacedNever(r, replace) == {}

(* The stored lines that the new ones replace. *)
Replaced(r, replace) == IF replace THEN lines[r] ELSE {}

(* _save_expense_lines: the guards are read and the stored lines deleted,   *)
BeginFiling(h, r) ==
    /\ UNCHANGED setting
    /\ Served(h)
    /\ Filable(r)
    /\ \E replace \in setting.replace : Goto(h, "saving", r, Replaced(r, replace))
    /\ UNCHANGED <<row, expenses, chains, queue, staffed>>

(* the new ones are committed,                                              *)
CommitLines(h) ==
    LET r == session[h].row IN
    /\ UNCHANGED setting
    /\ At(h, "saving")
    /\ filed < MaxSubmit
    /\ filed' = filed + 1
    /\ lines' = [lines EXCEPT ![r] = (@ \ session[h].seen) \cup {filed'}]
    /\ total' = [total EXCEPT ![r] = filed']
    /\ settlement' = [settlement EXCEPT ![r] = "PENDING_APPROVAL"]
    /\ Goto(h, "saved", r, {})
    /\ UNCHANGED <<status, chains, queue, staffed>>

(* the assignees are checked, outside of the try block,                     *)
CheckReady(h) ==
    /\ UNCHANGED setting
    /\ At(h, "saved")
    /\ IF staffed THEN Goto(h, "checked", session[h].row, {}) ELSE Goto(h, "idle", 0, {})
    /\ UNCHANGED <<row, expenses, chains, queue, staffed>>

(* and the chain is started, or the settlement status taken back.           *)
StartSettlement(h) ==
    LET r == session[h].row IN
    /\ UNCHANGED setting
    /\ At(h, "checked")
    /\ IF CanStart(r, "petty_cash_settlement")
       THEN /\ Start(r, "petty_cash_settlement")
            /\ Publish([event |-> "workflow.start", row |-> r, kind |-> "petty_cash_settlement"])
            /\ UNCHANGED settlement
       ELSE /\ settlement' = [settlement EXCEPT ![r] = "PENDING"]
            /\ UNCHANGED <<chains, queue>>
    /\ Goto(h, "idle", 0, {})
    /\ UNCHANGED <<status, expenses, staffed>>

(* The API process dies with the request half done. *)
Crash(h) ==
    /\ UNCHANGED setting
    /\ setting.crashes
    /\ ~At(h, "idle")
    /\ Goto(h, "idle", 0, {})
    /\ UNCHANGED <<row, expenses, chains, queue, staffed>>

(* delete_petty_cash_request *)
Delete(r) ==
    /\ UNCHANGED setting
    /\ status[r] = "PENDING"
    /\ Chain!Cancel({x \in Runs : x.row = r})
    /\ status' = [status EXCEPT ![r] = "deleted"]
    /\ lines' = [lines EXCEPT ![r] = {}]
    /\ UNCHANGED <<settlement, total, filed, queue, session, staffed>>

(* The last holder of an approving role leaves it, or one is appointed. *)
Restaff ==
    /\ UNCHANGED setting
    /\ setting.restaffing
    /\ staffed' = ~staffed
    /\ UNCHANGED <<row, expenses, chains, queue, session>>

Handler(h) ==
    \/ BeginCreate(h) \/ CommitCreate(h) \/ StartCreated(h)
    \/ \E r \in Reqs : BeginFiling(h, r)
    \/ CommitLines(h) \/ CheckReady(h) \/ StartSettlement(h) \/ Crash(h)

Next ==
    \/ \E x \in Runs : Approve(x) \/ Reject(x)
    \/ \E m \in queue : Consume(m)
    \/ \E h \in Sessions : Handler(h)
    \/ \E r \in Reqs : Delete(r)
    \/ Restaff

Spec == Init /\ [][Next]_vars

-----------------------------------------------------------------------------
(* What holds whatever the queue, the crashes and the users do. *)

Approved(r, kind) == \E x \in RunsOf(r, kind) : outcome[x] = "approved"

(* Money is only accounted for when somebody approved it: an approved row   *)
(* has an approved instance, expenses are only stored for such a row, and a *)
(* settled one has an approved settlement instance, however late or often   *)
(* the events arrive.                                                       *)
NothingWithoutApproval ==
    \A r \in Reqs :
        /\ status[r] = "APPROVED" \/ lines[r] # {} => Approved(r, "petty_cash")
        /\ settlement[r] = "SETTLED" => Approved(r, "petty_cash_settlement")

-----------------------------------------------------------------------------
(* What the messages of the code promise; true when events are handled in   *)
(* place, one request is served at a time, nothing fails and new lines      *)
(* replace the stored ones.                                                 *)
Calm == /\ ~(setting.queued \/ setting.crashes \/ setting.restaffing \/ setting.overlap)
        /\ setting.inboxOnly /\ setting.replace = {TRUE}

(* The employee has one open petty cash at a time, from the request to the  *)
(* settlement of its expenses (_blocking_request).                          *)
OneOpenRequest ==
    Calm => \A r, q \in Reqs :
        /\ status[r] \in {"PENDING", "APPROVED"} /\ settlement[r] # "SETTLED"
        /\ status[q] \in {"PENDING", "APPROVED"} /\ settlement[q] # "SETTLED"
        => r = q

InSettlement(r) == \E x \in RunsOf(r, "petty_cash_settlement") : outcome[x] = "open"

(* Expenses that are said to be under approval have an instance somebody is *)
(* to decide, once the request that filed them is done.                     *)
UnderApprovalHasRun ==
    Calm => \A r \in Reqs :
        /\ settlement[r] = "PENDING_APPROVAL"
        /\ \A h \in Sessions : session[h].row # r
        => InSettlement(r) \/ Approved(r, "petty_cash_settlement")

(* total_expenses, which is compared with the amount, is the total of the   *)
(* lines that are stored.                                                   *)
TotalIsOfLines == Calm => \A r \in Reqs : lines[r] \subseteq {total[r]}

(* What the employee is told of one petty cash after the other, in the calm. *)
ToldInTheCalm == OneOpenRequest /\ UnderApprovalHasRun /\ TotalIsOfLines

(* In the calm a petty cash that is settled stays settled, and the expenses *)
(* do not change while their approval is under way: everybody who approves  *)
(* them approves the same lines (_save_expense_lines).                      *)
KeptInTheCalm ==
    [][Calm => \A r \in Reqs :
          /\ settlement[r] = "SETTLED" => settlement'[r] = "SETTLED"
          /\ InSettlement(r) => lines'[r] = lines[r]]_vars

=============================================================================
