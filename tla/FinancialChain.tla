--------------------------- MODULE FinancialChain ---------------------------
(***************************************************************************)
(* One money request (loan, advance, payment order, other payment, or a     *)
(* financial document) and its chain: approvals, the finance step that      *)
(* collects the terms, the officer's registration in the accounting program *)
(* Sepidar (mark_payment) and the supervisor's confirmation of it.          *)
(* Deciding a step is one transaction; the edit of the row is two, because  *)
(* its checks and its write are.  Second instances of a row are the subject *)
(* of WorkflowEngine, concurrent decisions that of WorkflowRaces.           *)
(***************************************************************************)
EXTENDS Integers, Sequences

CONSTANTS
    Requester,    \* who files the row
    MaxAmount,    \* bound: changes of the amount, dates and accounts
    Settings      \* the surroundings a behaviour may have

Step(action, by, skip) == [action |-> action, by |-> by, skip |-> skip]

UnifiedSteps == << Step("approval", "manager", TRUE),
                   Step("approval", "finance", TRUE),
                   Step("approval", "ceo", TRUE),
                   Step("mark_payment", "officer", TRUE),
                   Step("confirm_sepidar", "supervisor", TRUE) >>

DocumentSteps == << Step("mark_payment", "officer", TRUE),
                    Step("confirm_sepidar", "supervisor", TRUE),
                    Step("approval", "finance", TRUE),
                    Step("approval", "finance", FALSE) >>

Employee == {"loan", "advance"}
Types    == Employee \cup {"payment_order", "procurement", "financial_document"}

ASSUME FinancialAssumption ==
    /\ MaxAmount \in Nat
    /\ \A c \in Settings :
          /\ c.type \in Types
          /\ c.steps \in Seq([action : {"approval", "mark_payment", "confirm_sepidar"},
                              by : {"manager", "finance", "ceo", "officer", "supervisor"},
                              skip : BOOLEAN])
          /\ c.manager \in BOOLEAN  \* the requester has an active manager
          /\ c.overlap \in BOOLEAN   \* an edit and other requests overlap
          /\ c.corrector \in BOOLEAN \* a workflow_corrector edits rows
          /\ c.retreats \in Nat      \* bound: rejections
          \* c.users: the people the roles resolve to

VARIABLES
    row,         \* "absent", "live" or "deleted"
    pay,         \* the columns of the row the chain depends on
    registered,  \* payment_marked_at, sepidar_registered_at
    confirmed,   \* sepidar_confirmed_at
    image,       \* of a document: "none", "stored", or "failed", the last upload raised
    status,      \* status of a document; that of a payment stays PENDING
    announced,   \* workflow.approved, workflow.rejected in the queue, of a document
    inst,        \* WorkflowInstance.status
    step,        \* step[o]: WorkflowStep.status
    who,         \* who[o]: WorkflowStep.assigned_user_id
    edit,        \* the update that passed its checks and is not committed
    retreats,    \* rejections so far
    setting      \* one of Settings, the same all along

chain == <<inst, step, who, retreats>>
money == <<pay, registered, confirmed, image>>
vars == <<row, money, status, announced, chain, edit, setting>>

Orders == DOMAIN setting.steps
Config(o) == setting.steps[o]
ActionAt(o) == Config(o).action

Payload == [amount : BOOLEAN, payer : BOOLEAN, method : BOOLEAN,
            type : Types \ {"financial_document"}]
NoEdit == [by |-> "nobody"]

Rows == [type : Types,          \* payment_type
         amount : 0..MaxAmount,  \* times the amount or a date was changed
         payer : BOOLEAN,       \* the paying account is set
         method : BOOLEAN,      \* payment_method is set
         terms : BOOLEAN]       \* instalments, or the settlement date, are set

TypeOK ==
    /\ row \in {"absent", "live", "deleted"}
    /\ pay \in Rows
    /\ registered \in BOOLEAN /\ confirmed \in BOOLEAN
    /\ image \in {"none", "failed", "stored"}
    /\ status \in {"pending", "approved", "rejected"}
    /\ announced \subseteq {"approved", "rejected"}
    /\ inst \in {"absent", "pending", "in_progress", "approved", "returned", "cancelled"}
    /\ step \in [Orders -> {"none", "pending", "approved", "rejected", "cancelled"}]
    /\ who \in [Orders -> setting.users]
    /\ edit \in {NoEdit} \cup [by : {"requester", "corrector"}, new : Payload]
    /\ retreats \in 0..setting.retreats
    /\ setting \in Settings

Init ==
    /\ setting \in Settings
    /\ row = "absent"
    /\ \E payer \in BOOLEAN :
          pay = [type |-> setting.type, amount |-> 0, payer |-> payer,
                 method |-> setting.type = "payment_order", terms |-> FALSE]
    /\ registered = FALSE /\ confirmed = FALSE /\ image = "none"
    /\ status = "pending" /\ announced = {}
    /\ inst = "absent"
    /\ step = [o \in Orders |-> "none"]
    /\ who \in [Orders -> setting.users]
    /\ edit = NoEdit
    /\ retreats = 0

-----------------------------------------------------------------------------
(* The row is filed and its chain started. *)

(* An edit that is between its checks and its write shares the database     *)
(* with other requests only where requests overlap.                         *)
Free == edit = NoEdit \/ setting.overlap

(* should_skip_missing_manager_step *)
Planned == {o \in Orders : Config(o).by # "manager" \/ setting.manager}

(* create_payment_request and its callers, create_financial_document; the   *)
(* first step of a document is its requester's.                             *)
Create ==
    /\ row = "absent"
    /\ Planned # {}
    /\ setting.type = "financial_document" => who[1] = Requester
    /\ row' = "live"
    /\ inst' = "pending"
    /\ step' = [o \in Orders |-> IF o \in Planned THEN "pending" ELSE "none"]
    /\ UNCHANGED <<money, status, announced, who, retreats, edit, setting>>

-----------------------------------------------------------------------------
(* What a row must have. *)

(* payment_terms_complete *)
TermsComplete(p) == /\ p.type \in Employee => p.terms
                    /\ p.type = "payment_order" => p.method

(* financial_terms_satisfied *)
Satisfied(p) == TermsComplete(p) /\ p.payer

(* must_collect_financial_terms, step_is_financial *)
MustCollect(p, o) == ~Satisfied(p) /\ Config(o).by = "finance"

Active == inst \in {"pending", "in_progress"}
Pending == {o \in Orders : step[o] = "pending"}
Lowest(S) == {o \in S : \A p \in S : o <= p}
AnyApproved == \E o \in Orders : step[o] = "approved"

-----------------------------------------------------------------------------
(* Deciding a step. *)

Touches(t) == t.amount \/ t.payer \/ t.method \/ t.terms

Terms == [amount : BOOLEAN, payer : BOOLEAN, method : BOOLEAN, terms : BOOLEAN]

MayMutateByAction(o) == ActionAt(o) = "approval"

(* _assert_can_mutate_financial_numbers *)
MayMutate(o) == ActionAt(o) = "approval" /\ ~registered

(* apply_approver_terms_before_approve: what step o makes of the row with   *)
(* the terms t the approver u sent; the empty set when it raises.           *)
WithTerms(o, u, t) ==
    LET collect == MustCollect(pay, o)
        new == [pay EXCEPT
                  !.amount = IF t.amount THEN @ + 1 ELSE @,
                  !.method = @ \/ (pay.type = "payment_order" /\ t.method),
                  !.payer  = @ \/ (t.payer /\ \/ pay.type = "payment_order"
                                              \/ pay.type \in Employee /\ collect),
                  !.terms  = @ \/ (t.terms /\ pay.type \in Employee /\ collect)]
    IN {p \in {new} :
          /\ Touches(t) => MayMutate(o)
          /\ p.amount <= MaxAmount
          /\ pay.type = "payment_order" =>
               p.method /\ (Config(o).by = "finance" => p.payer)
          /\ pay.type \in Employee /\ collect =>
               /\ MayMutate(o)
               /\ p.payer /\ p.terms
               /\ ~pay.terms => u # Requester}

SkippableBySame(o, u, p) == who[o] = u /\ Config(o).skip /\ ActionAt(o) = "approval"

(* can_auto_skip_next_approval_step *)
Skippable(o, u, p) ==
    /\ who[o] = u
    /\ Config(o).skip
    /\ ActionAt(o) = "approval"
    /\ pay.type # "financial_document" => ~MustCollect(p, o)

(* advance_workflow_after_step: the run of steps the same user need not be  *)
(* asked for.                                                               *)
Skipped(s, u, p) ==
    {o \in Pending \ {s} : \A q \in Pending \ {s} : q <= o => Skippable(q, u, p)}

(* complete_mark_payment_step asks for an active instance, and for an image *)
(* of a document.                                                           *)
MayRegister == Active /\ (pay.type = "financial_document" => image = "stored")

(* publish_event: only documents listen; lost when the process dies first. *)
Announce(e) == announced' \in
    IF setting.type = "financial_document" THEN {announced, announced \cup {e}} ELSE {announced}

(* What the completed action of step s writes. *)
Effect(s) ==
    /\ registered' = (registered \/ ActionAt(s) = "mark_payment")
    /\ confirmed' = (confirmed \/ ActionAt(s) = "confirm_sepidar")

(* u can approve the step that waits, with the terms t.  Only the           *)
(* registration looks at the status of the instance.                        *)
MayApprove(u, t) ==
    /\ Free
    /\ setting.inboxOnly => Active
    /\ \E s \in Lowest(Pending) :
          /\ who[s] = u
          /\ ActionAt(s) = "mark_payment" => MayRegister
          /\ ActionAt(s) = "confirm_sepidar" => registered
          /\ WithTerms(s, u, t) # {}

(* approve_step for a financial ref_type, with payment_executed at the      *)
(* registration and sepidar_confirmed at its confirmation.                  *)
Approve(u, t) ==
    /\ MayApprove(u, t)
    /\ \E s \in Lowest(Pending) :
          /\ \E p \in WithTerms(s, u, t) :
                LET done == {s} \cup Skipped(s, u, p)
                IN /\ pay' = p
                   /\ step' = [o \in Orders |-> IF o \in done THEN "approved" ELSE step[o]]
                   /\ IF Pending = done THEN inst' = "approved" /\ Announce("approved")
                                        ELSE UNCHANGED <<inst, announced>>
          /\ Effect(s)
    /\ UNCHANGED <<row, status, image, who, retreats, edit, setting>>

AfterRejectReturned(s, prev) ==
    [o \in Orders |-> CASE o = s -> IF prev = {} THEN "returned" ELSE "rejected"
                        [] o \in prev -> "pending"
                        [] OTHER -> step[o]]

AfterReject(s, prev) ==
    [o \in Orders |-> CASE o = s -> "rejected"
                        [] o \in prev -> "pending"
                        [] OTHER -> step[o]]

(* reject_step: to the step before, or from the first one to the requester. *)
Reject(u) ==
    /\ Free
    /\ setting.inboxOnly => Active
    /\ retreats < setting.retreats
    /\ retreats' = retreats + 1
    /\ \E s \in Lowest(Pending) :
          LET below == {o \in Orders : step[o] # "none" /\ o < s}
              prev == {o \in below : \A q \in below : q <= o}
          IN /\ who[s] = u
             /\ step' = AfterReject(s, prev)
             /\ IF prev # {} THEN inst' = "in_progress" /\ UNCHANGED <<status, announced>>
                ELSE /\ inst' = "returned"
                     /\ status' = IF pay.type = "financial_document" THEN "rejected" ELSE status
                     /\ Announce("rejected")
    /\ UNCHANGED <<row, money, who, edit, setting>>

(* workflow_financial_document_bridge: nothing is asked of the row; the     *)
(* event may be delivered again.                                            *)
Consume(e) ==
    /\ Free
    /\ e \in announced
    /\ announced' \in {announced, announced \ {e}}
    /\ status' = IF row = "live" THEN e ELSE status
    /\ UNCHANGED <<row, money, chain, edit, setting>>

-----------------------------------------------------------------------------
(* The requester and the corrector. *)

(* upload_attachment_api calls save_entity_attachment with arguments it     *)
(* does not have: whoever may upload (user_can_upload_financial_document_   *)
(* files) gets a TypeError and nothing is stored.                           *)
Upload(u) ==
    /\ Free
    /\ row = "live" /\ pay.type = "financial_document"
    /\ status = "pending" /\ ~registered
    /\ u = Requester \/ (Active /\ 1 \in Lowest(Pending) /\ u = who[1])
    /\ image' = "failed"
    /\ UNCHANGED <<row, pay, registered, confirmed, status, announced, chain, edit, setting>>

TouchesNumbers(new) ==
    \/ new.amount
    \/ pay.type \notin Employee /\ (new.payer \/ new.method)

EditLockOfRequester(by) == by = "requester" => ~registered
(* ensure_workflow_mutable_for_entity *)
EditLock(by) == by = "requester" => ~AnyApproved

(* assert_financial_numbers_unlocked *)
NumbersLock(by, new) == TouchesNumbers(new) => ~registered

(* update_payment_request up to its checks. *)
BeginEdit(by, new) ==
    /\ edit = NoEdit
    /\ by = "corrector" => setting.corrector
    /\ row = "live" /\ pay.type # "financial_document"
    /\ pay.type \in Employee => new.type = pay.type /\ ~new.payer /\ ~new.method
    /\ EditLock(by)
    /\ NumbersLock(by, new)
    /\ new.amount => pay.amount < MaxAmount
    /\ edit' = [by |-> by, new |-> new]
    /\ UNCHANGED <<row, money, status, announced, chain, setting>>

(* Its assignments and its commit, lost when the row is gone by then. *)
CommitEdit ==
    /\ edit # NoEdit
    /\ edit' = NoEdit
    /\ pay' = IF row # "live" THEN pay
              ELSE [pay EXCEPT
                      !.amount = IF edit.new.amount /\ @ < MaxAmount THEN @ + 1 ELSE @,
                      !.type = edit.new.type,
                      !.payer = @ \/ edit.new.payer,
                      !.method = @ \/ (edit.new.method /\ edit.new.type = "payment_order")]
    /\ UNCHANGED <<row, registered, confirmed, image, status, announced, chain, setting>>

(* delete_payment_request, delete_financial_document *)
Delete ==
    /\ Free
    /\ row = "live" /\ status = "pending"
    /\ ~AnyApproved
    /\ row' = "deleted"
    /\ inst' = "cancelled"
    /\ step' = [o \in Orders |-> IF step[o] = "pending" THEN "cancelled" ELSE step[o]]
    /\ UNCHANGED <<money, status, announced, who, retreats, edit, setting>>

Next ==
    \/ Create
    \/ \E u \in setting.users : Reject(u) \/ Upload(u) \/ \E t \in Terms : Approve(u, t)
    \/ \E e \in {"approved", "rejected"} : Consume(e)
    \/ \E by \in {"requester", "corrector"}, new \in Payload : BeginEdit(by, new)
    \/ CommitEdit
    \/ Delete

Spec == Init /\ [][Next]_vars

-----------------------------------------------------------------------------
(* Properties. *)

Straight == setting.retreats = 0
Calm == Straight /\ ~setting.overlap /\ ~setting.corrector
Has(action) == \E o \in Planned : ActionAt(o) = action
FinanceFirst == \E o \in Planned : /\ Config(o).by = "finance"
                                   /\ \A q \in Planned : ActionAt(q) = "mark_payment" => o < q

(* The types; and the stages come in their order, each with what it needs:  *)
(* nothing is confirmed in Sepidar that is not registered there; in a chain *)
(* without rejections the request is approved only once both happened; and  *)
(* it is registered only with its terms and paying account, when the        *)
(* finance step comes first and nobody changed the kind of payment behind   *)
(* its back.  A document is approved when its chain is, however its events  *)
(* arrive.                                                                  *)
StagesInOrder ==
    /\ TypeOK
    /\ status = "approved" => inst = "approved"
    /\ confirmed => registered
    /\ Straight /\ inst = "approved" =>
          /\ Has("mark_payment") => registered
          /\ Has("confirm_sepidar") => confirmed
    /\ Calm /\ FinanceFirst /\ registered /\ pay.type \in Employee \cup {"payment_order"} =>
          Satisfied(pay)

(* assert_financial_numbers_unlocked, by whatever way the row is changed:   *)
(* once registered in Sepidar its amount, dates, account and terms stay.    *)
NumbersFrozen ==
    [][registered /\ ~setting.overlap =>
          pay' = [pay EXCEPT !.type = pay'.type]]_vars

(* The lock of workflow_lock: after the first approval the row changes only *)
(* by the decision of a step or the hand of a corrector.                    *)
ChangedByThoseAsked ==
    [][AnyApproved /\ pay' # pay /\ ~setting.overlap =>
          step' # step \/ edit.by = "corrector"]_vars

(* Both: the two locks, of the numbers and of the row.                      *)
LocksHold == NumbersFrozen /\ ChangedByThoseAsked

(* A chain as an administrator would draw it: Sepidar has the request       *)
(* before it confirms it, finance is asked to approve, and before the       *)
(* registration, and somebody approves before anything is carried out.  Of  *)
(* a document only the first is asked.                                      *)
Orderly ==
    \A o \in Planned :
        LET before == {q \in Planned : q < o}
        IN /\ ActionAt(o) = "confirm_sepidar" => \E q \in before : ActionAt(q) = "mark_payment"
           /\ setting.type # "financial_document" =>
                 /\ ActionAt(o) # "approval" => \E q \in before : ActionAt(q) = "approval"
                 /\ Config(o).by = "finance" =>
                       /\ ActionAt(o) = "approval"
                       /\ \A q \in before : ActionAt(q) # "mark_payment"

(* Whoever an orderly chain under way waits for can approve his step; the   *)
(* code itself excludes the requester who is to set his own terms, and the  *)
(* document that waits for its image.                                       *)
NobodyIsStuck ==
    Calm /\ Orderly /\ Active /\ edit = NoEdit =>
        \A s \in Lowest(Pending) :
            \/ \E t \in Terms : MayApprove(who[s], t)
            \/ pay.type \in Employee /\ ~pay.terms /\ MustCollect(pay, s) /\ who[s] = Requester
            \/ pay.type = "financial_document" /\ ActionAt(s) = "mark_payment"

=============================================================================
