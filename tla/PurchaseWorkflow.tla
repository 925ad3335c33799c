-------------------------- MODULE PurchaseWorkflow --------------------------
(***************************************************************************)
(* One purchase request and its chain of nine steps (procurement/           *)
(* purchase_workflow.py and the services around it).  Every step but the    *)
(* second is an action of its own: stock levels, a proforma, the payment    *)
(* terms, an invoice, the payment, a bill of lading, the receipt and the    *)
(* posting to the warehouse.  Some are completed by the page that shows the *)
(* request (repair_stuck_purchase_operational_steps).  The status of the    *)
(* request is a column of its own, written when a step completes and by     *)
(* nothing when one is rejected.  The older flow, one chain for the request *)
(* and one for the proforma, is not modelled.                               *)
(***************************************************************************)
EXTENDS Integers, FiniteSets, FiniteSetsExt

CONSTANTS Proformas,   \* ids of the proformas of the request
          Amounts,     \* their amounts
          Clicks,      \* concurrent requests to post the goods
          MaxRetreats, \* bound: retreats, each of any number of rejections
          MaxEdits     \* bound: replacements of the lines

Steps == 1..9

ASSUME PurchaseAssumption ==
    /\ Proformas \subseteq Nat /\ IsFiniteSet(Proformas) /\ Amounts \subseteq Nat \ {0}
    /\ {MaxRetreats, MaxEdits} \subseteq Nat

VARIABLES same,     \* one user has steps 1 and 2, and the second is auto-skipped
          outcome, chain, todo, passed, \* the instance, see ApprovalLifecycle
          status,   \* Request.status, "deleted" when the row is gone
          lines,    \* the items: their version, whether the stock column is
                    \* filled and whether they name an item of the catalogue
          ordered,  \* a purchase order exists for the request
          proforma, \* ProcurementProforma rows
          terms,    \* the approved payment method and the total of the check plan
          files,    \* what is attached
          paid,     \* invoice_paid_at is set
          stocked,  \* times the chain entered the goods in the stock, up to 2
          beside,   \* what else entered them: "order", "receipt"; "clicks" when
                    \* two had loaded step 9 at once; for the properties only
          receipt,  \* the latest GoodsReceipt
          posting,  \* the clicks that loaded step 9 as the pending step
          retreats  \* retreats so far

run == <<outcome, chain, todo, passed>>
vars == <<same, run, status, lines, ordered, proforma, terms, files, paid, stocked, beside,
          receipt, posting, retreats>>

Run == INSTANCE ApprovalLifecycle WITH Runs <- {1}

StatusAfter == <<"pending", "awaiting_proforma", "proforma_review", "awaiting_invoice",
                 "awaiting_payment_execution", "awaiting_bol", "awaiting_receipt",
                 "awaiting_warehouse_post", "completed">>

NoProforma == [state |-> "none", amount |-> 0, supplier |-> FALSE]

TypeOK ==
    /\ same \in BOOLEAN
    /\ outcome[1] \in Run!Outcomes /\ todo[1] \subseteq Steps /\ passed[1] \subseteq Steps
    /\ status \in {StatusAfter[s] : s \in Steps} \cup {"awaiting_stock", "receiving", "deleted"}
    /\ lines \in [version : 0..MaxEdits, filled : BOOLEAN, known : BOOLEAN]
    /\ ordered \in BOOLEAN /\ paid \in BOOLEAN
    /\ proforma \in [Proformas -> [state : {"none", "draft", "submitted", "approved"},
                                   amount : Amounts \cup {0}, supplier : BOOLEAN]]
    /\ terms \in [method : {"none", "cash", "check"}, total : Amounts \cup {0}]
    /\ files \subseteq {"invoice", "slip", "slip_on_step", "bol"}
    /\ stocked \in 0..2 /\ beside \subseteq {"order", "receipt", "clicks"}
    /\ receipt \in {"none", "draft", "posted", "cancelled"}
    /\ posting \subseteq Clicks /\ retreats \in 0..MaxRetreats

(* create_purchase_request *)
Init ==
    /\ same \in BOOLEAN
    /\ outcome = <<"open">> /\ chain = <<Steps>> /\ todo = <<Steps>> /\ passed = <<{}>>
    /\ status = "awaiting_stock"
    /\ \E known \in BOOLEAN : lines = [version |-> 0, filled |-> FALSE, known |-> known]
    /\ ordered = FALSE /\ paid = FALSE
    /\ proforma = [p \in Proformas |-> NoProforma]
    /\ terms = [method |-> "none", total |-> 0]
    /\ files = {} /\ stocked = 0 /\ beside = {} /\ receipt = "none"
    /\ posting = {} /\ retreats = 0

-----------------------------------------------------------------------------
(* Completing a step.                                                       *)

(* get_active_purchase_workflow *)
Active == outcome[1] = "open"

(* _pending_step *)
At(s) == s \in todo[1] /\ \A t \in todo[1] : s <= t
Current(s) == Active /\ At(s)

(* s, and step 2 when the approver of step 1 has it as well.                *)
Done(s) == IF s = 1 /\ same THEN {1} \cup ({2} \cap todo[1]) ELSE {s}

StatusOfAsked(s) == StatusAfter[s]
StatusAsAction(s) == IF s = 7 THEN "upload_bol" ELSE StatusAfter[s]
StatusOn(s) == StatusAfter[Max(Done(s))]

(* _complete_step_record and advance_workflow_after_step *)
Complete(s) ==
    /\ At(s)
    /\ Run!Advance(1) /\ todo'[1] = todo[1] \ Done(s)
    /\ status' = StatusOn(s)

Submitted == {p \in Proformas : proforma[p].state = "submitted"}

AttachedEarly(s) == CASE s = 3 -> \E p \in Proformas : proforma[p].state # "none"
                      [] s = 5 -> "invoice" \in files
                      [] OTHER -> "bol" \in files
Attached(s) == CASE s = 3 -> Submitted # {}
                 [] s = 5 -> "invoice" \in files
                 [] OTHER -> "bol" \in files

(* The steps that are completed for their assignee once their evidence is   *)
(* there: by the page of the request, and by an approval in the inbox.      *)
Repairable(s) == s \in {3, 5, 7} /\ Current(s) /\ Attached(s)

Repair ==
    /\ \E s \in {3, 5, 7} : Repairable(s) /\ Complete(s)
    /\ UNCHANGED <<lines, ordered, proforma, terms, files, paid, stocked, beside, receipt,
                   posting, retreats, same>>

-----------------------------------------------------------------------------
(* Steps 1 and 2.                                                           *)

(* update_purchase_stock_levels *)
FillStock ==
    /\ Current(1) /\ ~lines.filled
    /\ lines' = [lines EXCEPT !.filled = TRUE]
    /\ UNCHANGED <<run, status, ordered, proforma, terms, files, paid, stocked, beside, receipt,
                   posting, retreats, same>>

ConfirmStock ==
    /\ Current(1) /\ lines.filled
    /\ Complete(1)
    /\ UNCHANGED <<lines, ordered, proforma, terms, files, paid, stocked, beside, receipt,
                   posting, retreats, same>>

(* approve_step, which does not ask whether the instance is active.         *)
ApproveRequest ==
    /\ Complete(2)
    /\ UNCHANGED <<lines, ordered, proforma, terms, files, paid, stocked, beside, receipt,
                   posting, retreats, same>>

Replaced == {[version |-> lines.version + 1, filled |-> FALSE, known |-> k] : k \in BOOLEAN}

(* update_purchase_request_lines, by the requester.  The lock it asks is    *)
(* that of the ref_type "request", which has no instance for this row.      *)
UpdateLines ==
    /\ status = "pending" /\ lines.version < MaxEdits
    /\ lines' \in Replaced
    /\ UNCHANGED <<run, status, ordered, proforma, terms, files, paid, stocked, beside, receipt,
                   posting, retreats, same>>

(* delete_request *)
Delete ==
    /\ status = "pending" /\ posting = {}
    /\ Run!Cancel({1})
    /\ status' = "deleted"
    /\ UNCHANGED <<lines, ordered, proforma, terms, files, paid, stocked, beside, receipt,
                   posting, retreats, same>>

-----------------------------------------------------------------------------
(* Steps 3 and 4: the proforma.                                             *)

ItemsOpenByStatus == Active /\ status \in {"awaiting_proforma", "awaiting_invoice"}
ItemsOpen == Current(3)

(* update_purchase_items_at_proforma, by the purchase officer.              *)
UpdateItems ==
    /\ ItemsOpen /\ lines.version < MaxEdits
    /\ lines' \in Replaced
    /\ UNCHANGED <<run, status, ordered, proforma, terms, files, paid, stocked, beside, receipt,
                   posting, retreats, same>>

(* create_proforma, which first repairs the chain.                          *)
CreateProforma(p) ==
    /\ \/ \E s \in {3, 5, 7} : Repairable(s) /\ Complete(s)
       \/ UNCHANGED <<run, status>> /\ \A s \in {3, 5, 7} : ~Repairable(s)
    /\ status' \in {"awaiting_proforma", "proforma_review"}
    /\ proforma[p].state = "none"
    /\ \E a \in Amounts, k \in BOOLEAN :
         proforma' = [proforma EXCEPT ![p] = [state |-> "draft", amount |-> a, supplier |-> k]]
    /\ UNCHANGED <<lines, ordered, terms, files, paid, stocked, beside, receipt, posting, retreats, same>>

(* submit_proforma_for_approval: completes step 3, or whatever else can be  *)
(* repaired; otherwise it is rolled back.                                   *)
SubmitProforma(p) ==
    /\ status = "awaiting_proforma" /\ proforma[p].state = "draft"
    /\ Active
    /\ \E s \in {3, 5, 7} : (s = 3 \/ Repairable(s)) /\ Complete(s)
    /\ proforma' = [proforma EXCEPT ![p].state = "submitted"]
    /\ UNCHANGED <<lines, ordered, terms, files, paid, stocked, beside, receipt, posting, retreats, same>>

ExpectedOfLatest == {proforma[p].amount : p \in {q \in Proformas :
                       proforma[q].state # "none" /\ \A r \in Proformas :
                         proforma[r].state # "none" => r <= q}}
(* _proforma_amount *)
Expected == {proforma[Max(Submitted)].amount : p \in Submitted}

(* validate_ceo_payment_terms: the checks have to add up to the proforma    *)
(* that is submitted; without one they add up to anything.                  *)
ValidTerms(method, total) ==
    method = "check" /\ Expected # {} => total \in Expected

TermsKept(method, total) == terms
TermsOf(method, total) ==
    [method |-> method, total |-> IF method = "check" THEN total ELSE terms.total]

(* approve_step of step 4 and mark_proforma_workflow_approved.              *)
ApproveProforma(method, total) ==
    /\ ValidTerms(method, total)
    /\ Complete(4)
    /\ terms' = TermsOf(method, total)
    /\ LET approved == {Max(Submitted) : p \in Submitted}
           orders == ~ordered /\ \E p \in approved : proforma[p].supplier IN
         /\ proforma' = [p \in Proformas |-> IF p \in approved
                           THEN [proforma[p] EXCEPT !.state = "approved"] ELSE proforma[p]]
         /\ ordered' = (ordered \/ orders)
         /\ lines' = IF orders THEN [lines EXCEPT !.known = TRUE] ELSE lines
    /\ UNCHANGED <<files, paid, stocked, beside, receipt, posting, retreats, same>>

(* create_purchase_order for the request, and ensure_purchase_order_api,    *)
(* which puts the items into the catalogue as well.                         *)
Order ==
    /\ ~ordered /\ status # "deleted"
    /\ ordered' = TRUE
    /\ \E k \in {lines.known, TRUE} : lines' = [lines EXCEPT !.known = k]
    /\ UNCHANGED <<run, status, proforma, terms, files, paid, stocked, beside, receipt, posting, retreats, same>>

-----------------------------------------------------------------------------
(* Steps 5 to 8.                                                            *)

(* upload_purchase_invoice: the file stays when the step is not step 5.     *)
UploadInvoice ==
    /\ status = "awaiting_invoice"
    /\ files' = files \cup {"invoice"}
    /\ IF Current(5) THEN Complete(5) ELSE UNCHANGED <<run, status>>
    /\ UNCHANGED <<lines, ordered, proforma, terms, paid, stocked, beside, receipt, posting, retreats, same>>

(* upload_purchase_payment_slip, upload_step_attachment                     *)
UploadSlip(f) ==
    /\ f \in {"slip", "slip_on_step"} \ files
    /\ IF f = "slip" THEN Current(6) ELSE 6 \in todo[1]
    /\ files' = files \cup {f}
    /\ UNCHANGED <<run, status, lines, ordered, proforma, terms, paid, stocked, beside, receipt,
                   posting, retreats, same>>

MarkPayment ==
    /\ Current(6) /\ {"slip", "slip_on_step"} \cap files # {}
    /\ Complete(6)
    /\ paid' = TRUE
    /\ UNCHANGED <<lines, ordered, proforma, terms, files, stocked, beside, receipt, posting, retreats, same>>

(* mark_invoice_paid without an active chain.                               *)
MarkPaidUnled ==
    /\ status \in {"awaiting_invoice", "awaiting_payment_execution"}
    /\ {"invoice", "slip"} \subseteq files
    /\ ~Active
    /\ status' = "completed" /\ paid' = TRUE
    /\ UNCHANGED <<run, lines, ordered, proforma, terms, files, stocked, beside, receipt, posting, retreats, same>>

(* upload_purchase_bol *)
UploadBol ==
    /\ Current(7)
    /\ files' = files \cup {"bol"}
    /\ Complete(7)
    /\ UNCHANGED <<lines, ordered, proforma, terms, paid, stocked, beside, receipt, posting, retreats, same>>

ConfirmReceipt ==
    /\ Current(8)
    /\ Complete(8)
    /\ UNCHANGED <<lines, ordered, proforma, terms, files, paid, stocked, beside, receipt,
                   posting, retreats, same>>

-----------------------------------------------------------------------------
(* Step 9, and the goods receipts beside it.                                *)

Bump(n) == IF n = 2 THEN 2 ELSE n + 1

WarehouseByStatus == status \in {"awaiting_warehouse_post", "completed"}
WarehouseStep == Current(9)

(* complete_operational_step has loaded the pending step,                   *)
OpenPosting(c) ==
    /\ c \notin posting
    /\ WarehouseStep
    /\ posting' = posting \cup {c}
    /\ beside' = beside \cup (IF posting = {} THEN {} ELSE {"clicks"})
    /\ UNCHANGED <<run, status, lines, ordered, proforma, terms, files, paid, stocked,
                   receipt, retreats, same>>

(* and completes it, whether or not another click did so in the meantime.   *)
(* Items that are not in the catalogue are passed over.                     *)
Post(c) ==
    /\ c \in posting
    /\ posting' = posting \ {c}
    /\ stocked' = IF lines.known THEN Bump(stocked) ELSE stocked
    /\ IF At(9) THEN Complete(9) ELSE status' = "completed" /\ UNCHANGED run
    /\ UNCHANGED <<lines, ordered, proforma, terms, files, paid, beside, receipt, retreats, same>>

(* create_goods_receipt *)
CreateReceipt ==
    /\ status \in {"receiving", "completed"} /\ receipt # "draft"
    /\ receipt' = "draft" /\ status' = "receiving"
    /\ lines' = [lines EXCEPT !.known = TRUE]
    /\ UNCHANGED <<run, ordered, proforma, terms, files, paid, stocked, beside, posting, retreats, same>>

(* post_goods_receipt *)
PostReceipt ==
    /\ receipt = "draft"
    /\ receipt' = "posted" /\ status' = "completed" /\ beside' = beside \cup {"receipt"}
    /\ UNCHANGED <<run, lines, ordered, proforma, terms, files, paid, stocked, posting, retreats, same>>

(* cancel_goods_receipt *)
CancelReceipt ==
    /\ receipt = "draft"
    /\ receipt' = "cancelled"
    /\ UNCHANGED <<run, status, lines, ordered, proforma, terms, files, paid, stocked, beside,
                   posting, retreats, same>>

(* receive_po enters the items of the order, as often as it is asked, and   *)
(* asks nothing of the request or its chain.                                *)
ReceiveOrder ==
    /\ ordered
    /\ beside' = beside \cup {"order"}
    /\ UNCHANGED <<run, status, lines, ordered, proforma, terms, files, paid, stocked,
                   receipt, posting, retreats, same>>

(* The step that waits has not been decided again since the one above it    *)
(* was rejected.                                                            *)
Retreating == \E s \in Steps \ (todo[1] \cup passed[1]) : \E t \in todo[1] : t < s

(* reject_step: nothing but the chain changes.  A rejection that meets an   *)
(* open posting is the subject of WorkflowRaces.                            *)
Reject ==
    /\ retreats' = retreats + IF Retreating THEN 0 ELSE 1
    /\ retreats' <= MaxRetreats
    /\ posting = {}
    /\ Run!SendBack(1)
    /\ UNCHANGED <<status, lines, ordered, proforma, terms, files, paid, stocked, beside, receipt, posting, same>>

Payments == {<<"cash", 0>>} \cup ({"check"} \X Amounts)

(* What brings the chain forward.                                           *)
Progress ==
    \/ FillStock \/ ConfirmStock \/ ApproveRequest
    \/ \E p \in Proformas : CreateProforma(p) \/ SubmitProforma(p)
    \/ \E t \in Payments : ApproveProforma(t[1], t[2])
    \/ UploadInvoice \/ UploadSlip("slip")
    \/ MarkPayment \/ UploadBol \/ ConfirmReceipt
    \/ \E c \in Clicks : OpenPosting(c) \/ Post(c)
    \/ Repair

(* What else happens beside it.                                             *)
Beside ==
    \/ UploadSlip("slip_on_step") \/ UpdateLines \/ UpdateItems \/ Order \/ Delete
    \/ Reject \/ MarkPaidUnled
    \/ CreateReceipt \/ PostReceipt \/ CancelReceipt \/ ReceiveOrder

Next == Progress \/ Beside

Spec == Init /\ [][Next]_vars

-----------------------------------------------------------------------------
(* Whichever way a step was completed, by its handler, from the inbox or by *)
(* the page of the request, what it is about is there.                      *)
DoneHasEvidence ==
    /\ 3 \in passed[1] => \E p \in Proformas : proforma[p].state \in {"submitted", "approved"}
    /\ 5 \in passed[1] => "invoice" \in files
    /\ 6 \in passed[1] => paid /\ {"slip", "slip_on_step"} \cap files # {}
    /\ 7 \in passed[1] => "bol" \in files

(* The items the CEO approved stay as they are while that approval stands.  *)
LinesFixedByCeo == [][4 \in passed[1] => lines'.version = lines.version]_vars

(* No step was rejected, and no goods receipt opened, so far.               *)
Straight == retreats = 0 /\ receipt = "none"

(* As long as nothing is rejected, the status shown for the request is that *)
(* of the step it waits for, whoever completed the last one and from where. *)
StatusFollowsChain ==
    Straight /\ Active => \E s \in Steps : At(s) /\ status = IF s = 1 THEN "awaiting_stock"
                                                             ELSE StatusAfter[s - 1]

(* As long as nothing is rejected, a check plan adds up to the proforma that *)
(* was approved, also when a later one was submitted or drafted.            *)
ChecksMatchProforma ==
    Straight /\ terms.method = "check" /\ 4 \in passed[1] =>
        \E p \in Proformas : proforma[p].state = "approved" /\ proforma[p].amount = terms.total

(* As long as nothing is rejected, nothing is paid before its payment terms *)
(* and its invoice are approved.                                            *)
PaidAsApproved ==
    Straight /\ paid => terms.method # "none" /\ {4, 5} \subseteq passed[1]

(* As long as nothing is rejected, an active chain has something to wait    *)
(* for: one of the operations of its step can be called.                    *)
CanProceed == Straight /\ Active => ENABLED Progress

(* Whatever is rejected before, ordered and received beside it, the chain   *)
(* enters the goods in the stock once, unless two clicks had loaded its     *)
(* last step at once.  A received order and a posted receipt enter them     *)
(* once more.  (A rejection does not fall into a posting here, see Reject.)  *)
PostedOnce == stocked > 1 => "clicks" \in beside

(* What the chain entered ended it: no rejection, deletion or late click    *)
(* brings a step of it back.                                                *)
GoodsInAtTheEnd == stocked > 0 => outcome[1] = "approved" /\ todo[1] = {}

(* Whatever is rejected: steps have their evidence, and the chain enters    *)
(* the goods when it is over, and once.                                     *)
DoneAsAsked == TypeOK /\ DoneHasEvidence /\ PostedOnce /\ GoodsInAtTheEnd

(* As long as nothing is rejected, request, terms and chain go together.    *)
StraightAsPlanned == StatusFollowsChain /\ ChecksMatchProforma /\ PaidAsApproved
=============================================================================
