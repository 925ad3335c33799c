---------------------------- MODULE GoodsReceipts ----------------------------
(***************************************************************************)
(* The goods receipts of one paid purchase request (procurement/            *)
(* goods_receipt_service.py and its routes): a draft with lines, to which   *)
(* the invoice is attached, is posted, which books its lines and completes  *)
(* the request, or cancelled.  A handler reads its receipt and writes at    *)
(* its commit; other handlers may commit in between.                        *)
(***************************************************************************)
EXTENDS Integers, FiniteSets, FiniteSetsExt, Sequences

CONSTANTS Receipts,  \* ids of the receipts, given out in their order
          Keepers,   \* concurrent HTTP requests
          MaxGrnLines \* bound: line sets ever written

ASSUME ReceiptsAssumption ==
    Receipts \subseteq Nat \ {0} /\ IsFiniteSet(Receipts) /\ MaxGrnLines \in Nat

VARIABLES
    grn,      \* grn[g]: the row and its lines
    invoiced,  \* receipts with an invoice attached
    booked,    \* booked[g]: the lines that entered the stock, one set for each posting
    request,   \* status of the request
    drawn,     \* line sets written so far; their lines are named 1, 2, ...
    keeper,    \* keeper[k]: what the request of k has read
    busy       \* requests overlap

receiptsVars == <<grn, invoiced, booked, request, drawn, keeper, busy>>

NoReceipt == [status |-> "none", no |-> 0, lines |-> {}]
Resting == [op |-> "none", g |-> 0, no |-> 0, seen |-> NoReceipt]

Filed == {g \in Receipts : grn[g].status # "none"}
InState(status) == {g \in Receipts : grn[g].status = status}

ReceiptsTypeOK ==
    /\ grn \in [Receipts -> [status : {"none", "draft", "posted", "cancelled"},
                                 no : 0..Cardinality(Receipts), lines : SUBSET (1..drawn)]]
    /\ invoiced \subseteq Filed
    /\ \A g \in Receipts : Len(booked[g]) <= 2
    /\ request \in {"receiving", "completed", "other"}
    /\ drawn \in 0..MaxGrnLines

(* The request is paid for, or was completed by the last step of its chain. *)
ReceiptsInit ==
    /\ grn = [g \in Receipts |-> NoReceipt]
    /\ invoiced = {} /\ booked = [g \in Receipts |-> <<>>]
    /\ request \in {"receiving", "completed", "other"}
    /\ drawn = 0
    /\ keeper = [k \in Keepers |-> Resting]
    /\ busy \in BOOLEAN

-----------------------------------------------------------------------------

Asks(k) == keeper[k] = Resting /\ (busy \/ \A j \in Keepers : keeper[j] = Resting)
Looks(k, what) == keeper' = [keeper EXCEPT ![k] = what]
Finishes(k) == Looks(k, Resting)
TurnedDown(k) == Finishes(k) /\ UNCHANGED <<grn, invoiced, booked, request, drawn>>

(* _next_grn_no: the count and one; receipts are never deleted.             *)
NextGrnNo == Cardinality(Filed) + 1

Unfiled == Receipts \ Filed

(* create_goods_receipt: what it asks of the request and of its receipts.   *)
Receivable == request # "other" /\ InState("draft") = {}

BeginReceipt(k) ==
    /\ UNCHANGED busy
    /\ Asks(k) /\ Unfiled # {}
    /\ Receivable
    /\ Looks(k, [Resting EXCEPT !.op = "create", !.no = NextGrnNo])
    /\ UNCHANGED <<grn, invoiced, booked, request, drawn>>

(* The lines are those given, or those of the request; there is at least    *)
(* one.  The request is received again.                                     *)
CommitReceipt(k) ==
    LET no == keeper[k].no IN
    /\ UNCHANGED busy
    /\ keeper[k].op = "create"
    /\ \/ \E g \in Filed : grn[g].no = no /\ TurnedDown(k)
       \/ /\ \A g \in Filed : grn[g].no # no
          /\ Unfiled # {} /\ drawn < MaxGrnLines
          /\ grn' = [grn EXCEPT ![Min(Unfiled)] =
                           [status |-> "draft", no |-> no, lines |-> {drawn + 1}]]
          /\ drawn' = drawn + 1
          /\ request' = "receiving"
          /\ Finishes(k)
          /\ UNCHANGED <<invoiced, booked>>

(* upload_grn_invoice, update_goods_receipt, post_goods_receipt and         *)
(* cancel_goods_receipt: the receipt is read and its status checked.        *)
ReadyUninvoiced(g) == grn[g].status = "draft" /\ grn[g].lines # {}
Ready(g) == grn[g].status = "draft" /\ g \in invoiced /\ grn[g].lines # {}

MayPost(g) == Ready(g)
CancelledAnyway(g) == g \in Filed
MayCancel(g) == grn[g].status \in {"draft", "cancelled"}

BeginOn(k, op, g) ==
    /\ UNCHANGED busy
    /\ Asks(k)
    /\ CASE op \in {"invoice", "update"} -> grn[g].status = "draft"
         [] op = "post" -> MayPost(g)
         [] op = "cancel" -> MayCancel(g)
    /\ Looks(k, [Resting EXCEPT !.op = op, !.g = g, !.seen = grn[g]])
    /\ UNCHANGED <<grn, invoiced, booked, request, drawn>>

CommitInvoice(k) ==
    /\ UNCHANGED busy
    /\ keeper[k].op = "invoice"
    /\ invoiced' = invoiced \cup {keeper[k].g}
    /\ Finishes(k)
    /\ UNCHANGED <<grn, booked, request, drawn>>

(* The lines that were there when the request came are replaced by those    *)
(* given, if any are given; an empty list empties the receipt.              *)
CommitLines(k) ==
    LET g == keeper[k].g IN
    /\ UNCHANGED busy
    /\ keeper[k].op = "update"
    /\ \E n \in {0, 1} :
         /\ drawn + n <= MaxGrnLines
         /\ drawn' = drawn + n
         /\ grn' = [grn EXCEPT ![g].lines =
                          (@ \ keeper[k].seen.lines) \cup IF n = 1 THEN {drawn'} ELSE {}]
    /\ Finishes(k)
    /\ UNCHANGED <<invoiced, booked, request>>

(* All lines that were read enter the stock in one transaction.             *)
CommitPosting(k) ==
    LET g == keeper[k].g IN
    /\ UNCHANGED busy
    /\ keeper[k].op = "post"
    /\ Len(booked[g]) < 2
    /\ booked' = [booked EXCEPT ![g] = Append(@, keeper[k].seen.lines)]
    /\ grn' = [grn EXCEPT ![g].status = "posted"]
    /\ request' = "completed"
    /\ Finishes(k)
    /\ UNCHANGED <<invoiced, drawn>>

(* A status that was "cancelled" already is not written.                    *)
CommitCancelling(k) ==
    LET g == keeper[k].g IN
    /\ UNCHANGED busy
    /\ keeper[k].op = "cancel"
    /\ grn' = [grn EXCEPT ![g].status = IF keeper[k].seen.status = "cancelled" THEN @ ELSE "cancelled"]
    /\ Finishes(k)
    /\ UNCHANGED <<invoiced, booked, request, drawn>>

ReceiptsNext ==
    \E k \in Keepers :
        \/ BeginReceipt(k) \/ CommitReceipt(k)
        \/ \E op \in {"invoice", "update", "post", "cancel"}, g \in Receipts : BeginOn(k, op, g)
        \/ CommitInvoice(k) \/ CommitLines(k) \/ CommitPosting(k) \/ CommitCancelling(k)

ReceiptsSpec == ReceiptsInit /\ [][ReceiptsNext]_receiptsVars

-----------------------------------------------------------------------------
(* However requests overlap: the types; numbers differ, the next one is     *)
(* free, and what entered the stock, or says it did, has an invoice.        *)
BookedHasInvoice ==
    /\ ReceiptsTypeOK
    /\ \A g, h \in Filed : grn[g].no = grn[h].no => g = h
    /\ \A g \in Filed : grn[g].no # NextGrnNo
    /\ \A g \in Receipts : booked[g] # <<>> => g \in invoiced
    /\ \A g \in InState("posted") : booked[g] # <<>>

(* One request at a time: the stock got the lines of each posted receipt,   *)
(* once, and nothing else; the request says whether goods are on their way. *)
BookedAsPosted ==
    ~busy => /\ \A g \in Receipts : booked[g] = IF grn[g].status = "posted"
                                                THEN <<grn[g].lines>> ELSE <<>>
             /\ Cardinality(InState("draft")) <= 1
             /\ InState("draft") # {} => request = "receiving"

(* Both: what entered the stock has an invoice and is what was posted.      *)
ReceiptsAddUp == BookedHasInvoice /\ BookedAsPosted

(* One request at a time: a receipt that is posted stays as it is.          *)
PostedStays ==
    [][\A g \in InState("posted") : ~busy => grn'[g] = grn[g] /\ booked'[g] = booked[g]]_receiptsVars
=============================================================================
