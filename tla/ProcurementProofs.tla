--------------------------- MODULE ProcurementProofs ---------------------------
(***************************************************************************)
(* Proofs about purchases and what they use, for all constants.             *)
(*   PurchaseWorkflow, for all proformas, amounts and clicks, and any number*)
(* of rejections and edits: every step that is done has what it is about,   *)
(* the CEO's items are fixed, the goods come in once, and as long as nothing*)
(* is rejected the request, its terms and its chain go together.            *)
(*   PurchaseOrders, GoodsReceipts, Catalogue and BankAccounts, for any     *)
(* number of requests, overlapping or not: the numbers of orders and of     *)
(* receipts, the goods in the stock, the groups of items and the default    *)
(* accounts.                                                                *)
(***************************************************************************)
EXTENDS PurchaseWorkflow, PurchaseOrders, GoodsReceipts, Catalogue, BankAccounts,
        FiniteSetTheorems, TLAPS

-----------------------------------------------------------------------------
(* The greatest and the least element of a set.                             *)

(* The least element: the id that is given out next.                        *)
LEMMA MinOf ==
    ASSUME NEW S \in SUBSET Nat, S # {}
    PROVE  Min(S) \in S /\ \A y \in S : Min(S) <= y
  <1> DEFINE R == OpToRel(<, Nat)
  <1>1. PICK m \in S : \A y \in S : ~ (<<y, m>> \in R)
    <2>1. IsWellFoundedOn(R, Nat)
      BY NatLessThanWellFounded
    <2> HIDE DEF R
    <2>2. QED
      BY <2>1, WFMin
  <1>2. \A y \in S : ~ (y < m)
    BY <1>1 DEF OpToRel
  <1>9. \A y \in S : m <= y
    BY <1>2
  <1>3. \E x \in S : \A y \in S : x <= y
    BY <1>9
  <1>4. QED
    BY <1>3, Zenon DEF Min

(* A greatest element is the one Max returns.                               *)
LEMMA MaxIs ==
    ASSUME NEW S \in SUBSET Nat, NEW m \in S, \A p \in S : p <= m
    PROVE  Max(S) = m
  <1>1. \E x \in S : \A y \in S : x >= y
    OBVIOUS
  <1>2. Max(S) \in S /\ \A y \in S : Max(S) >= y
    BY <1>1, Zenon DEF Max
  <1>3. Max(S) <= m /\ Max(S) >= m /\ Max(S) \in Nat
    BY <1>2
  <1>4. QED
    BY <1>3

(* A finite set of numbers has one: a smallest set without would have one   *)
(* element less and be smaller still.                                       *)
LEMMA MaxOfFinite ==
    ASSUME NEW S \in SUBSET Nat, IsFiniteSet(S), S # {}
    PROVE  Max(S) \in S /\ \A p \in S : p <= Max(S)
  <1> DEFINE HasMax(U) == \E m \in U : \A p \in U : p <= m
             Without == {U \in SUBSET S : U # {} /\ ~HasMax(U)}
             Sizes == {Cardinality(U) : U \in Without}
             R == OpToRel(<, Nat)
  <1>1. \A U \in Without : IsFiniteSet(U) /\ Cardinality(U) \in Nat
    BY FS_Subset, FS_CardinalityType
  <1>2. Without = {}
    <2> SUFFICES ASSUME Without # {} PROVE FALSE
      OBVIOUS
    <2>1. Sizes \subseteq Nat /\ Sizes # {}
      BY <1>1
    <2>2. PICK n \in Sizes : \A k \in Sizes : ~ (<<k, n>> \in R)
      <3>1. IsWellFoundedOn(R, Nat)
        BY NatLessThanWellFounded
      <3> HIDE DEF Sizes, R
      <3>2. QED
        BY <2>1, <3>1, WFMin
    <2>3. \A k \in Sizes : ~ (k < n)
      BY <2>1, <2>2 DEF OpToRel
    <2>4. PICK U \in Without : n = Cardinality(U)
      OBVIOUS
    <2>5. PICK x \in U : TRUE
      BY <2>4
    <2> DEFINE V == U \ {x}
    <2>6. IsFiniteSet(V) /\ Cardinality(V) = n - 1 /\ n \in Nat
      BY <1>1, <2>4, FS_RemoveElement
    <2>7. V \notin Without
      <3>1. V \in Without => n - 1 \in Sizes
        BY <2>6
      <3>2. n - 1 < n
        BY <2>6
      <3> HIDE DEF Without, Sizes, V
      <3>3. QED
        BY <2>3, <3>1, <3>2
    <2>8. CASE V = {}
      <3>1. \A p \in U : p = x
        BY <2>8
      <3>2. x \in Nat
        BY <2>4, <2>5
      <3>3. HasMax(U)
        BY <3>1, <3>2
      <3>4. QED
        BY <2>4, <3>3
    <2>9. CASE HasMax(V)
      <3>1. PICK m \in V : \A p \in V : p <= m
        BY <2>9
      <3>2. U \subseteq Nat
        BY <2>4
      <3>3. \A p \in U : p = x \/ p <= m
        BY <3>1
      <3>4. CASE x <= m
        <4>1. \A p \in U : p <= m
          BY <3>2, <3>3, <3>4
        <4>2. QED
          BY <2>4, <3>1, <4>1
      <3>5. CASE ~(x <= m)
        <4>1. \A p \in U : p <= x
          BY <3>1, <3>2, <3>3, <3>5
        <4>2. QED
          BY <2>4, <2>5, <4>1
      <3>6. QED
        BY <3>4, <3>5
    <2>10. QED
      BY <2>4, <2>7, <2>8, <2>9
  <1>3. HasMax(S)
    BY <1>2
  <1>4. PICK m \in S : \A p \in S : p <= m
    BY <1>3
  <1>5. Max(S) = m
    BY <1>4, MaxIs
  <1>6. QED
    BY <1>4, <1>5

-----------------------------------------------------------------------------
(* The chain of the request.                                                *)

ChainOK ==
    /\ outcome \in [{1} -> Run!Outcomes] /\ chain = <<Steps>>
    /\ todo \in [{1} -> SUBSET Steps] /\ passed \in [{1} -> SUBSET Steps]

(* What is approved comes before what is to be decided.                     *)
DecidedBelow == \A s \in passed[1], t \in todo[1] : s < t

(* What the completion of step s does to the chain and to the request.      *)
LEMMA CompleteFacts ==
    ASSUME ChainOK, NEW s \in Steps, Complete(s)
    PROVE  /\ ChainOK'
           /\ s \in todo[1] /\ \A t \in todo[1] : s <= t
           /\ outcome[1] \in {"open", "returned"}
           /\ outcome'[1] = IF todo[1] = Done(s) THEN "approved" ELSE outcome[1]
           /\ todo'[1] = todo[1] \ Done(s)
           /\ passed'[1] = passed[1] \cup Done(s)
           /\ s \in Done(s) /\ Done(s) \subseteq todo[1]
           /\ \A d \in Done(s), t \in todo'[1] : d < t
           /\ status' = StatusOn(s)
  <1>1. /\ At(s) /\ Run!Advance(1) /\ todo'[1] = todo[1] \ Done(s) /\ status' = StatusOn(s)
    BY DEF Complete
  <1>2. s \in todo[1] /\ \A t \in todo[1] : s <= t
    BY <1>1 DEF At
  <1>3. s \in Done(s) /\ Done(s) \subseteq todo[1]
    BY <1>2 DEF Done
  <1>4. PICK d \in SUBSET todo[1] :
          /\ outcome[1] \in {"open", "returned"}
          /\ \A e \in d, t \in todo[1] \ d : e < t
          /\ outcome' = IF todo[1] = d THEN [outcome EXCEPT ![1] = "approved"] ELSE outcome
          /\ todo' = [todo EXCEPT ![1] = @ \ d]
          /\ passed' = [passed EXCEPT ![1] = @ \cup d]
          /\ UNCHANGED chain
    BY <1>1 DEF Run!Advance
  <1>5. todo'[1] = todo[1] \ d
    BY <1>4 DEF ChainOK
  <1>6. d = Done(s)
    BY <1>1, <1>3, <1>5
  <1>7. todo[1] \in SUBSET Steps /\ passed[1] \in SUBSET Steps
    BY DEF ChainOK
  <1>8. outcome' \in [{1} -> Run!Outcomes]
    BY <1>4 DEF ChainOK, Run!Outcomes
  <1>9. todo' \in [{1} -> SUBSET Steps] /\ passed' \in [{1} -> SUBSET Steps]
    BY <1>4, <1>7 DEF ChainOK
  <1>10. outcome'[1] = IF todo[1] = d THEN "approved" ELSE outcome[1]
    BY <1>4 DEF ChainOK
  <1>11. passed'[1] = passed[1] \cup d
    BY <1>4 DEF ChainOK
  <1>12. QED
    BY <1>1, <1>2, <1>3, <1>4, <1>5, <1>6, <1>8, <1>9, <1>10, <1>11 DEF ChainOK

(* The status that a completed step leaves.                                 *)
LEMMA StatusOnFacts ==
    ASSUME ChainOK, NEW s \in Steps
    PROVE  /\ s = 1 /\ 2 \in Done(s) => Done(s) = {1, 2} /\ StatusOn(s) = StatusAfter[2]
           /\ ~(s = 1 /\ 2 \in Done(s)) => Done(s) = {s} /\ StatusOn(s) = StatusAfter[s]
  <1>1. s \in Nat
    BY DEF Steps
  <1>2. CASE s = 1 /\ 2 \in Done(s)
    <2>1. Done(s) = {1, 2}
      BY <1>2 DEF Done
    <2>2. Max({1, 2}) = 2
      BY MaxIs
    <2>3. QED
      BY <1>2, <2>1, <2>2 DEF StatusOn
  <1>3. CASE ~(s = 1 /\ 2 \in Done(s))
    <2>1. Done(s) = {s}
      BY <1>3 DEF Done
    <2>2. Max({s}) = s
      BY <1>1, MaxIs
    <2>3. QED
      BY <1>3, <2>1, <2>2 DEF StatusOn
  <1>4. QED
    BY <1>2, <1>3

(* A rejection drops the lowest step and makes the one before it pending.   *)
LEMMA SendBackFacts ==
    ASSUME ChainOK, Run!SendBack(1)
    PROVE  \E s \in todo[1] :
             /\ ChainOK'
             /\ s \in Steps /\ \A t \in todo[1] : s <= t
             /\ outcome[1] \in {"open", "returned"}
             /\ outcome'[1] = IF s = 1 THEN "returned" ELSE "open"
             /\ todo'[1] = (todo[1] \ {s}) \cup ({s - 1} \ {0})
             /\ passed'[1] = passed[1] \ {s - 1}
  <1>1. PICK s \in todo[1] :
          /\ outcome[1] \in {"open", "returned"}
          /\ \A t \in todo[1] : s <= t
          /\ outcome' = [outcome EXCEPT ![1] = IF Run!Before(1, s) = {} THEN "returned" ELSE "open"]
          /\ todo' = [todo EXCEPT ![1] = (@ \ {s}) \cup Run!Before(1, s)]
          /\ passed' = [passed EXCEPT ![1] = @ \ Run!Before(1, s)]
          /\ UNCHANGED chain
    BY DEF Run!SendBack
  <1>2. s \in Steps /\ todo[1] \in SUBSET Steps /\ passed[1] \in SUBSET Steps
    BY DEF ChainOK
  <1>3. chain[1] = 1..9
    BY DEF ChainOK, Steps
  <1>4. Run!Before(1, s) = {s - 1} \ {0}
    <2>1. Run!Before(1, s) = {p \in 1..9 : p < s /\ \A q \in 1..9 : q < s => q <= p}
      BY <1>3 DEF Run!Before
    <2>2. s \in 1..9
      BY <1>2 DEF Steps
    <2>3. \A p \in 1..9 : (p < s /\ \A q \in 1..9 : q < s => q <= p) <=> p = s - 1
      BY <2>2
    <2>4. QED
      BY <2>1, <2>2, <2>3
  <1>5. (({s - 1} \ {0}) = {}) <=> (s = 1)
    BY <1>2 DEF Steps
  <1>6. outcome'[1] = IF s = 1 THEN "returned" ELSE "open"
    BY <1>1, <1>4, <1>5 DEF ChainOK
  <1>7. todo'[1] = (todo[1] \ {s}) \cup ({s - 1} \ {0})
    BY <1>1, <1>4 DEF ChainOK
  <1>8. passed'[1] = passed[1] \ {s - 1}
    <2>1. passed'[1] = passed[1] \ ({s - 1} \ {0})
      BY <1>1, <1>4 DEF ChainOK
    <2>2. 0 \notin passed[1]
      BY <1>2 DEF Steps
    <2>3. QED
      BY <2>1, <2>2
  <1>9. ({s - 1} \ {0}) \subseteq Steps
    BY <1>2 DEF Steps
  <1>10. outcome' \in [{1} -> Run!Outcomes]
    BY <1>1 DEF ChainOK, Run!Outcomes
  <1>11. todo' \in [{1} -> SUBSET Steps]
    <2>1. (todo[1] \ {s}) \cup Run!Before(1, s) \in SUBSET Steps
      BY <1>2, <1>4, <1>9
    <2>2. QED
      BY <1>1, <2>1 DEF ChainOK
  <1>12. passed' \in [{1} -> SUBSET Steps]
    BY <1>1, <1>2 DEF ChainOK
  <1>13. QED
    BY <1>1, <1>2, <1>6, <1>7, <1>8, <1>10, <1>11, <1>12 DEF ChainOK

(* A deletion ends the chain before anything is approved.                   *)
LEMMA CancelFacts ==
    ASSUME ChainOK, Run!Cancel({1})
    PROVE  ChainOK' /\ passed[1] = {} /\ UNCHANGED passed /\ todo'[1] = {} /\ outcome'[1] \in {"none", "cancelled"}
  BY DEF ChainOK, Run!Cancel, Run!Outcomes

-----------------------------------------------------------------------------
(* What is done has what it is about.                                       *)

(* What the completion of step k is to leave behind.                        *)
HasEvidence(k) ==
    /\ k = 3 => \E p \in Proformas : proforma[p].state \in {"submitted", "approved"}
    /\ k = 5 => "invoice" \in files
    /\ k = 6 => paid /\ {"slip", "slip_on_step"} \cap files # {}
    /\ k = 7 => "bol" \in files

(* The CEO's terms and the posting of the goods complete steps of their own. *)
CompletedBy(s) ==
    /\ Complete(s) /\ HasEvidence(s)'
    /\ s = 4 => \E x \in Payments : ApproveProforma(x[1], x[2])
    /\ s = 9 => \E c \in Clicks : Post(c)

(* A step is completed by the action that has its evidence; the rest does   *)
(* not touch the chain, rejects a step, or deletes the request.             *)
LEMMA RunMoves ==
    ASSUME TypeOK, [Next]_vars
    PROVE  \/ UNCHANGED run
           \/ \E s \in Steps : CompletedBy(s)
           \/ Reject \/ Delete
  <1>1. {1, 2, 3, 4, 5, 6, 7, 8, 9} = Steps
    BY DEF Steps
  <1>2. ASSUME NEW s \in {3, 5, 7}, Repairable(s), files \subseteq files',
               \A p \in Submitted : proforma'[p].state = "submitted"
        PROVE  HasEvidence(s)'
    BY <1>2 DEF Repairable, Attached, HasEvidence, Submitted
  <1>3. CASE Repair
    <2>1. PICK s \in {3, 5, 7} : Repairable(s) /\ Complete(s)
      BY <1>3 DEF Repair
    <2>2. HasEvidence(s)'
      BY <1>2, <1>3, <2>1 DEF Repair, Submitted
    <2>3. QED
      BY <1>1, <2>1, <2>2 DEF CompletedBy
  <1>4. CASE ConfirmStock \/ ApproveRequest \/ ConfirmReceipt
    <2>1. Complete(1) \/ Complete(2) \/ Complete(8)
      BY <1>4 DEF ConfirmStock, ApproveRequest, ConfirmReceipt
    <2>2. HasEvidence(1)' /\ HasEvidence(2)' /\ HasEvidence(8)'
      BY DEF HasEvidence
    <2>3. QED
      BY <1>1, <2>1, <2>2 DEF CompletedBy
  <1>5. ASSUME NEW p \in Proformas, CreateProforma(p)
        PROVE  UNCHANGED run \/ \E s \in Steps : CompletedBy(s)
    <2>1. CASE UNCHANGED run
      BY <2>1
    <2>2. CASE \E s \in {3, 5, 7} : Repairable(s) /\ Complete(s)
      <3>1. PICK s \in {3, 5, 7} : Repairable(s) /\ Complete(s)
        BY <2>2
      <3>2. \A q \in Submitted : proforma'[q].state = "submitted"
        BY <1>5 DEF CreateProforma, Submitted, TypeOK
      <3>3. HasEvidence(s)'
        BY <1>2, <1>5, <3>1, <3>2 DEF CreateProforma
      <3>4. QED
        BY <1>1, <3>1, <3>3 DEF CompletedBy
    <2>3. QED
      BY <1>5, <2>1, <2>2 DEF CreateProforma
  <1>6. ASSUME NEW p \in Proformas, SubmitProforma(p)
        PROVE  \E s \in Steps : CompletedBy(s)
    <2>1. PICK s \in {3, 5, 7} : (s = 3 \/ Repairable(s)) /\ Complete(s)
      BY <1>6 DEF SubmitProforma
    <2>2. proforma'[p].state = "submitted"
      BY <1>6 DEF SubmitProforma, TypeOK
    <2>3. \A q \in Submitted : proforma'[q].state = "submitted"
      BY <1>6 DEF SubmitProforma, Submitted, TypeOK
    <2>4. HasEvidence(s)'
      <3>1. CASE s = 3
        BY <2>2, <3>1 DEF HasEvidence
      <3>2. CASE Repairable(s)
        BY <1>2, <1>6, <2>3, <3>2 DEF SubmitProforma
      <3>3. QED
        BY <2>1, <3>1, <3>2
    <2>5. QED
      BY <1>1, <2>1, <2>4 DEF CompletedBy
  <1>7. ASSUME NEW x \in Payments, ApproveProforma(x[1], x[2])
        PROVE  Complete(4) /\ HasEvidence(4)'
    BY <1>7 DEF ApproveProforma, HasEvidence
  <1>8. CASE UploadInvoice
    <2>1. Complete(5) \/ UNCHANGED run
      BY <1>8 DEF UploadInvoice
    <2>2. HasEvidence(5)'
      BY <1>8 DEF UploadInvoice, HasEvidence
    <2>3. QED
      BY <1>1, <2>1, <2>2 DEF CompletedBy
  <1>9. CASE MarkPayment
    <2>1. Complete(6) /\ HasEvidence(6)'
      BY <1>9 DEF MarkPayment, HasEvidence
    <2>2. QED
      BY <1>1, <2>1 DEF CompletedBy
  <1>10. CASE UploadBol
    <2>1. Complete(7) /\ HasEvidence(7)'
      BY <1>10 DEF UploadBol, HasEvidence
    <2>2. QED
      BY <1>1, <2>1 DEF CompletedBy
  <1>11. ASSUME NEW c \in Clicks, Post(c)
         PROVE  UNCHANGED run \/ (Complete(9) /\ HasEvidence(9)')
    <2>1. Complete(9) \/ UNCHANGED run
      BY <1>11 DEF Post
    <2>2. HasEvidence(9)'
      BY DEF HasEvidence
    <2>3. QED
      BY <2>1, <2>2
  <1>12. ASSUME \/ FillStock \/ UploadSlip("slip") \/ UploadSlip("slip_on_step")
                \/ (\E c \in Clicks : OpenPosting(c)) \/ UpdateLines \/ UpdateItems \/ Order
                \/ MarkPaidUnled \/ CreateReceipt \/ PostReceipt \/ CancelReceipt \/ ReceiveOrder
                \/ UNCHANGED vars
         PROVE  UNCHANGED run
    BY <1>12 DEF FillStock, UploadSlip, OpenPosting, UpdateLines, UpdateItems, Order,
                 MarkPaidUnled, CreateReceipt, PostReceipt, CancelReceipt, ReceiveOrder, vars
  <1>13. QED
    BY <1>1, <1>3, <1>4, <1>5, <1>6, <1>7, <1>8, <1>9, <1>10, <1>11, <1>12
       DEF Next, Progress, Beside, CompletedBy

(* Submitted proformas, files and payments stay.                            *)
LEMMA EvidenceStays ==
    ASSUME TypeOK, [Next]_vars
    PROVE  /\ files \subseteq files' /\ (paid => paid')
           /\ \A p \in Proformas : /\ proforma[p].state \in {"submitted", "approved"} =>
                                        proforma'[p].state \in {"submitted", "approved"}
                                   /\ proforma[p].state = "approved" => proforma'[p] = proforma[p]
  <1> DEFINE Stays == \A p \in Proformas :
               /\ proforma[p].state \in {"submitted", "approved"} =>
                    proforma'[p].state \in {"submitted", "approved"}
               /\ proforma[p].state = "approved" => proforma'[p] = proforma[p]
  <1>1. ASSUME NEW p \in Proformas, CreateProforma(p)
        PROVE  Stays /\ UNCHANGED <<files, paid>>
    <2>1. proforma[p].state = "none" /\ \A q \in Proformas : q # p => proforma'[q] = proforma[q]
      BY <1>1 DEF CreateProforma, TypeOK
    <2>2. QED
      BY <1>1, <2>1 DEF CreateProforma
  <1>2. ASSUME NEW p \in Proformas, SubmitProforma(p)
        PROVE  Stays /\ UNCHANGED <<files, paid>>
    <2>1. proforma[p].state = "draft" /\ \A q \in Proformas : q # p => proforma'[q] = proforma[q]
      BY <1>2 DEF SubmitProforma, TypeOK
    <2>2. QED
      BY <1>2, <2>1 DEF SubmitProforma
  <1>3. ASSUME NEW x \in Payments, ApproveProforma(x[1], x[2])
        PROVE  Stays /\ UNCHANGED <<files, paid>>
    <2>1. PICK approved :
            proforma' = [p \in Proformas |-> IF p \in approved
                           THEN [proforma[p] EXCEPT !.state = "approved"] ELSE proforma[p]]
      BY <1>3 DEF ApproveProforma
    <2>2. \A p \in Proformas : proforma'[p] = proforma[p] \/ proforma'[p].state = "approved"
      BY <2>1 DEF TypeOK
    <2>3. \A p \in Proformas : proforma[p].state = "approved" => proforma'[p] = proforma[p]
      <3>1. ASSUME NEW p \in Proformas, proforma[p].state = "approved"
            PROVE  [proforma[p] EXCEPT !.state = "approved"] = proforma[p]
        BY <3>1 DEF TypeOK
      <3>2. QED
        BY <2>1, <3>1
    <2>4. QED
      BY <1>3, <2>2, <2>3 DEF ApproveProforma
  <1>4. ASSUME UNCHANGED proforma PROVE Stays
    BY <1>4
  <1>5. ASSUME \/ UploadInvoice \/ UploadSlip("slip") \/ UploadSlip("slip_on_step") \/ MarkPayment
               \/ UploadBol \/ MarkPaidUnled
        PROVE  /\ UNCHANGED proforma /\ files \subseteq files' /\ (paid => paid')
    BY <1>5 DEF UploadInvoice, UploadSlip, MarkPayment, UploadBol, MarkPaidUnled
  <1>6. ASSUME \/ FillStock \/ ConfirmStock \/ ApproveRequest \/ ConfirmReceipt \/ Repair
               \/ (\E c \in Clicks : OpenPosting(c) \/ Post(c))
               \/ UpdateLines \/ UpdateItems \/ Order \/ Delete \/ Reject
               \/ CreateReceipt \/ PostReceipt \/ CancelReceipt \/ ReceiveOrder \/ UNCHANGED vars
        PROVE  UNCHANGED <<proforma, files, paid>>
    BY <1>6 DEF FillStock, ConfirmStock, ApproveRequest, ConfirmReceipt, Repair, OpenPosting, Post,
                UpdateLines, UpdateItems, Order, Delete, Reject, CreateReceipt, PostReceipt,
                CancelReceipt, ReceiveOrder, vars
  <1> HIDE DEF Stays
  <1>7. Stays /\ files \subseteq files' /\ (paid => paid')
    BY <1>1, <1>2, <1>3, <1>4, <1>5, <1>6 DEF Next, Progress, Beside
  <1>8. QED
    BY <1>7 DEF Stays

(* The chain keeps its types and its order, and its evidence.               *)
LEMMA ChainKept ==
    ASSUME TypeOK, ChainOK, DecidedBelow, DoneHasEvidence, [Next]_vars
    PROVE  ChainOK' /\ DecidedBelow' /\ DoneHasEvidence'
  <1>1. DoneHasEvidence <=> \A k \in passed[1] : HasEvidence(k)
    BY DEF DoneHasEvidence, HasEvidence
  <1>2. DoneHasEvidence' <=> \A k \in passed'[1] : HasEvidence(k)'
    BY DEF DoneHasEvidence, HasEvidence
  <1>3. \A k \in passed[1] : HasEvidence(k)'
    <2>1. \A k \in passed[1] : HasEvidence(k)
      BY <1>1
    <2>2. QED
      BY <2>1, EvidenceStays DEF HasEvidence
  <1>4. CASE UNCHANGED run
    BY <1>2, <1>3, <1>4 DEF run, ChainOK, DecidedBelow
  <1>5. ASSUME NEW s \in Steps, Complete(s), HasEvidence(s)'
        PROVE  ChainOK' /\ DecidedBelow' /\ DoneHasEvidence'
    <2>1. /\ ChainOK' /\ todo'[1] = todo[1] \ Done(s) /\ passed'[1] = passed[1] \cup Done(s)
          /\ \A d \in Done(s), t \in todo'[1] : d < t
      BY <1>5, CompleteFacts
    <2>2. DecidedBelow'
      BY <2>1 DEF DecidedBelow
    <2>3. \A k \in Done(s) : k = s \/ k = 1 \/ k = 2
      BY StatusOnFacts
    <2>4. \A k \in Done(s) : HasEvidence(k)'
      BY <1>5, <2>3 DEF HasEvidence
    <2>5. QED
      BY <1>2, <1>3, <2>1, <2>2, <2>4
  <1>6. CASE Reject
    <2>1. Run!SendBack(1)
      BY <1>6 DEF Reject
    <2>2. PICK s \in todo[1] :
             /\ ChainOK'
             /\ s \in Steps /\ \A t \in todo[1] : s <= t
             /\ todo'[1] = (todo[1] \ {s}) \cup ({s - 1} \ {0})
             /\ passed'[1] = passed[1] \ {s - 1}
      BY <2>1, SendBackFacts
    <2>3. DecidedBelow'
      <3>1. ASSUME NEW k \in passed'[1], NEW t \in todo'[1]
            PROVE  k < t
        <4>1. k \in passed[1] /\ k # s - 1 /\ k < s
          BY <2>2 DEF DecidedBelow
        <4>2. k \in Nat /\ s \in Nat /\ \A u \in todo[1] : u \in Nat
          BY <2>2, <4>1 DEF ChainOK, Steps
        <4>3. t = s - 1 \/ (t \in todo[1] /\ s <= t)
          BY <2>2
        <4>4. QED
          BY <4>1, <4>2, <4>3
      <3>2. QED
        BY <3>1 DEF DecidedBelow
    <2>4. QED
      BY <1>2, <1>3, <2>2, <2>3
  <1>7. CASE Delete
    <2>1. ChainOK' /\ passed'[1] = {} /\ todo'[1] = {}
      BY <1>7, CancelFacts DEF Delete
    <2>2. QED
      BY <1>2, <2>1 DEF DecidedBelow
  <1>8. QED
    BY <1>4, <1>5, <1>6, <1>7, RunMoves DEF CompletedBy

-----------------------------------------------------------------------------
(* Types.                                                                   *)

(* Every completed step leaves one of the statuses.                         *)
LEMMA StatusTyped ==
    ASSUME ChainOK, NEW s \in Steps, Complete(s)
    PROVE  status' \in {StatusAfter[k] : k \in Steps}
  <1>1. status' = StatusOn(s) /\ 2 \in Steps
    BY CompleteFacts DEF Steps
  <1>2. StatusOn(s) = StatusAfter[2] \/ StatusOn(s) = StatusAfter[s]
    BY StatusOnFacts
  <1>3. QED
    BY <1>1, <1>2

(* The statuses, the lines, the proformas and the rest keep their types.    *)
LEMMA TypeKept ==
    ASSUME TypeOK, ChainOK, DecidedBelow, DoneHasEvidence, [Next]_vars
    PROVE  TypeOK'
  <1> DEFINE Reached == {StatusAfter[k] : k \in Steps} \cup {"awaiting_stock", "receiving", "deleted"}
             Lines == [version : 0..MaxEdits, filled : BOOLEAN, known : BOOLEAN]
             Row == [state : {"none", "draft", "submitted", "approved"},
                     amount : Amounts \cup {0}, supplier : BOOLEAN]
             Agreed == [method : {"none", "cash", "check"}, total : Amounts \cup {0}]
             Papers == {"invoice", "slip", "slip_on_step", "bol"}
             Entries == {"order", "receipt", "clicks"}
             Rest == /\ same' \in BOOLEAN /\ status' \in Reached /\ lines' \in Lines
                     /\ ordered' \in BOOLEAN /\ paid' \in BOOLEAN
                     /\ proforma' \in [Proformas -> Row] /\ terms' \in Agreed
                     /\ files' \subseteq Papers /\ stocked' \in 0..2 /\ beside' \subseteq Entries
                     /\ receipt' \in {"none", "draft", "posted", "cancelled"}
                     /\ posting' \subseteq Clicks /\ retreats' \in 0..MaxRetreats
  <1>1. ChainOK'
    BY ChainKept
  <1>2. /\ outcome'[1] \in Run!Outcomes /\ todo'[1] \subseteq Steps /\ passed'[1] \subseteq Steps
    BY <1>1 DEF ChainOK
  <1>3. /\ same \in BOOLEAN /\ status \in Reached /\ lines \in Lines
        /\ ordered \in BOOLEAN /\ paid \in BOOLEAN
        /\ proforma \in [Proformas -> Row] /\ terms \in Agreed
        /\ files \subseteq Papers /\ stocked \in 0..2 /\ beside \subseteq Entries
        /\ receipt \in {"none", "draft", "posted", "cancelled"}
        /\ posting \subseteq Clicks /\ retreats \in 0..MaxRetreats
    BY DEF TypeOK
  <1>4. \A s \in Steps : Complete(s) => status' \in Reached
    BY StatusTyped
  <1>5. {1, 2, 3, 4, 5, 6, 7, 8, 9} = Steps
    BY DEF Steps
  <1>6. /\ StatusAfter[1] = "pending" /\ StatusAfter[2] = "awaiting_proforma"
        /\ StatusAfter[3] = "proforma_review" /\ StatusAfter[9] = "completed"
    BY DEF StatusAfter
  <1>7. {"pending", "awaiting_proforma", "proforma_review", "completed"} \subseteq Reached
    BY <1>5, <1>6
  <1>8. "receiving" \in Reached /\ "deleted" \in Reached
    OBVIOUS
  <1>9. MaxRetreats \in Nat /\ MaxEdits \in Nat
    BY PurchaseAssumption
  <1> HIDE DEF Reached
  <1>10. \A k \in BOOLEAN : [lines EXCEPT !.known = k] \in Lines
    BY <1>3
  <1>11. [lines EXCEPT !.filled = TRUE] \in Lines
    BY <1>3
  <1>12. lines.version < MaxEdits => Replaced \subseteq Lines
    <2>1. lines.version \in 0..MaxEdits
      BY <1>3
    <2>2. lines.version < MaxEdits => lines.version + 1 \in 0..MaxEdits
      BY <1>9, <2>1
    <2>3. lines.version < MaxEdits => \A k \in BOOLEAN :
            [version |-> lines.version + 1, filled |-> FALSE, known |-> k] \in Lines
      BY <2>2
    <2> HIDE DEF Lines
    <2>4. QED
      BY <2>3 DEF Replaced
  <1>13. Bump(stocked) \in 0..2
    BY <1>3 DEF Bump
  <1> HIDE DEF Lines
  <1>20. ASSUME NEW p \in Proformas, CreateProforma(p) PROVE Rest
    <2>1. PICK a \in Amounts, k \in BOOLEAN :
            proforma' = [proforma EXCEPT ![p] = [state |-> "draft", amount |-> a, supplier |-> k]]
      BY <1>20 DEF CreateProforma
    <2>2. proforma' \in [Proformas -> Row]
      BY <1>3, <2>1
    <2>3. status' \in Reached
      BY <1>7, <1>20 DEF CreateProforma
    <2>4. QED
      BY <1>3, <1>20, <2>2, <2>3 DEF CreateProforma
  <1>21. ASSUME NEW p \in Proformas, SubmitProforma(p) PROVE Rest
    <2>1. proforma' \in [Proformas -> Row]
      BY <1>3, <1>21 DEF SubmitProforma
    <2>2. status' \in Reached
      BY <1>4, <1>5, <1>21 DEF SubmitProforma
    <2>3. QED
      BY <1>3, <1>21, <2>1, <2>2 DEF SubmitProforma
  <1>22. ASSUME NEW x \in Payments, ApproveProforma(x[1], x[2]) PROVE Rest
    <2> DEFINE approved == {Max(Submitted) : p \in Submitted}
               orders == ~ordered /\ \E p \in approved : proforma[p].supplier
    <2>1. /\ proforma' = [p \in Proformas |-> IF p \in approved
                           THEN [proforma[p] EXCEPT !.state = "approved"] ELSE proforma[p]]
          /\ ordered' = (ordered \/ orders)
          /\ lines' = IF orders THEN [lines EXCEPT !.known = TRUE] ELSE lines
      BY <1>22 DEF ApproveProforma
    <2> HIDE DEF approved, orders
    <2>2. proforma' \in [Proformas -> Row]
      <3>1. \A p \in Proformas : [proforma[p] EXCEPT !.state = "approved"] \in Row
        BY <1>3
      <3>2. QED
        BY <1>3, <2>1, <3>1
    <2>3. x[1] \in {"cash", "check"} /\ x[2] \in Amounts \cup {0}
      BY DEF Payments
    <2>4. terms' \in Agreed
      BY <1>3, <1>22, <2>3 DEF ApproveProforma, TermsOf
    <2>5. status' \in Reached
      BY <1>4, <1>5, <1>22 DEF ApproveProforma
    <2>6. ordered' \in BOOLEAN
      BY <2>1, Zenon
    <2>7. lines' \in Lines
      BY <1>3, <1>10, <2>1
    <2>8. QED
      BY <1>3, <1>22, <2>2, <2>4, <2>5, <2>6, <2>7 DEF ApproveProforma
  <1>23. ASSUME FillStock PROVE Rest
    BY <1>3, <1>11, <1>23 DEF FillStock, run
  <1>24. ASSUME ConfirmStock \/ ApproveRequest \/ ConfirmReceipt \/ Repair PROVE Rest
    BY <1>3, <1>4, <1>5, <1>24 DEF ConfirmStock, ApproveRequest, ConfirmReceipt, Repair
  <1>25. ASSUME UpdateLines \/ UpdateItems PROVE Rest
    BY <1>3, <1>12, <1>25 DEF UpdateLines, UpdateItems
  <1>26. ASSUME Delete PROVE Rest
    BY <1>3, <1>8, <1>26 DEF Delete
  <1>27. ASSUME Order PROVE Rest
    <2>1. PICK k \in {lines.known, TRUE} : lines' = [lines EXCEPT !.known = k]
      BY <1>27 DEF Order
    <2>2. k \in BOOLEAN
      BY <1>3 DEF Lines
    <2>3. QED
      BY <1>3, <1>10, <1>27, <2>1, <2>2 DEF Order
  <1>28. ASSUME UploadInvoice \/ UploadBol \/ MarkPayment PROVE Rest
    <2>1. status' \in Reached
      BY <1>3, <1>4, <1>5, <1>28 DEF UploadInvoice, UploadBol, MarkPayment
    <2>2. QED
      BY <1>3, <1>28, <2>1 DEF UploadInvoice, UploadBol, MarkPayment
  <1>29. ASSUME UploadSlip("slip") \/ UploadSlip("slip_on_step") PROVE Rest
    BY <1>3, <1>29 DEF UploadSlip
  <1>30. ASSUME \/ MarkPaidUnled \/ CreateReceipt \/ PostReceipt \/ CancelReceipt
                \/ ReceiveOrder
         PROVE  Rest
    BY <1>3, <1>7, <1>8, <1>10, <1>30
       DEF MarkPaidUnled, CreateReceipt, PostReceipt, CancelReceipt, ReceiveOrder
  <1>31. ASSUME NEW c \in Clicks, OpenPosting(c) \/ Post(c) PROVE Rest
    <2>1. CASE OpenPosting(c)
      BY <1>3, <2>1 DEF OpenPosting
    <2>2. CASE Post(c)
      <3>1. status' \in Reached
        BY <1>4, <1>5, <1>7, <2>2 DEF Post
      <3>2. QED
        BY <1>3, <1>13, <2>2, <3>1 DEF Post
    <2>3. QED
      BY <1>31, <2>1, <2>2
  <1>32. ASSUME Reject PROVE Rest
    <2>1. retreats' \in 0..MaxRetreats
      BY <1>3, <1>9, <1>32 DEF Reject
    <2>2. QED
      BY <1>3, <1>32, <2>1 DEF Reject
  <1>33. ASSUME UNCHANGED vars PROVE Rest
    BY <1>3, <1>33 DEF vars
  <1>34. Rest
    <2> HIDE DEF Rest
    <2>1. QED
      BY <1>20, <1>21, <1>22, <1>23, <1>24, <1>25, <1>26, <1>27, <1>28, <1>29, <1>30, <1>31,
         <1>32, <1>33
         DEF Next, Progress, Beside
  <1>35. QED
    BY <1>2, <1>34 DEF TypeOK, Reached, Lines

ChainInv == TypeOK /\ ChainOK /\ DecidedBelow /\ DoneHasEvidence

(* A new request has all its steps before it.                               *)
LEMMA InitChain == Init => ChainInv
  <1> SUFFICES ASSUME Init PROVE ChainInv
    OBVIOUS
  <1>1. /\ outcome[1] = "open" /\ todo[1] = Steps /\ passed[1] = {}
    BY DEF Init
  <1>2. ChainOK
    BY DEF Init, ChainOK, Run!Outcomes
  <1>3. TypeOK
    <2>1. proforma \in [Proformas -> [state : {"none", "draft", "submitted", "approved"},
                                   amount : Amounts \cup {0}, supplier : BOOLEAN]]
      BY DEF Init, NoProforma
    <2>2. lines \in [version : 0..MaxEdits, filled : BOOLEAN, known : BOOLEAN] /\ retreats \in 0..MaxRetreats
      BY PurchaseAssumption DEF Init
    <2>3. /\ same \in BOOLEAN /\ status = "awaiting_stock" /\ ordered = FALSE /\ paid = FALSE
          /\ terms = [method |-> "none", total |-> 0] /\ files = {} /\ stocked = 0
          /\ beside = {} /\ receipt = "none" /\ posting = {}
      BY DEF Init
    <2>4. terms \in [method : {"none", "cash", "check"}, total : Amounts \cup {0}]
      BY <2>3
    <2>5. /\ outcome[1] \in Run!Outcomes /\ todo[1] \subseteq Steps /\ passed[1] \subseteq Steps
      BY <1>1 DEF Run!Outcomes
    <2>6. status \in {StatusAfter[s] : s \in Steps} \cup {"awaiting_stock", "receiving", "deleted"}
      BY <2>3
    <2>7. stocked \in 0..2 /\ files \subseteq {"invoice", "slip", "slip_on_step", "bol"}
          /\ posting \subseteq Clicks /\ beside \subseteq {"order", "receipt", "clicks"}
      BY <2>3
    <2>8. ordered \in BOOLEAN /\ paid \in BOOLEAN
      BY <2>3, Zenon
    <2>9. QED
      BY <2>1, <2>2, <2>3, <2>4, <2>5, <2>6, <2>7, <2>8 DEF TypeOK
  <1>4. DecidedBelow /\ DoneHasEvidence
    BY <1>1 DEF DecidedBelow, DoneHasEvidence
  <1>5. QED
    BY <1>2, <1>3, <1>4 DEF ChainInv

(* Types, the order of the chain and the evidence survive every step.       *)
LEMMA StepChain ==
    ASSUME ChainInv, [Next]_vars
    PROVE  ChainInv'
  BY ChainKept, TypeKept DEF ChainInv

(* Whichever way a step was completed, by its handler, from the inbox or by *)
(* the page of the request, and whatever was rejected or clicked twice: what *)
(* it is about is there.                                                    *)
THEOREM PurchaseDoneHasEvidence == Spec => [](TypeOK /\ DoneHasEvidence)
  <1>1. ChainInv => TypeOK /\ DoneHasEvidence
    BY DEF ChainInv
  <1>2. QED
    BY <1>1, InitChain, StepChain, PTL DEF Spec

-----------------------------------------------------------------------------
(* The chain beside the columns of the request.                             *)

(* A completed step is to be done no longer.                                *)
LEMMA CompleteIsNoStutter ==
    ASSUME ChainOK, NEW s \in Steps, Complete(s)
    PROVE  ~UNCHANGED run
  BY CompleteFacts DEF run

(* Who writes the status of the request without touching its chain.         *)
LEMMA QuietStatus ==
    ASSUME ChainOK, [Next]_vars, UNCHANGED run, ~Delete
    PROVE  \/ UNCHANGED status
           \/ MarkPaidUnled \/ CreateReceipt \/ PostReceipt
           \/ \E c \in Clicks : Post(c) /\ ~At(9) /\ status' = "completed"
  <1>1. \A s \in Steps : ~Complete(s)
    BY CompleteIsNoStutter
  <1>2. {1, 2, 3, 4, 5, 6, 7, 8, 9} = Steps
    BY DEF Steps
  <1>3. ~ConfirmStock /\ ~ApproveRequest /\ ~ConfirmReceipt /\ ~Repair /\ ~MarkPayment /\ ~UploadBol
        /\ (\A p \in Proformas : ~SubmitProforma(p))
        /\ \A x \in Payments : ~ApproveProforma(x[1], x[2])
    BY <1>1, <1>2 DEF ConfirmStock, ApproveRequest, ConfirmReceipt, Repair, MarkPayment, UploadBol,
                      SubmitProforma, ApproveProforma
  <1>4. ASSUME \/ FillStock \/ UploadSlip("slip") \/ UploadSlip("slip_on_step") \/ UploadInvoice
               \/ (\E p \in Proformas : CreateProforma(p)) \/ (\E c \in Clicks : OpenPosting(c))
               \/ UpdateLines \/ UpdateItems \/ Order \/ CancelReceipt \/ ReceiveOrder \/ Reject
               \/ UNCHANGED vars
        PROVE  UNCHANGED status
    BY <1>1, <1>2, <1>4
       DEF FillStock, UploadSlip, UploadInvoice, CreateProforma, OpenPosting, UpdateLines,
           UpdateItems, Order, CancelReceipt, ReceiveOrder, Reject, vars
  <1>5. \A c \in Clicks : Post(c) => ~At(9) /\ status' = "completed"
    BY <1>1, <1>2 DEF Post
  <1>6. QED
    BY <1>3, <1>4, <1>5 DEF Next, Progress, Beside

(* What the CEO decides lies behind the status in which lines are replaced. *)
CeoDecidesOthers == 4 \in passed[1] => status # "pending"

(* No step brings the status back to pending once the CEO has decided.      *)
LEMMA CeoKept ==
    ASSUME ChainInv, CeoDecidesOthers, [Next]_vars
    PROVE  CeoDecidesOthers'
  <1>1. ChainOK /\ DecidedBelow /\ TypeOK
    BY DEF ChainInv
  <1>2. CASE Delete
    BY <1>2 DEF Delete, CeoDecidesOthers
  <1>3. CASE UNCHANGED run /\ ~Delete
    <2>1. UNCHANGED status \/ status' # "pending"
      BY <1>1, <1>3, QuietStatus DEF MarkPaidUnled, CreateReceipt, PostReceipt
    <2>2. QED
      BY <1>3, <2>1 DEF CeoDecidesOthers, run
  <1>4. ASSUME NEW s \in Steps, Complete(s)
        PROVE  CeoDecidesOthers'
    <2>1. /\ s \in todo[1] /\ passed'[1] = passed[1] \cup Done(s) /\ status' = StatusOn(s)
      BY <1>1, <1>4, CompleteFacts
    <2>2. CASE status' = "pending"
      <3>1. s = 1 /\ Done(s) = {1}
        <4>1. \A k \in 2..9 : StatusAfter[k] # "pending"
          BY DEF StatusAfter
        <4>2. s \in 1..9
          BY DEF Steps
        <4>3. s = 1 \/ s \in 2..9
          BY <4>2
        <4>4. 2 \in 2..9
          OBVIOUS
        <4>5. QED
          BY <1>1, <2>1, <2>2, <4>1, <4>3, <4>4, StatusOnFacts
      <3>2. 4 \notin passed[1]
        BY <1>1, <2>1, <3>1 DEF DecidedBelow
      <3>3. QED
        BY <2>1, <3>1, <3>2 DEF CeoDecidesOthers
    <2>3. CASE status' # "pending"
      BY <2>3 DEF CeoDecidesOthers
    <2>4. QED
      BY <2>2, <2>3
  <1>5. CASE Reject
    <2>1. \E s \in todo[1] : passed'[1] = passed[1] \ {s - 1}
      BY <1>1, <1>5, SendBackFacts DEF Reject
    <2>2. QED
      BY <1>5, <2>1 DEF Reject, CeoDecidesOthers
  <1>6. QED
    BY <1>1, <1>2, <1>3, <1>4, <1>5, RunMoves DEF CompletedBy

(* The items the CEO approved stay as they are while that approval stands.  *)
THEOREM PurchaseLinesFixed == Spec => LinesFixedByCeo
  <1>1. Init => ChainInv /\ CeoDecidesOthers
    <2>1. Init => 4 \notin passed[1]
      BY DEF Init
    <2>2. QED
      BY <2>1, InitChain DEF CeoDecidesOthers
  <1>2. ChainInv /\ CeoDecidesOthers /\ [Next]_vars => (ChainInv /\ CeoDecidesOthers)'
    BY StepChain, CeoKept
  <1>3. ASSUME ChainInv, CeoDecidesOthers, [Next]_vars
        PROVE  [4 \in passed[1] => lines'.version = lines.version]_vars
    <2>1. lines'.version = lines.version \/ UpdateLines \/ UpdateItems
      <3>1. \A k : [lines EXCEPT !.known = k].version = lines.version
        BY <1>3 DEF ChainInv, TypeOK
      <3>2. [lines EXCEPT !.filled = TRUE].version = lines.version
        BY <1>3 DEF ChainInv, TypeOK
      <3>3. ASSUME \/ (\E x \in Payments : ApproveProforma(x[1], x[2])) \/ FillStock \/ Order
                   \/ CreateReceipt
            PROVE  lines'.version = lines.version
        BY <3>1, <3>2, <3>3 DEF ApproveProforma, FillStock, Order, CreateReceipt
      <3>4. ASSUME \/ ConfirmStock \/ ApproveRequest \/ UploadInvoice \/ UploadSlip("slip")
                   \/ (\E p \in Proformas : CreateProforma(p) \/ SubmitProforma(p))
                   \/ MarkPayment \/ UploadBol \/ ConfirmReceipt
                   \/ (\E c \in Clicks : OpenPosting(c) \/ Post(c)) \/ Repair
                   \/ UploadSlip("slip_on_step") \/ Delete \/ Reject \/ MarkPaidUnled
                   \/ PostReceipt \/ CancelReceipt \/ ReceiveOrder \/ UNCHANGED vars
            PROVE  lines' = lines
        BY <3>4
           DEF ConfirmStock, ApproveRequest, UploadInvoice, UploadSlip, CreateProforma,
               SubmitProforma, MarkPayment, UploadBol, ConfirmReceipt, OpenPosting, Post, Repair,
               Delete, Reject, MarkPaidUnled, PostReceipt, CancelReceipt, ReceiveOrder, vars
      <3>5. QED
        BY <1>3, <3>3, <3>4 DEF Next, Progress, Beside
    <2>2. UpdateLines => 4 \notin passed[1]
      BY <1>3 DEF UpdateLines, CeoDecidesOthers
    <2>3. UpdateItems => 4 \notin passed[1]
      <3>1. UpdateItems => 3 \in todo[1]
        BY DEF UpdateItems, ItemsOpen, Current, At
      <3>2. QED
        BY <1>3, <3>1 DEF ChainInv, DecidedBelow
    <2>4. QED
      BY <2>1, <2>2, <2>3
  <1>4. QED
    BY <1>1, <1>2, <1>3, PTL DEF Spec, LinesFixedByCeo

-----------------------------------------------------------------------------
(* Posting the goods.                                                       *)

(* A posting is under way when nothing but step 9 is left.                  *)
PostingAtTheEnd ==
    posting # {} => /\ todo[1] \subseteq {9}
                    /\ outcome[1] = IF todo[1] = {} THEN "approved" ELSE "open"

(* Without overlapping clicks the posting that is under way is the only one *)
(* so far; what came in ended the chain.                                    *)
InOnce ==
    /\ posting # {} => 9 \in todo[1] \cup passed[1]
    /\ posting # {} /\ "clicks" \notin beside =>
         9 \in todo[1] /\ stocked = 0 /\ \A c, d \in posting : c = d
    /\ PostedOnce
    /\ stocked > 0 => outcome[1] = "approved" /\ todo[1] = {} /\ 9 \in passed[1]

(* Who opens and who ends a posting.                                        *)
LEMMA PostingMoves ==
    ASSUME [Next]_vars
    PROVE  \/ UNCHANGED posting
           \/ \E c \in Clicks : OpenPosting(c) \/ Post(c)
  BY DEF Next, Progress, Beside, FillStock, ConfirmStock, ApproveRequest, CreateProforma,
         SubmitProforma, ApproveProforma, UploadInvoice, UploadSlip, MarkPayment, UploadBol,
         ConfirmReceipt, Repair, UpdateLines, UpdateItems, Order, Delete, Reject, MarkPaidUnled,
         CreateReceipt, PostReceipt, CancelReceipt, ReceiveOrder, vars

(* The last step is least only when it is alone.                            *)
LEMMA LastStepAlone ==
    ASSUME ChainOK, At(9)
    PROVE  todo[1] = {9}
  <1>1. todo[1] \subseteq 1..9 /\ 9 \in todo[1] /\ \A k \in todo[1] : 9 <= k
    BY DEF ChainOK, At, Steps
  <1>2. \A k \in todo[1] : k = 9
    BY <1>1
  <1>3. QED
    BY <1>1, <1>2

(* A step that is completed after the last one has been opened is that one. *)
LEMMA EndIsLast ==
    ASSUME ChainOK, todo[1] \subseteq {9}, NEW s \in Steps, Complete(s)
    PROVE  s = 9 /\ todo[1] = {9} /\ todo'[1] = {} /\ outcome'[1] = "approved"
  <1>1. s \in todo[1] /\ todo'[1] = todo[1] \ Done(s) /\ s \in Done(s) /\ Done(s) \subseteq todo[1]
        /\ outcome'[1] = IF todo[1] = Done(s) THEN "approved" ELSE outcome[1]
    BY CompleteFacts
  <1>2. s = 9 /\ todo[1] = {9} /\ Done(s) = {9}
    BY <1>1
  <1>3. QED
    BY <1>1, <1>2

(* A posting under way is neither rejected nor overtaken by an earlier      *)
(* step.                                                                    *)
LEMMA PostingKept ==
    ASSUME ChainInv, PostingAtTheEnd, [Next]_vars
    PROVE  PostingAtTheEnd'
  <1>1. ChainOK /\ TypeOK
    BY DEF ChainInv
  <1>2. CASE \E c \in Clicks : OpenPosting(c)
    <2>1. UNCHANGED run /\ At(9) /\ outcome[1] = "open"
      BY <1>2 DEF OpenPosting, WarehouseStep, Current, Active
    <2>2. todo[1] = {9}
      BY <1>1, <2>1, LastStepAlone
    <2>3. QED
      BY <2>1, <2>2 DEF PostingAtTheEnd, run
  <1>3. CASE ~(\E c \in Clicks : OpenPosting(c)) /\ posting' # {}
    <2>1. posting # {}
      BY <1>3, PostingMoves DEF Post
    <2>2. ~Reject /\ ~Delete
      BY <2>1 DEF Reject, Delete
    <2>3. CASE UNCHANGED run
      BY <2>1, <2>3 DEF PostingAtTheEnd, run
    <2>4. ASSUME NEW s \in Steps, Complete(s)
          PROVE  PostingAtTheEnd'
      BY <1>1, <2>1, <2>4, EndIsLast DEF PostingAtTheEnd
    <2>5. QED
      BY <1>1, <2>2, <2>3, <2>4, RunMoves DEF CompletedBy
  <1>4. CASE posting' = {}
    BY <1>4 DEF PostingAtTheEnd
  <1>5. QED
    BY <1>2, <1>3, <1>4

(* The chain's goods are entered by a posting; the overlap of two is        *)
(* remembered, and an opened receipt as well.                               *)
LEMMA StockMoves ==
    ASSUME [Next]_vars
    PROVE  /\ receipt' = "none" => receipt = "none"
           /\ "clicks" \in beside => "clicks" \in beside'
           /\ UNCHANGED stocked \/ \E c \in Clicks : Post(c)
  BY DEF Next, Progress, Beside, FillStock, ConfirmStock, ApproveRequest, CreateProforma,
         SubmitProforma, ApproveProforma, UploadInvoice, UploadSlip, MarkPayment, UploadBol,
         ConfirmReceipt, Repair, UpdateLines, UpdateItems, Order, Delete, Reject, MarkPaidUnled,
         CreateReceipt, PostReceipt, CancelReceipt, ReceiveOrder, OpenPosting, Post, vars

(* A chain that was approved to its end stays so.                           *)
LEMMA EndStays ==
    ASSUME TypeOK, ChainOK, [Next]_vars, outcome[1] = "approved", todo[1] = {}, 9 \in passed[1]
    PROVE  UNCHANGED run
  <1>1. \A s \in Steps : ~Complete(s)
    BY DEF Complete, At
  <1>2. ~Reject /\ ~Delete
    BY SendBackFacts, CancelFacts DEF Reject, Delete
  <1>3. QED
    BY <1>1, <1>2, RunMoves DEF CompletedBy

(* What a posting brings in ends the chain, and without overlapping clicks  *)
(* nothing was brought in before.                                           *)
LEMMA InOnceKept ==
    ASSUME ChainInv, PostingAtTheEnd, InOnce, [Next]_vars
    PROVE  InOnce'
  <1>1. ChainOK /\ TypeOK
    BY DEF ChainInv
  <1>2. stocked \in 0..2 /\ posting \subseteq Clicks
    BY <1>1 DEF TypeOK
  <1>3. ASSUME NEW c \in Clicks, Post(c)
        PROVE  InOnce'
    <2>1. /\ c \in posting /\ posting' = posting \ {c} /\ beside' = beside
          /\ stocked' = stocked \/ stocked' = Bump(stocked)
          /\ IF At(9) THEN Complete(9) ELSE UNCHANGED run
      BY <1>3 DEF Post
    <2>2. outcome'[1] = "approved" /\ todo'[1] = {} /\ 9 \in passed'[1]
      <3>1. CASE 9 \in todo[1]
        <4>1. todo[1] \subseteq {9} /\ At(9) /\ Complete(9) /\ 9 \in Steps
          BY <2>1, <3>1 DEF PostingAtTheEnd, At, Steps
        <4>2. passed'[1] = passed[1] \cup Done(9) /\ 9 \in Done(9)
          BY <1>1, <4>1, CompleteFacts
        <4>3. QED
          BY <1>1, <4>1, <4>2, EndIsLast
      <3>2. CASE 9 \notin todo[1]
        <4>1. todo[1] = {} /\ outcome[1] = "approved" /\ ~At(9)
          BY <2>1, <3>2 DEF PostingAtTheEnd, At
        <4>2. QED
          BY <2>1, <3>2, <4>1 DEF run, InOnce
      <3>3. QED
        BY <3>1, <3>2
    <2>3. CASE "clicks" \in beside
      BY <2>1, <2>2, <2>3 DEF InOnce, PostedOnce
    <2>4. CASE "clicks" \notin beside
      <3>1. stocked = 0 /\ 9 \in todo[1] /\ posting' = {}
        BY <2>1, <2>4 DEF InOnce
      <3>2. stocked' <= 1
        BY <2>1, <3>1 DEF Bump
      <3>3. ~(stocked' > 1)
        BY <2>1, <3>1 DEF Bump
      <3>4. QED
        BY <2>1, <2>2, <3>1, <3>3 DEF InOnce, PostedOnce
    <2>5. QED
      BY <2>3, <2>4
  <1>4. ASSUME NEW c \in Clicks, OpenPosting(c)
        PROVE  InOnce'
    <2>1. /\ Active /\ 9 \in todo[1] /\ UNCHANGED <<run, stocked>>
          /\ posting' = posting \cup {c}
          /\ beside' = beside \cup (IF posting = {} THEN {} ELSE {"clicks"})
      BY <1>4 DEF OpenPosting, WarehouseStep, Current, At
    <2>2. stocked = 0
      BY <1>2, <2>1 DEF InOnce, Active
    <2>3. posting # {} => "clicks" \in beside'
      BY <2>1
    <2>4. posting = {} => \A a, b \in posting' : a = b
      BY <2>1
    <2>5. QED
      BY <2>1, <2>2, <2>3, <2>4 DEF InOnce, PostedOnce, run
  <1>5. ASSUME \A c \in Clicks : ~OpenPosting(c) /\ ~Post(c)
        PROVE  InOnce'
    <2>1. /\ UNCHANGED <<posting, stocked>> /\ ("clicks" \in beside => "clicks" \in beside')
      BY <1>5, StockMoves, PostingMoves
    <2>2. stocked > 0 => UNCHANGED run
      BY <1>1, EndStays DEF InOnce
    <2>3. posting # {} => UNCHANGED run
      <3>1. SUFFICES ASSUME posting # {}
                     PROVE  UNCHANGED run
        OBVIOUS
      <3>2. todo[1] \subseteq {9} /\ ~Reject /\ ~Delete
        BY <3>1 DEF PostingAtTheEnd, Reject, Delete
      <3>3. \A s \in Steps : ~CompletedBy(s)
        BY <1>1, <1>5, <3>2, EndIsLast DEF CompletedBy
      <3>4. QED
        BY <1>1, <3>2, <3>3, RunMoves
    <2>4. QED
      BY <2>1, <2>2, <2>3 DEF InOnce, PostedOnce, run
  <1>6. QED
    BY <1>3, <1>4, <1>5

(* Whatever is rejected, and however many clicks, orders and receipts there *)
(* are: steps have their evidence, the chain enters the goods when it is    *)
(* over, and once unless clicks of its last step overlapped.                *)
THEOREM PurchaseDoneAsAsked == Spec => []DoneAsAsked
  <1> DEFINE I == ChainInv /\ PostingAtTheEnd /\ InOnce
  <1>1. Init => I
    <2>1. Init => posting = {} /\ stocked = 0
      BY DEF Init
    <2>2. QED
      BY <2>1, InitChain DEF PostingAtTheEnd, InOnce, PostedOnce
  <1>2. I /\ [Next]_vars => I'
    BY StepChain, PostingKept, InOnceKept
  <1>3. I => DoneAsAsked
    BY DEF ChainInv, InOnce, DoneAsAsked, GoodsInAtTheEnd
  <1> HIDE DEF I
  <1>4. QED
    BY <1>1, <1>2, <1>3, PTL DEF Spec

-----------------------------------------------------------------------------
(* As long as nothing is rejected.                                          *)

(* The chain is decided from below, and the status keeps up with it.        *)
Decided(s) == /\ outcome[1] = "open"
              /\ todo[1] = s..9 /\ passed[1] = 1..(s - 1)
              /\ status = IF s = 1 THEN "awaiting_stock" ELSE StatusAfter[s - 1]
Through   == outcome[1] = "approved" /\ todo[1] = {} /\ passed[1] = Steps
Cancelled == outcome[1] = "cancelled" /\ todo[1] = {} /\ passed[1] = {} /\ status = "deleted"
InOrder   == Straight => (\E s \in Steps : Decided(s)) \/ Through \/ Cancelled

(* The terms and the proforma are agreed by the CEO, and paid after that.   *)
TermsByCeo ==
    Straight =>
       /\ 4 \notin passed[1] => \A p \in Proformas : proforma[p].state # "approved"
       /\ 4 \in passed[1] => terms.method # "none"
       /\ paid => 6 \in passed[1]

StraightInv == PostingAtTheEnd /\ InOrder /\ TermsByCeo /\ ChecksMatchProforma

(* What is straight has been so, and nothing was rejected just now.         *)
LEMMA StraightBefore ==
    ASSUME ChainInv, InOrder, [Next]_vars, Straight'
    PROVE  Straight /\ ~Reject
  <1>1. ChainOK /\ TypeOK
    BY DEF ChainInv
  <1>2. receipt = "none"
    BY StockMoves DEF Straight
  <1>3. retreats \in Nat /\ retreats' = 0
    BY <1>1, PurchaseAssumption DEF TypeOK, Straight
  <1>4. CASE Reject
    <2>1. retreats' = retreats + IF Retreating THEN 0 ELSE 1
      BY <1>4 DEF Reject
    <2>2. retreats = 0 /\ Retreating
      BY <1>3, <2>1
    <2>3. PICK s \in todo[1] : TRUE
      BY <1>1, <1>4, SendBackFacts DEF Reject
    <2>4. PICK k \in Steps : todo[1] = k..9 /\ passed[1] = 1..(k - 1)
      BY <1>2, <2>2, <2>3 DEF InOrder, Straight, Decided, Through, Cancelled
    <2>5. Steps \ (todo[1] \cup passed[1]) = {}
      BY <2>4 DEF Steps
    <2>6. QED
      BY <2>2, <2>5 DEF Retreating
  <1>5. CASE ~Reject
    <2>1. retreats' = retreats
      BY <1>5
         DEF Next, Progress, Beside, FillStock, ConfirmStock, ApproveRequest, CreateProforma,
             SubmitProforma, ApproveProforma, UploadInvoice, UploadSlip, MarkPayment, UploadBol,
             ConfirmReceipt, Repair, UpdateLines, UpdateItems, Order, Delete, MarkPaidUnled,
             CreateReceipt, PostReceipt, CancelReceipt, ReceiveOrder, OpenPosting, Post, vars
    <2>2. QED
      BY <1>2, <1>3, <1>5, <2>1 DEF Straight
  <1>6. QED
    BY <1>4, <1>5

(* The step that is completed is the one the chain waits for.               *)
LEMMA CompletesNext ==
    ASSUME ChainOK, NEW s \in Steps, Decided(s), NEW k \in Steps, Complete(k)
    PROVE  /\ k = s
           /\ Through' \/ \E n \in Steps : s < n /\ Decided(n)'
  <1>1. s \in 1..9 /\ k \in 1..9
    BY DEF Steps
  <1>2. /\ k \in todo[1] /\ \A u \in todo[1] : k <= u
        /\ outcome'[1] = IF todo[1] = Done(k) THEN "approved" ELSE outcome[1]
        /\ todo'[1] = todo[1] \ Done(k) /\ passed'[1] = passed[1] \cup Done(k)
        /\ status' = StatusOn(k)
    BY CompleteFacts
  <1>3. todo[1] = s..9 /\ passed[1] = 1..(s - 1) /\ outcome[1] = "open"
    BY DEF Decided
  <1>4. s \in s..9
    BY <1>1
  <1>5. k = s
    BY <1>1, <1>2, <1>3, <1>4
  <1>6. CASE k = 1 /\ 2 \in Done(k)
    <2>1. Done(k) = {1, 2} /\ status' = StatusAfter[2]
      BY <1>2, <1>6, StatusOnFacts
    <2>2. 9 \in todo[1] /\ 9 \notin Done(k)
      BY <1>1, <1>3, <2>1
    <2>3. todo'[1] = 3..9 /\ passed'[1] = 1..2
      BY <1>2, <1>3, <1>5, <1>6, <2>1
    <2>4. outcome'[1] = "open"
      BY <1>2, <1>3, <2>2
    <2>5. Decided(3)'
      BY <2>1, <2>3, <2>4 DEF Decided
    <2>6. QED
      BY <1>5, <1>6, <2>5 DEF Steps
  <1>7. CASE ~(k = 1 /\ 2 \in Done(k))
    <2>1. Done(k) = {s} /\ status' = StatusAfter[s]
      BY <1>2, <1>5, <1>7, StatusOnFacts
    <2>2. todo'[1] = (s + 1)..9 /\ passed'[1] = 1..s
      BY <1>1, <1>2, <1>3, <2>1
    <2>3. CASE s = 9
      <3>1. todo[1] = Done(k) /\ todo'[1] = {} /\ passed'[1] = Steps
        BY <1>3, <2>1, <2>2, <2>3 DEF Steps
      <3>2. QED
        BY <1>2, <1>5, <3>1 DEF Through
    <2>4. CASE s # 9
      <3>1. s + 1 \in Steps /\ s < s + 1 /\ (s + 1) - 1 = s /\ s + 1 # 1
        BY <1>1, <2>4 DEF Steps
      <3>2. 9 \in todo[1] /\ 9 \notin Done(k)
        BY <1>1, <1>3, <2>1, <2>4
      <3>3. outcome'[1] = "open"
        BY <1>2, <1>3, <3>2
      <3>4. Decided(s + 1)'
        BY <2>1, <2>2, <3>1, <3>3 DEF Decided
      <3>5. QED
        BY <1>5, <3>1, <3>4
    <2>5. QED
      BY <2>3, <2>4
  <1>8. QED
    BY <1>6, <1>7

(* The approvals follow each other and nobody else writes the status.       *)
LEMMA InOrderKept ==
    ASSUME ChainInv, PostingAtTheEnd, InOrder, [Next]_vars
    PROVE  InOrder'
  <1> SUFFICES ASSUME Straight'
               PROVE  (\E s \in Steps : Decided(s)') \/ Through' \/ Cancelled'
    BY DEF InOrder
  <1>1. ChainOK /\ TypeOK /\ Straight /\ ~Reject
    BY StraightBefore DEF ChainInv
  <1>2. (\E s \in Steps : Decided(s)) \/ Through \/ Cancelled
    BY <1>1 DEF InOrder
  <1>3. CASE UNCHANGED run /\ ~Delete
    <2>1. ~CreateReceipt /\ ~PostReceipt
      BY <1>1 DEF Straight, CreateReceipt, PostReceipt
    <2>2. ASSUME NEW s \in Steps, Decided(s)
          PROVE  Decided(s)'
      <3>1. ~MarkPaidUnled
        BY <2>2 DEF Decided, MarkPaidUnled, Active
      <3>2. \A c \in Clicks : Post(c) => At(9)
        <4>1. s \in Nat /\ s <= 9
          BY DEF Steps
        <4>2. 9 \in todo[1]
          BY <2>2, <4>1 DEF Decided
        <4>3. \A c \in Clicks : Post(c) => todo[1] \subseteq {9}
          BY DEF Post, PostingAtTheEnd
        <4>4. QED
          BY <4>2, <4>3 DEF At
      <3>3. UNCHANGED status
        BY <1>1, <1>3, <2>1, <3>1, <3>2, QuietStatus
      <3>4. QED
        BY <1>3, <2>2, <3>3 DEF Decided, run
    <2>3. CASE Through
      BY <1>3, <2>3 DEF Through, run
    <2>4. CASE Cancelled
      <3>1. ~MarkPaidUnled
        BY <2>4 DEF Cancelled, MarkPaidUnled
      <3>2. \A c \in Clicks : ~Post(c)
        BY <2>4 DEF Post, PostingAtTheEnd, Cancelled
      <3>3. UNCHANGED status
        BY <1>1, <1>3, <2>1, <3>1, <3>2, QuietStatus
      <3>4. QED
        BY <1>3, <2>4, <3>3 DEF Cancelled, run
    <2>5. QED
      BY <1>2, <2>2, <2>3, <2>4
  <1>4. ASSUME NEW k \in Steps, Complete(k)
        PROVE  (\E s \in Steps : Decided(s)') \/ Through'
    <2>1. todo[1] # {}
      BY <1>4 DEF Complete, At
    <2>2. PICK s \in Steps : Decided(s)
      BY <1>2, <2>1 DEF Through, Cancelled
    <2>3. QED
      BY <1>1, <1>4, <2>2, CompletesNext
  <1>5. CASE Delete
    <2>1. /\ passed[1] = {} /\ UNCHANGED passed /\ todo'[1] = {} /\ status' = "deleted"
          /\ status = "pending"
      BY <1>1, <1>5, CancelFacts DEF Delete
    <2>2. outcome[1] = "open"
      BY <1>2, <2>1 DEF Decided, Through, Cancelled, Steps
    <2>3. outcome'[1] = "cancelled"
      BY <1>1, <1>5, <2>2 DEF Delete, Run!Cancel
    <2>4. QED
      BY <2>1, <2>3 DEF Cancelled
  <1>6. QED
    BY <1>1, <1>3, <1>4, <1>5, RunMoves DEF CompletedBy

(* The terms and the approval of a proforma are of the CEO's step, and what *)
(* is paid was paid at the step for it or beside a chain that has ended.    *)
LEMMA TermsMoves ==
    ASSUME TypeOK, [Next]_vars
    PROVE  /\ \/ \E x \in Payments : ApproveProforma(x[1], x[2])
              \/ /\ UNCHANGED terms
                 /\ \A p \in Proformas :
                      proforma'[p].state = "approved" => proforma[p].state = "approved"
           /\ paid' => paid \/ MarkPayment \/ MarkPaidUnled
  <1>1. ASSUME NEW p \in Proformas, CreateProforma(p) \/ SubmitProforma(p)
        PROVE  /\ UNCHANGED <<terms, paid>>
               /\ \A q \in Proformas :
                    proforma'[q].state = "approved" => proforma[q].state = "approved"
    <2>1. UNCHANGED <<terms, paid>> /\ \A q \in Proformas \ {p} : proforma'[q] = proforma[q]
      BY <1>1 DEF CreateProforma, SubmitProforma, TypeOK
    <2>2. proforma'[p].state \in {"draft", "submitted"}
      BY <1>1 DEF CreateProforma, SubmitProforma, TypeOK
    <2>3. QED
      BY <2>1, <2>2
  <1>2. ASSUME NEW x \in Payments, ApproveProforma(x[1], x[2])
        PROVE  UNCHANGED paid
    BY <1>2 DEF ApproveProforma
  <1>3. CASE MarkPayment \/ MarkPaidUnled
    BY <1>3 DEF MarkPayment, MarkPaidUnled
  <1>4. ASSUME ~(MarkPayment \/ MarkPaidUnled),
               \A p \in Proformas : ~(CreateProforma(p) \/ SubmitProforma(p)),
               \A x \in Payments : ~ApproveProforma(x[1], x[2])
        PROVE  UNCHANGED <<terms, proforma, paid>>
    BY <1>4
       DEF Next, Progress, Beside, FillStock, ConfirmStock, ApproveRequest, UploadInvoice,
           UploadSlip, UploadBol, ConfirmReceipt, Repair, UpdateLines, UpdateItems, Order,
           Delete, Reject, CreateReceipt, PostReceipt, CancelReceipt, ReceiveOrder, OpenPosting,
           Post, vars
  <1>5. QED
    BY <1>1, <1>2, <1>3, <1>4

(* The CEO decides with a proforma at hand, and checks add up to that one.  *)
LEMMA CeoAgrees ==
    ASSUME ChainInv, InOrder, TermsByCeo, Straight,
           NEW x \in Payments, ApproveProforma(x[1], x[2])
    PROVE  /\ 4 \in passed'[1] /\ passed[1] \subseteq passed'[1]
           /\ terms'.method # "none"
           /\ terms'.method = "check" =>
                \E p \in Proformas : /\ proforma'[p].state = "approved"
                                     /\ proforma'[p].amount = terms'.total
  <1> DEFINE m == Max(Submitted)
  <1>1. ChainOK /\ TypeOK /\ DoneHasEvidence /\ 4 \in Steps
    BY DEF ChainInv, Steps
  <1>2. ValidTerms(x[1], x[2]) /\ Complete(4) /\ terms' = TermsOf(x[1], x[2])
    BY DEF ApproveProforma
  <1>3. 4 \in passed'[1] /\ passed[1] \subseteq passed'[1]
    BY <1>1, <1>2, CompleteFacts
  <1>4. 3 \in passed[1] /\ 4 \notin passed[1]
    <2>1. 4 \in todo[1]
      BY <1>1, <1>2, CompleteFacts
    <2>2. PICK s \in Steps : Decided(s)
      BY <2>1 DEF InOrder, Through, Cancelled
    <2>3. s = 4
      BY <1>1, <1>2, <2>2, CompletesNext
    <2>4. QED
      BY <2>2, <2>3 DEF Decided
  <1>5. Submitted # {}
    BY <1>1, <1>4 DEF TermsByCeo, DoneHasEvidence, Submitted
  <1>6. Submitted \in SUBSET Nat /\ IsFiniteSet(Submitted)
    BY FS_Subset, PurchaseAssumption DEF Submitted
  <1>7. m \in Submitted /\ m \in Proformas
    BY <1>5, <1>6, MaxOfFinite DEF Submitted
  <1>8. proforma' = [p \in Proformas |-> IF p \in {m}
                       THEN [proforma[p] EXCEPT !.state = "approved"] ELSE proforma[p]]
    <2>1. {Max(Submitted) : p \in Submitted} = {m}
      BY <1>5
    <2>2. QED
      BY <2>1 DEF ApproveProforma
  <1>9. proforma'[m].state = "approved" /\ proforma'[m].amount = proforma[m].amount
    <2>1. proforma[m] \in [state : {"none", "draft", "submitted", "approved"},
                           amount : Amounts \cup {0}, supplier : BOOLEAN]
      BY <1>1, <1>7 DEF TypeOK
    <2> HIDE DEF m
    <2>2. proforma'[m] = [proforma[m] EXCEPT !.state = "approved"]
      BY <1>7, <1>8
    <2>3. QED
      BY <2>1, <2>2
  <1>10. Expected = {proforma[m].amount}
    BY <1>5 DEF Expected
  <1>11. terms'.method = x[1] /\ (x[1] = "check" => terms'.total = x[2])
    BY <1>2 DEF TermsOf
  <1>12. x[1] \in {"cash", "check"}
    BY DEF Payments
  <1>13. x[1] = "check" => x[2] = proforma[m].amount
    BY <1>2, <1>10 DEF ValidTerms
  <1> HIDE DEF m
  <1>14. QED
    BY <1>3, <1>7, <1>9, <1>11, <1>12, <1>13

(* The terms stay those of the proforma the CEO approved.                   *)
LEMMA TermsStay ==
    ASSUME ChainInv, InOrder, TermsByCeo, ChecksMatchProforma, [Next]_vars
    PROVE  TermsByCeo' /\ ChecksMatchProforma'
  <1>1. CASE ~Straight'
    BY <1>1 DEF TermsByCeo, ChecksMatchProforma
  <1>2. CASE Straight'
    <2>1. Straight /\ ~Reject /\ ChainOK /\ TypeOK
      BY <1>2, StraightBefore DEF ChainInv
    <2>2. ASSUME NEW x \in Payments, ApproveProforma(x[1], x[2])
          PROVE  TermsByCeo' /\ ChecksMatchProforma'
      <3>1. UNCHANGED paid
        BY <2>2 DEF ApproveProforma
      <3>2. QED
        BY <2>1, <2>2, <3>1, CeoAgrees DEF TermsByCeo, ChecksMatchProforma
    <2>3. ASSUME \A x \in Payments : ~ApproveProforma(x[1], x[2])
          PROVE  TermsByCeo' /\ ChecksMatchProforma'
      <3>1. passed[1] \subseteq passed'[1] /\ (4 \in passed'[1] => 4 \in passed[1])
        <4>1. CASE UNCHANGED run
          BY <4>1 DEF run
        <4>2. CASE Delete
          BY <2>1, <4>2, CancelFacts DEF Delete
        <4>3. ASSUME NEW s \in Steps, CompletedBy(s)
              PROVE  passed[1] \subseteq passed'[1] /\ (4 \in passed'[1] => 4 \in passed[1])
          <5>1. s # 4 /\ Complete(s)
            BY <2>3, <4>3 DEF CompletedBy
          <5>2. passed'[1] = passed[1] \cup Done(s)
            BY <2>1, <5>1, CompleteFacts
          <5>3. 4 \notin Done(s)
            BY <5>1 DEF Done
          <5>4. QED
            BY <5>2, <5>3
        <4>4. QED
          BY <2>1, <4>1, <4>2, <4>3, RunMoves
      <3>2. UNCHANGED terms /\ \A p \in Proformas : /\ proforma'[p].state = "approved" =>
                                                         proforma[p].state = "approved"
                                                    /\ proforma[p].state = "approved" =>
                                                         proforma'[p] = proforma[p]
        BY <2>1, <2>3, TermsMoves, EvidenceStays
      <3>3. paid' => 6 \in passed'[1]
        <4>1. CASE paid
          BY <2>1, <3>1, <4>1 DEF TermsByCeo
        <4>2. CASE MarkPayment
          BY <2>1, <4>2, CompleteFacts DEF MarkPayment, Steps
        <4>3. CASE MarkPaidUnled
          <5>1. outcome[1] # "open" /\ status # "deleted" /\ UNCHANGED run
            BY <4>3 DEF MarkPaidUnled, Active
          <5>2. passed[1] = Steps
            BY <2>1, <5>1 DEF InOrder, Decided, Through, Cancelled
          <5>3. QED
            BY <5>1, <5>2 DEF run, Steps
        <4>4. QED
          BY <2>1, <4>1, <4>2, <4>3, TermsMoves
      <3>4. TermsByCeo'
        BY <2>1, <3>1, <3>2, <3>3 DEF TermsByCeo
      <3>5. ChecksMatchProforma'
        BY <2>1, <3>1, <3>2 DEF ChecksMatchProforma
      <3>6. QED
        BY <3>4, <3>5
    <2>4. QED
      BY <2>2, <2>3
  <1>3. QED
    BY <1>1, <1>2

(* As long as nothing is rejected, the request waits for the step its       *)
(* status says, its checks add up to the proforma that was approved, and it *)
(* is paid after its terms and its invoice.                                 *)
THEOREM PurchaseStraight == Spec => []StraightAsPlanned
  <1> DEFINE I == ChainInv /\ StraightInv
  <1>1. Init => I
    <2> SUFFICES ASSUME Init PROVE ChainInv /\ StraightInv
      OBVIOUS
    <2>1. ChainInv
      BY InitChain
    <2>2. /\ posting = {} /\ paid = FALSE /\ passed[1] = {} /\ todo[1] = 1..9
          /\ outcome[1] = "open" /\ status = "awaiting_stock"
          /\ \A p \in Proformas : proforma[p].state = "none"
      BY DEF Init, Steps, NoProforma
    <2>3. Decided(1) /\ 1 \in Steps
      BY <2>2 DEF Decided, Steps
    <2>4. QED
      BY <2>1, <2>2, <2>3 DEF StraightInv, PostingAtTheEnd, InOrder, TermsByCeo, ChecksMatchProforma
  <1>2. I /\ [Next]_vars => I'
    BY StepChain, PostingKept, InOrderKept, TermsStay DEF StraightInv
  <1>3. I => StraightAsPlanned
    <2> SUFFICES ASSUME I PROVE StatusFollowsChain /\ PaidAsApproved
      BY DEF StraightInv, StraightAsPlanned
    <2>1. ASSUME Straight
          PROVE  (\E s \in Steps : Decided(s)) \/ Through \/ Cancelled
      BY <2>1 DEF StraightInv, InOrder
    <2>2. ASSUME NEW s \in Steps, Decided(s)
          PROVE  At(s) /\ (6 \in passed[1] => {4, 5} \subseteq passed[1])
      BY <2>2 DEF Decided, At, Steps
    <2>3. StatusFollowsChain
      BY <2>1, <2>2 DEF StatusFollowsChain, Active, Decided, Through, Cancelled
    <2>4. PaidAsApproved
      <3> SUFFICES ASSUME Straight, paid
                   PROVE  terms.method # "none" /\ {4, 5} \subseteq passed[1]
        BY DEF PaidAsApproved
      <3>1. 6 \in passed[1] /\ (4 \in passed[1] => terms.method # "none")
        BY DEF StraightInv, TermsByCeo
      <3>2. {4, 5} \subseteq passed[1]
        BY <2>1, <2>2, <3>1 DEF Through, Cancelled, Steps
      <3>3. QED
        BY <3>1, <3>2
    <2>5. QED
      BY <2>3, <2>4
  <1> HIDE DEF I
  <1>4. QED
    BY <1>1, <1>2, <1>3, PTL DEF Spec

-----------------------------------------------------------------------------
(* Purchase orders.                                                         *)

OrderOps == {"none", "create", "link", "request", "update", "delete", "receive"}
OnOrder == {"link", "update", "delete", "receive"}
OrderRows == [status : Statuses \cup {"none", "gone"}, no : Nat, supplier : Suppliers \cup {0},
              of : BOOLEAN, named : BOOLEAN, lines : SUBSET (1..written)]

(* Types, those of what the requests have read among them.                  *)
OrdersTyped ==
    /\ supplier \in [Suppliers -> Names \cup {"none"}]
    /\ order \in [Orders -> OrderRows]
    /\ ofRequest \in Stored \cup {0}
    /\ goods \in [1..MaxLines -> 0..2]
    /\ written \in 0..MaxLines
    /\ deleted \in BOOLEAN /\ rough \in BOOLEAN
    /\ clerk \in [Clerks -> [op : OrderOps, o : Orders \cup {0}, no : 0..Cardinality(Orders) + 1,
                             name : Names \cup {"none"}, supplier : Suppliers \cup {0},
                             seen : OrderRows, left : SUBSET (1..written)]]
    /\ \A c \in Clerks : /\ clerk[c].op \in OnOrder => clerk[c].o \in Orders
                         /\ clerk[c].op = "request" => clerk[c].supplier \in Suppliers
                         /\ clerk[c].left # {} => clerk[c].op = "receive"
                         /\ clerk[c].left \subseteq clerk[c].seen.lines

(* Orders that are stored are finitely many; the next id is a free one.     *)
LEMMA StoredFacts ==
    ASSUME OrdersTyped
    PROVE  /\ Stored \subseteq Orders /\ IsFiniteSet(Stored) /\ Cardinality(Stored) \in Nat
           /\ Cardinality(Stored) <= Cardinality(Orders) /\ Cardinality(Orders) \in Nat
           /\ NextNo \in 1..Cardinality(Orders) + 1
           /\ Unborn # {} => /\ Min(Unborn) \in Orders /\ order[Min(Unborn)].status = "none"
                             /\ Min(Unborn) \notin Stored
           /\ Unused # {} => Min(Unused) \in Suppliers
           /\ NamesRequest # {} => Max(NamesRequest) \in Stored
  <1>1. Stored \subseteq Orders
    BY DEF Stored
  <1>2. /\ IsFiniteSet(Stored) /\ Cardinality(Stored) \in Nat
        /\ Cardinality(Stored) <= Cardinality(Orders) /\ Cardinality(Orders) \in Nat
    BY <1>1, FS_Subset, FS_CardinalityType, OrdersAssumption
  <1>3. NextNo \in 1..Cardinality(Orders) + 1
    BY <1>2 DEF NextNo
  <1>4. Unborn # {} => Min(Unborn) \in Unborn
    <2>1. Unborn \in SUBSET Nat
      BY OrdersAssumption DEF Unborn
    <2> QED
      BY <2>1, MinOf
  <1>5. Unused # {} => Min(Unused) \in Unused
    <2>1. Unused \in SUBSET Nat
      BY OrdersAssumption DEF Unused
    <2> QED
      BY <2>1, MinOf
  <1>6. NamesRequest # {} => Max(NamesRequest) \in NamesRequest
    <2>1. NamesRequest \subseteq Stored /\ NamesRequest \in SUBSET Nat
      BY <1>1, OrdersAssumption DEF NamesRequest
    <2> QED
      BY <1>2, <2>1, FS_Subset, MaxOfFinite
  <1> QED
    BY <1>1, <1>2, <1>3, <1>4, <1>5, <1>6 DEF Unborn, Unused, NamesRequest, Stored, Statuses

(* What a step does to the orders: nothing, one more, another version of    *)
(* one, or one less.  Lines that are added are new.                         *)
NewOnes == written + 1 .. written'
SameOrders == order' = order /\ written' = written /\ deleted' = deleted
Inserted(c, m, row) ==
    /\ order[m].status = "none" /\ row.status \in Statuses
    /\ clerk[c].op \in {"create", "request"} /\ row.no = clerk[c].no /\ Fresh(row.no)
    /\ row \in OrderRows' /\ row.lines \subseteq NewOnes
    /\ order' = [order EXCEPT ![m] = row] /\ deleted' = deleted
Changed(o, row) ==
    /\ o \in Stored /\ row.status \in Statuses /\ row.no = order[o].no
    /\ row \in OrderRows' /\ row.lines \subseteq order[o].lines \cup NewOnes
    /\ order' = [order EXCEPT ![o] = row] /\ deleted' = deleted
Removed(o) ==
    /\ o \in Stored /\ ofRequest' = ofRequest /\ ofRequest # o
    /\ order' = [order EXCEPT ![o] = [NoOrder EXCEPT !.status = "gone"]]
    /\ deleted' /\ written' = written
OrdersEffect(c) ==
    /\ written' \in 0..MaxLines /\ written <= written' /\ written' <= written + 2
    /\ \/ SameOrders
       \/ \E m \in Orders, row \in OrderRows' : Inserted(c, m, row)
       \/ \E o \in Orders, row \in OrderRows' : Changed(o, row)
       \/ \E o \in Orders : Removed(o)

StepOf(c) ==
    \/ \E name \in Names : CreateSupplier(c, name) \/ BeginOrder(c, name)
    \/ \E s \in Suppliers : \/ DeleteSupplier(c, s) \/ BeginForRequest(c, s)
                            \/ \E name \in Names : UpdateSupplier(c, s, name)
    \/ \E o \in Orders : BeginUpdate(c, o) \/ BeginDelete(c, o) \/ BeginReceive(c, o)
    \/ CommitOrder(c) \/ CommitForRequest(c) \/ LinkRequest(c)
    \/ CommitUpdate(c) \/ CommitDelete(c)
    \/ BookLine(c) \/ EndReceive(c)
    \/ Die(c)

(* What a step does to the orders: rows and lines keep their type, stored   *)
(* ones their number.                                                       *)
LEMMA EffectOnOrders ==
    ASSUME OrdersTyped, NEW c \in Clerks, StepOf(c)
    PROVE  OrdersEffect(c)
  <1> USE DEF OrdersTyped
  <1>0. written \in 0..MaxLines /\ MaxLines \in Nat
    BY OrdersAssumption
  <1>a. ASSUME SameOrders PROVE OrdersEffect(c)
    BY <1>0, <1>a DEF OrdersEffect, SameOrders
  <1>b. ASSUME Refused(c) PROVE OrdersEffect(c)
    BY <1>a, <1>b DEF Refused, SameOrders
  <1>c. ASSUME NEW st \in Statuses, NEW s \in Suppliers \cup {0}, NEW of \in BOOLEAN, NEW named \in BOOLEAN,
               NEW n \in 0..2, clerk[c].op \in {"create", "request"}, Fresh(clerk[c].no),
               Insert(st, clerk[c].no, s, of, named, n), deleted' = deleted
        PROVE  OrdersEffect(c)
    <2> DEFINE m == Min(Unborn)
               row == [status |-> st, no |-> clerk[c].no, supplier |-> s, of |-> of,
                       named |-> named, lines |-> NewLines(n)]
    <2>1. /\ Unborn # {} /\ written + n <= MaxLines /\ written' = written + n
          /\ order' = [order EXCEPT ![m] = row]
      BY <1>c DEF Insert
    <2>2. m \in Orders /\ order[m].status = "none"
      BY <2>1, StoredFacts
    <2>3. written' \in 0..MaxLines /\ written <= written' /\ written' <= written + 2
          /\ NewLines(n) = NewOnes /\ NewLines(n) \subseteq 1..written'
      BY <1>0, <2>1 DEF NewLines, NewOnes
    <2>4. clerk[c].no \in Nat
      BY StoredFacts
    <2>5. row \in OrderRows'
      BY <2>3, <2>4 DEF OrderRows, Statuses
    <2>6. row.status \in Statuses /\ row.no = clerk[c].no /\ row.lines = NewLines(n)
      OBVIOUS
    <2> HIDE DEF m, row
    <2>7. Inserted(c, m, row)
      BY <1>c, <2>1, <2>2, <2>3, <2>5, <2>6 DEF Inserted
    <2> QED
      BY <2>2, <2>3, <2>5, <2>7 DEF OrdersEffect
  <1>1. CASE \E name \in Names : CreateSupplier(c, name) \/ BeginOrder(c, name)
    BY <1>1, <1>a DEF CreateSupplier, BeginOrder, SameOrders
  <1>2. CASE \E s \in Suppliers : \/ DeleteSupplier(c, s) \/ BeginForRequest(c, s)
                                  \/ \E name \in Names : UpdateSupplier(c, s, name)
    BY <1>2, <1>a DEF DeleteSupplier, BeginForRequest, UpdateSupplier, SameOrders
  <1>3. CASE \E o \in Orders : BeginUpdate(c, o) \/ BeginDelete(c, o) \/ BeginReceive(c, o)
    BY <1>3, <1>a DEF BeginUpdate, BeginDelete, BeginReceive, SameOrders
  <1>4. CASE CommitOrder(c)
    <2>1. CASE Refused(c)
      BY <1>b, <2>1
    <2>2. CASE ~Refused(c)
      <3> DEFINE r == clerk[c]
      <3>1. /\ Fresh(r.no) /\ SupplierStored(r.supplier, r.name) /\ r.op = "create" /\ deleted' = deleted
            /\ \E st \in Statuses, of, named \in BOOLEAN :
                 Insert(st, r.no, SupplierOf(r.supplier), of, named, IF named THEN 1 ELSE 0)
        BY <1>4, <2>2 DEF CommitOrder
      <3>2. PICK st \in Statuses, of \in BOOLEAN, named \in BOOLEAN :
                 Insert(st, r.no, SupplierOf(r.supplier), of, named, IF named THEN 1 ELSE 0)
        BY <3>1
      <3>3. SupplierOf(r.supplier) \in Suppliers
        BY <3>1, StoredFacts DEF SupplierOf, SupplierStored
      <3>4. (IF named THEN 1 ELSE 0) \in 0..2
        OBVIOUS
      <3> QED
        BY <1>c, <3>1, <3>2, <3>3, <3>4
    <2> QED
      BY <2>1, <2>2
  <1>5. CASE CommitForRequest(c)
    <2>1. CASE Refused(c)
      BY <1>b, <2>1
    <2>2. CASE ~Refused(c)
      <3>1. /\ Fresh(clerk[c].no) /\ clerk[c].op = "request" /\ deleted' = deleted
            /\ Insert("open", clerk[c].no, clerk[c].supplier, TRUE, TRUE, 2)
        BY <1>5, <2>2 DEF CommitForRequest
      <3>2. "open" \in Statuses /\ 2 \in 0..2 /\ clerk[c].supplier \in Suppliers
        BY <3>1 DEF Statuses
      <3> QED
        BY <1>c, <3>1, <3>2
    <2> QED
      BY <2>1, <2>2
  <1>6. CASE LinkRequest(c)
    BY <1>6, <1>a DEF LinkRequest, Refused, SameOrders
  <1> DEFINE o == clerk[c].o
  <1>7. CASE CommitUpdate(c)
    <2>1. CASE Refused(c)
      BY <1>b, <2>1
    <2>2. CASE ~Refused(c)
      <3> DEFINE seen == clerk[c].seen
      <3>1. o \in Stored /\ o \in Orders /\ deleted' = deleted
        BY <1>7, <2>2 DEF CommitUpdate, Stored
      <3>2. PICK st \in Statuses, of \in BOOLEAN, named \in BOOLEAN,
                 s \in {t \in Suppliers : supplier[t] # "none"} :
                 /\ named => written < MaxLines
                 /\ order' = [order EXCEPT ![o] =
                      [order[o] EXCEPT !.status = Kept(seen.status, st, order[o].status),
                                  !.supplier = Kept(seen.supplier, s, order[o].supplier),
                                  !.of = Kept(seen.of, of, order[o].of),
                                  !.named = Kept(seen.named, named, order[o].named),
                                  !.lines = IF named THEN (order[o].lines \ seen.lines) \cup NewLines(1)
                                            ELSE order[o].lines]]
                 /\ written' = IF named THEN written + 1 ELSE written
        BY <1>7, <2>2 DEF CommitUpdate
      <3> DEFINE sn == Kept(seen.status, st, order[o].status)
                 su == Kept(seen.supplier, s, order[o].supplier)
                 ab == Kept(seen.of, of, order[o].of)
                 nm == Kept(seen.named, named, order[o].named)
                 ls == IF named THEN (order[o].lines \ seen.lines) \cup NewLines(1) ELSE order[o].lines
                 row == [order[o] EXCEPT !.status = sn, !.supplier = su, !.of = ab,
                                         !.named = nm, !.lines = ls]
      <3>3. written' \in 0..MaxLines /\ written <= written' /\ written' <= written + 2
            /\ (named => NewLines(1) = NewOnes) /\ 1..written \subseteq 1..written'
            /\ NewOnes \subseteq 1..written'
        BY <1>0, <3>2 DEF NewLines, NewOnes
      <3>4. order[o] \in OrderRows /\ order[o].status \in Statuses
        BY <3>1 DEF Stored
      <3>5. ls \subseteq order[o].lines \cup NewOnes /\ ls \in SUBSET (1..written')
        BY <3>3, <3>4 DEF OrderRows
      <3>6. order' = [order EXCEPT ![o] = row]
        BY <3>1, <3>2, <3>4
      <3>7. row \in OrderRows' /\ row.status \in Statuses /\ row.no = order[o].no /\ row.lines = ls
        <4>1. /\ sn \in Statuses /\ su \in Suppliers \cup {0} /\ ab \in BOOLEAN /\ nm \in BOOLEAN
          BY <3>4 DEF OrderRows, Kept
        <4> HIDE DEF sn, su, ab, nm, ls
        <4> QED
          BY <3>4, <3>5, <4>1 DEF OrderRows
      <3> HIDE DEF ls, row, o
      <3>8. Changed(o, row)
        BY <3>1, <3>3, <3>5, <3>6, <3>7 DEF Changed
      <3> QED
        BY <3>1, <3>3, <3>7, <3>8 DEF OrdersEffect
    <2> QED
      BY <2>1, <2>2
  <1>8. CASE CommitDelete(c)
    <2>1. CASE Refused(c)
      BY <1>b, <2>1
    <2>2. CASE ~Refused(c)
      <3>1. o \in Orders /\ Removed(o)
        BY <1>8, <2>2 DEF CommitDelete, Removed, Stored
      <3> HIDE DEF o
      <3>2. written' = written
        BY <3>1 DEF Removed
      <3> QED
        BY <1>0, <3>1, <3>2 DEF OrdersEffect
    <2> QED
      BY <2>1, <2>2
  <1>9. CASE BookLine(c)
    BY <1>9, <1>a DEF BookLine, Refused, SameOrders
  <1>10. CASE EndReceive(c)
    <2>1. CASE Refused(c)
      BY <1>b, <2>1
    <2>2. CASE ~Refused(c)
      <3>1. /\ o \in Stored /\ o \in Orders /\ UNCHANGED <<written, deleted>>
            /\ order' = [order EXCEPT ![o].status = "received"]
        BY <1>10, <2>2 DEF EndReceive, Stored
      <3> DEFINE row == [order[o] EXCEPT !.status = "received"]
      <3>2. order' = [order EXCEPT ![o] = row] /\ order[o] \in OrderRows
        BY <3>1
      <3>3. row \in OrderRows' /\ row.status \in Statuses /\ row.no = order[o].no /\ row.lines = order[o].lines
        BY <3>1, <3>2 DEF OrderRows, Statuses
      <3> HIDE DEF row, o
      <3>4. Changed(o, row)
        BY <3>1, <3>2, <3>3 DEF Changed
      <3> QED
        BY <1>0, <3>1, <3>3, <3>4 DEF OrdersEffect
    <2> QED
      BY <2>1, <2>2
  <1>11. CASE Die(c)
    BY <1>11, <1>b DEF Die
  <1> QED
    BY <1>1, <1>2, <1>3, <1>4, <1>5, <1>6, <1>7, <1>8, <1>9, <1>10, <1>11 DEF StepOf

(* What that does to the rows and to the set of orders.                     *)
LEMMA RowsAfter ==
    ASSUME OrdersTyped, NEW c \in Clerks, OrdersEffect(c)
    PROVE  /\ order' \in [Orders -> OrderRows']
           /\ 1..written \subseteq 1..written' /\ OrderRows \subseteq OrderRows'
           /\ \A o \in Orders : order'[o].lines \subseteq order[o].lines \cup NewOnes
           /\ \A o, p \in Orders : order'[o] # order[o] /\ order'[p] # order[p] => o = p
           /\ \A o \in Stored : o \in Stored' \/ (ofRequest' = ofRequest /\ ofRequest # o)
  <1> USE DEF OrdersTyped
  <1>1. written \in 0..MaxLines /\ written' \in 0..MaxLines /\ written <= written' /\ MaxLines \in Nat
    BY OrdersAssumption DEF OrdersEffect
  <1>2. 1..written \subseteq 1..written'
    BY <1>1
  <1>3. OrderRows \subseteq OrderRows'
    BY <1>2 DEF OrderRows
  <1>4. [NoOrder EXCEPT !.status = "gone"] \in OrderRows'
    BY DEF NoOrder, OrderRows
  <1>5. CASE SameOrders
    BY <1>2, <1>3, <1>5 DEF SameOrders, Stored
  <1>6. CASE \E m \in Orders, row \in OrderRows' : Inserted(c, m, row)
    <2> PICK m \in Orders, row \in OrderRows' : Inserted(c, m, row)
      BY <1>6
    <2>1. order'[m] = row /\ row.lines \subseteq NewOnes /\ \A o \in Orders : o # m => order'[o] = order[o]
      BY DEF Inserted
    <2>2. order' \in [Orders -> OrderRows']
      BY <1>3 DEF Inserted
    <2>3. m \notin Stored
      BY DEF Inserted, Stored, Statuses
    <2> QED
      BY <1>2, <1>3, <2>1, <2>2, <2>3 DEF Stored
  <1>7. CASE \E o \in Orders, row \in OrderRows' : Changed(o, row)
    <2> PICK m \in Orders, row \in OrderRows' : Changed(m, row)
      BY <1>7
    <2>1. /\ order'[m] = row /\ row.lines \subseteq order[m].lines \cup NewOnes
          /\ row.status \in Statuses /\ \A o \in Orders : o # m => order'[o] = order[o]
      BY DEF Changed
    <2>2. order' \in [Orders -> OrderRows']
      BY <1>3 DEF Changed
    <2> QED
      BY <1>2, <1>3, <2>1, <2>2 DEF Stored
  <1>8. CASE \E o \in Orders : Removed(o)
    <2> PICK m \in Orders : Removed(m)
      BY <1>8
    <2>1. order'[m].lines = {} /\ \A o \in Orders : o # m => order'[o] = order[o]
      BY DEF Removed, NoOrder
    <2>2. order' \in [Orders -> OrderRows']
      BY <1>3, <1>4 DEF Removed
    <2>3. ofRequest' = ofRequest /\ ofRequest # m
      BY DEF Removed
    <2> QED
      BY <1>2, <1>3, <2>1, <2>2, <2>3 DEF Stored
  <1> QED
    BY <1>5, <1>6, <1>7, <1>8 DEF OrdersEffect

(* The request of a clerk may be any of these.                              *)
ClerkRows == [op : OrderOps, o : Orders \cup {0}, no : 0..Cardinality(Orders) + 1,
              name : Names \cup {"none"}, supplier : Suppliers \cup {0},
              seen : OrderRows, left : SUBSET (1..written)]
Consistent(r) ==
    /\ r.op \in OnOrder => r.o \in Orders
    /\ r.op = "request" => r.supplier \in Suppliers
    /\ r.left # {} => r.op = "receive"
    /\ r.left \subseteq r.seen.lines

(* What a step does to the requests: it is that of one clerk, and whoever   *)
(* holds a number for an order to store has just counted it.                *)
ClerkEffect(c) ==
    \E r : /\ Reads(c, r) /\ r \in ClerkRows' /\ Consistent(r)
           /\ \/ r = clerk[c] \/ r.op \notin {"create", "request"}
              \/ r.no = NextNo /\ SameOrders

(* What a step does to the requests that are under way.                     *)
LEMMA EffectOnClerks ==
    ASSUME OrdersTyped, NEW c \in Clerks, StepOf(c)
    PROVE  ClerkEffect(c)
  <1> USE DEF OrdersTyped
  <1>a. OrderRows \subseteq OrderRows' /\ 1..written \subseteq 1..written'
    BY EffectOnOrders, RowsAfter
  <1>b. clerk[c] \in ClerkRows /\ Consistent(clerk[c]) /\ ClerkRows \subseteq ClerkRows'
    BY <1>a DEF ClerkRows, Consistent
  <1>c. Cardinality(Orders) \in Nat /\ NextNo \in 0..Cardinality(Orders) + 1 /\ 0 \in 0..Cardinality(Orders) + 1
    BY StoredFacts
  <1>d. Idle \in ClerkRows' /\ Consistent(Idle) /\ Idle.op = "none"
    BY <1>c DEF Idle, NoOrder, ClerkRows, OrderRows, OrderOps, Consistent, OnOrder
  <1>e. ASSUME Ends(c) PROVE ClerkEffect(c)
    BY <1>d, <1>e DEF Ends, ClerkEffect
  <1>f. ASSUME Refused(c) PROVE ClerkEffect(c)
    BY <1>e, <1>f DEF Refused
  <1>g. ASSUME UNCHANGED clerk PROVE ClerkEffect(c)
    <2>1. Reads(c, clerk[c])
      BY <1>g DEF Reads
    <2> QED
      BY <1>b, <2>1 DEF ClerkEffect
  <1>h. ASSUME NEW o \in Orders, NEW op \in {"update", "delete", "link"},
               Reads(c, [Idle EXCEPT !.op = op, !.o = o, !.seen = order[o]])
        PROVE  ClerkEffect(c)
    <2> DEFINE r == [Idle EXCEPT !.op = op, !.o = o, !.seen = order[o]]
    <2>1. r \in ClerkRows /\ r.op = op /\ Consistent(r)
      BY <1>c DEF Idle, NoOrder, ClerkRows, OrderRows, OrderOps, Consistent, OnOrder
    <2> HIDE DEF r
    <2> QED
      BY <1>b, <1>h, <2>1 DEF ClerkEffect, r
  <1>i. ASSUME NEW o \in Orders, Reads(c, [Idle EXCEPT !.op = "link", !.o = o])
        PROVE  ClerkEffect(c)
    <2> DEFINE r == [Idle EXCEPT !.op = "link", !.o = o]
    <2>1. r \in ClerkRows /\ r.op = "link" /\ Consistent(r)
      BY <1>c DEF Idle, NoOrder, ClerkRows, OrderRows, OrderOps, Consistent, OnOrder
    <2> HIDE DEF r
    <2> QED
      BY <1>b, <1>i, <2>1 DEF ClerkEffect, r
  <1>1. CASE \E name \in Names : CreateSupplier(c, name) \/ BeginOrder(c, name)
    <2> PICK name \in Names : CreateSupplier(c, name) \/ BeginOrder(c, name)
      BY <1>1
    <2>1. CASE CreateSupplier(c, name)
      BY <1>g, <2>1 DEF CreateSupplier
    <2>2. CASE BeginOrder(c, name)
      <3>1. PICK s \in Candidates(name) :
              Reads(c, [Idle EXCEPT !.op = "create", !.no = NextNo, !.name = name, !.supplier = s])
        BY <2>2 DEF BeginOrder
      <3> DEFINE r == [Idle EXCEPT !.op = "create", !.no = NextNo, !.name = name, !.supplier = s]
      <3>2. s \in Suppliers \cup {0}
        BY <3>1 DEF Candidates
      <3>3. r \in ClerkRows /\ r.no = NextNo /\ Consistent(r)
        BY <1>c, <3>2 DEF Idle, NoOrder, ClerkRows, OrderRows, OrderOps, Consistent, OnOrder
      <3> HIDE DEF r
      <3>4. SameOrders
        BY <2>2 DEF BeginOrder, SameOrders
      <3> QED
        BY <1>b, <3>1, <3>3, <3>4 DEF ClerkEffect, r
    <2> QED
      BY <2>1, <2>2
  <1>2. CASE \E s \in Suppliers : \/ DeleteSupplier(c, s) \/ BeginForRequest(c, s)
                                  \/ \E name \in Names : UpdateSupplier(c, s, name)
    <2> PICK s \in Suppliers : \/ DeleteSupplier(c, s) \/ BeginForRequest(c, s)
                               \/ \E name \in Names : UpdateSupplier(c, s, name)
      BY <1>2
    <2>1. CASE DeleteSupplier(c, s) \/ \E name \in Names : UpdateSupplier(c, s, name)
      BY <1>g, <2>1 DEF DeleteSupplier, UpdateSupplier
    <2>2. CASE BeginForRequest(c, s)
      <3>1. CASE NamesRequest # {}
        <4>1. Max(NamesRequest) \in Orders
          BY <3>1, StoredFacts
        <4> QED
          BY <1>i, <2>2, <3>1, <4>1 DEF BeginForRequest
      <3>2. CASE NamesRequest = {}
        <4> DEFINE r == [Idle EXCEPT !.op = "request", !.no = NextNo, !.supplier = s]
        <4>1. Reads(c, r) /\ SameOrders
          BY <2>2, <3>2 DEF BeginForRequest, SameOrders
        <4>2. r \in ClerkRows /\ r.no = NextNo /\ Consistent(r)
          BY <1>c DEF Idle, NoOrder, ClerkRows, OrderRows, OrderOps, Consistent, OnOrder
        <4> HIDE DEF r
        <4> QED
          BY <1>b, <4>1, <4>2 DEF ClerkEffect
      <3> QED
        BY <3>1, <3>2
    <2> QED
      BY <2>1, <2>2
  <1>3. CASE \E o \in Orders : BeginUpdate(c, o) \/ BeginDelete(c, o) \/ BeginReceive(c, o)
    <2> PICK o \in Orders : BeginUpdate(c, o) \/ BeginDelete(c, o) \/ BeginReceive(c, o)
      BY <1>3
    <2>1. CASE BeginUpdate(c, o) \/ BeginDelete(c, o)
      BY <1>h, <2>1 DEF BeginUpdate, BeginDelete
    <2>2. CASE BeginReceive(c, o)
      <3> DEFINE r == [Idle EXCEPT !.op = "receive", !.o = o, !.seen = order[o], !.left = order[o].lines]
      <3>1. r \in ClerkRows /\ r.op = "receive" /\ Consistent(r)
        BY <1>c DEF Idle, NoOrder, ClerkRows, OrderRows, OrderOps, Consistent, OnOrder
      <3>2. Reads(c, r)
        BY <2>2 DEF BeginReceive
      <3> HIDE DEF r
      <3> QED
        BY <1>b, <3>1, <3>2 DEF ClerkEffect
    <2> QED
      BY <2>1, <2>2
  <1>4. CASE CommitOrder(c) \/ LinkRequest(c) \/ CommitUpdate(c) \/ CommitDelete(c) \/ EndReceive(c) \/ Die(c)
    BY <1>4, <1>e, <1>f DEF CommitOrder, LinkRequest, CommitUpdate, CommitDelete, EndReceive, Die
  <1>5. CASE CommitForRequest(c)
    <2>1. CASE Refused(c)
      BY <1>f, <2>1
    <2>2. CASE ~Refused(c)
      <3>1. Reads(c, [Idle EXCEPT !.op = "link", !.o = Min(Unborn)]) /\ Unborn # {}
        BY <1>5, <2>2 DEF CommitForRequest, Insert
      <3>2. Min(Unborn) \in Orders
        BY <3>1, StoredFacts
      <3> QED
        BY <1>i, <3>1, <3>2
    <2> QED
      BY <2>1, <2>2
  <1>6. CASE BookLine(c)
    <2>1. CASE Refused(c)
      BY <1>f, <2>1
    <2>2. CASE ~Refused(c)
      <3> DEFINE x == Min(clerk[c].left)
                 r == [clerk[c] EXCEPT !.left = @ \ {x}]
      <3>1. Reads(c, r) /\ clerk[c].op = "receive"
        BY <1>6, <2>2 DEF BookLine
      <3> HIDE DEF x
      <3>2. r \in ClerkRows /\ r.op = "receive" /\ Consistent(r)
        BY <1>b, <3>1 DEF ClerkRows, Consistent
      <3> HIDE DEF r
      <3> QED
        BY <1>b, <3>1, <3>2 DEF ClerkEffect
    <2> QED
      BY <2>1, <2>2
  <1> QED
    BY <1>1, <1>2, <1>3, <1>4, <1>5, <1>6 DEF StepOf

(* Types are kept.                                                          *)
LEMMA OrdersTypedStep ==
    ASSUME OrdersTyped, NEW c \in Clerks, StepOf(c)
    PROVE  OrdersTyped'
  <1>1. OrdersEffect(c) /\ ClerkEffect(c)
    BY EffectOnOrders, EffectOnClerks
  <1>2. /\ order' \in [Orders -> OrderRows'] /\ 1..written \subseteq 1..written'
        /\ OrderRows \subseteq OrderRows'
        /\ \A o \in Stored : o \in Stored' \/ (ofRequest' = ofRequest /\ ofRequest # o)
    BY <1>1, RowsAfter
  <1>3. written' \in 0..MaxLines
    BY <1>1 DEF OrdersEffect
  <1>4. /\ clerk' \in [Clerks -> ClerkRows'] /\ \A d \in Clerks : Consistent(clerk'[d])
    <2>1. PICK r : Reads(c, r) /\ r \in ClerkRows' /\ Consistent(r)
      BY <1>1 DEF ClerkEffect
    <2>2. clerk \in [Clerks -> ClerkRows] /\ \A d \in Clerks : Consistent(clerk[d])
      BY DEF OrdersTyped, ClerkRows, Consistent
    <2>3. ClerkRows \subseteq ClerkRows'
      BY <1>2 DEF ClerkRows
    <2> QED
      BY <2>1, <2>2, <2>3 DEF Reads
  <1>5. supplier' \in [Suppliers -> Names \cup {"none"}]
    <2>1. clerk[c].op = "create" => clerk[c].name \in Names \cup {"none"}
      BY DEF OrdersTyped
    <2>2. \A s \in Suppliers, name \in Names \cup {"none"} :
            [supplier EXCEPT ![s] = name] \in [Suppliers -> Names \cup {"none"}]
      BY DEF OrdersTyped
    <2>3. Unused # {} => Min(Unused) \in Suppliers
      BY StoredFacts
    <2>4. \/ supplier' = supplier
          \/ \E s \in Suppliers, name \in Names \cup {"none"} : supplier' = [supplier EXCEPT ![s] = name]
      <3>1. CASE CommitOrder(c)
        BY <2>1, <2>3, <3>1 DEF CommitOrder, SupplierStored, Refused
      <3>2. CASE \E name \in Names : CreateSupplier(c, name)
        BY <2>3, <3>2 DEF CreateSupplier
      <3>3. CASE \E s \in Suppliers : DeleteSupplier(c, s) \/ \E name \in Names : UpdateSupplier(c, s, name)
        BY <3>3 DEF DeleteSupplier, UpdateSupplier
      <3>4. CASE ~ \/ CommitOrder(c) \/ \E name \in Names : CreateSupplier(c, name)
                   \/ \E s \in Suppliers : DeleteSupplier(c, s) \/ \E name \in Names : UpdateSupplier(c, s, name)
        BY <3>4 DEF StepOf, BeginOrder, BeginForRequest, BeginUpdate, BeginDelete, BeginReceive,
           CommitForRequest, LinkRequest, CommitUpdate, CommitDelete, BookLine, EndReceive, Die, Refused
      <3> QED
        BY <3>1, <3>2, <3>3, <3>4
    <2> QED
      BY <2>2, <2>4 DEF OrdersTyped
  <1>6. goods' \in [1..MaxLines -> 0..2]
    <2>1. goods' = goods \/ \E i : goods' = [goods EXCEPT ![i] = IF @ = 2 THEN 2 ELSE @ + 1]
      <3>1. CASE BookLine(c)
        BY <3>1 DEF BookLine, Refused
      <3>2. CASE ~BookLine(c)
        BY <3>2 DEF StepOf, CreateSupplier, UpdateSupplier, DeleteSupplier, BeginOrder, BeginForRequest,
           BeginUpdate, BeginDelete, BeginReceive, CommitOrder,
           CommitForRequest, LinkRequest, CommitUpdate, CommitDelete, EndReceive, Die, Refused
      <3> QED
        BY <3>1, <3>2
    <2> QED
      BY <2>1 DEF OrdersTyped
  <1>7. deleted' \in BOOLEAN
    BY <1>1 DEF OrdersEffect, SameOrders, Inserted, Changed, Removed, OrdersTyped
  <1>8. rough' = rough
    BY DEF StepOf, CreateSupplier, UpdateSupplier, DeleteSupplier, BeginOrder, BeginForRequest,
           BeginUpdate, BeginDelete, BeginReceive, CommitOrder,
           CommitForRequest, LinkRequest, CommitUpdate, CommitDelete, BookLine, EndReceive, Die, Refused
  <1>9. ofRequest' \in Stored' \cup {0}
    <2>1. ofRequest' = ofRequest \/ (LinkRequest(c) /\ ofRequest' \in Stored /\ order' = order)
      <3>1. CASE LinkRequest(c)
        BY <3>1 DEF LinkRequest, Refused
      <3>2. CASE ~LinkRequest(c)
        BY <3>2 DEF StepOf, CreateSupplier, UpdateSupplier, DeleteSupplier, BeginOrder, BeginForRequest,
           BeginUpdate, BeginDelete, BeginReceive, CommitOrder,
           CommitForRequest, CommitUpdate, CommitDelete, BookLine, EndReceive, Die, Refused
      <3> QED
        BY <3>1, <3>2
    <2>2. order' = order => Stored' = Stored
      BY DEF Stored
    <2> QED
      BY <1>2, <2>1, <2>2 DEF OrdersTyped
  <1> QED
    BY <1>2, <1>3, <1>4, <1>5, <1>6, <1>7, <1>8, <1>9 DEF OrdersTyped, ClerkRows, Consistent

(* No number is given twice; and as long as no order was deleted those that *)
(* are given are 1 to the count of orders, and whoever is about to store    *)
(* one holds one of them or the next.                                       *)
NumbersKept ==
    /\ \A o, p \in Stored : order[o].no = order[p].no => o = p
    /\ ~deleted =>
         /\ \A o \in Stored : order[o].no \in 1..Cardinality(Stored)
         /\ \A n \in 1..Cardinality(Stored) : \E o \in Stored : order[o].no = n
         /\ \A c \in Clerks : clerk[c].op \in {"create", "request"} =>
                                clerk[c].no \in 1..Cardinality(Stored) + 1

(* A line belongs to one order at most.                                     *)
LinesApart == \A o, p \in Orders : o # p => order[o].lines \cap order[p].lines = {}

(* Each step keeps what is said of the numbers of orders.                   *)
LEMMA NumbersKeptStep ==
    ASSUME OrdersTyped, NumbersKept, NEW c \in Clerks, StepOf(c)
    PROVE  NumbersKept'
  <1> DEFINE n == Cardinality(Stored)
  <1>1. OrdersEffect(c) /\ ClerkEffect(c)
    BY EffectOnOrders, EffectOnClerks
  <1>2. n \in Nat /\ NextNo = n + 1 /\ Stored \subseteq Orders /\ IsFiniteSet(Stored)
    BY StoredFacts DEF NextNo
  <1>3. ASSUME Stored' = Stored, \A o \in Stored : order'[o].no = order[o].no, deleted' = deleted
        PROVE  NumbersKept'
    <2>1. PICK r : /\ Reads(c, r)
                   /\ r = clerk[c] \/ r.op \notin {"create", "request"} \/ r.no = NextNo
      BY <1>1 DEF ClerkEffect
    <2>2. Cardinality(Stored)' = n
      BY <1>3
    <2>3. \A d \in Clerks : clerk'[d] = IF d = c THEN r ELSE clerk[d]
      BY <2>1 DEF Reads, OrdersTyped
    <2> HIDE DEF n
    <2>4. ~deleted => \A d \in Clerks : clerk'[d].op \in {"create", "request"} => clerk'[d].no \in 1..n + 1
      BY <1>2, <2>1, <2>3 DEF NumbersKept, n
    <2> QED
      BY <1>3, <2>2, <2>4 DEF NumbersKept, n
  <1>4. CASE SameOrders
    <2>1. Stored' = Stored
      BY <1>4 DEF SameOrders, Stored
    <2> QED
      BY <1>3, <1>4, <2>1 DEF SameOrders
  <1>5. CASE \E m \in Orders, row \in OrderRows' : Inserted(c, m, row)
    <2> PICK m \in Orders, row \in OrderRows' : Inserted(c, m, row)
      BY <1>5
    <2> DEFINE no == clerk[c].no
    <2>1. m \notin Stored
      BY DEF Inserted, Stored, Statuses
    <2>2. order'[m] = row /\ row.no = no /\ \A o \in Orders : o # m => order'[o] = order[o]
      BY DEF Inserted, OrdersTyped
    <2>3. Stored' = Stored \cup {m}
      BY <2>2 DEF Stored, Inserted
    <2>4. Cardinality(Stored)' = n + 1
      BY <1>2, <2>1, <2>3, FS_AddElement
    <2>5. \A o \in Stored : order'[o] = order[o] /\ order[o].no # no
      BY <1>2, <2>1, <2>2 DEF Inserted, Fresh
    <2>6. \A o, p \in Stored' : order'[o].no = order'[p].no => o = p
      BY <2>2, <2>3, <2>5 DEF NumbersKept
    <2>7. ASSUME ~deleted
          PROVE  /\ \A o \in Stored' : order'[o].no \in 1..n + 1
                 /\ \A i \in 1..n + 1 : \E o \in Stored' : order'[o].no = i
                 /\ \A d \in Clerks : clerk'[d].op \in {"create", "request"} => clerk'[d].no \in 1..n + 1 + 1
      <3>1. /\ \A o \in Stored : order[o].no \in 1..n
            /\ \A i \in 1..n : \E o \in Stored : order[o].no = i
            /\ \A d \in Clerks : clerk[d].op \in {"create", "request"} => clerk[d].no \in 1..n + 1
        BY <2>7 DEF NumbersKept
      <3>2. no \in 1..n + 1
        BY <3>1 DEF Inserted
      <3> HIDE DEF n, no
      <3>3. no = n + 1
        BY <1>2, <2>5, <3>1, <3>2
      <3>4. \A o \in Stored' : order'[o].no \in 1..n + 1
        BY <1>2, <2>2, <2>3, <2>5, <3>1, <3>2
      <3>5. ASSUME NEW i \in 1..n + 1 PROVE \E o \in Stored' : order'[o].no = i
        <4>1. CASE i = n + 1
          BY <2>2, <2>3, <3>3, <4>1
        <4>2. CASE i \in 1..n
          BY <2>3, <2>5, <3>1, <4>2
        <4> QED
          BY <1>2, <4>1, <4>2
      <3>6. ~SameOrders
        BY <2>1, <2>3 DEF SameOrders, Stored
      <3>7. \A d \in Clerks : clerk'[d] = clerk[d] \/ clerk'[d].op \notin {"create", "request"}
        <4>1. PICK r : Reads(c, r) /\ (r = clerk[c] \/ r.op \notin {"create", "request"})
          BY <1>1, <3>6 DEF ClerkEffect
        <4> QED
          BY <4>1 DEF Reads, OrdersTyped
      <3>8. \A d \in Clerks : clerk'[d].op \in {"create", "request"} => clerk'[d].no \in 1..n + 1 + 1
        BY <1>2, <3>1, <3>7
      <3> QED
        BY <3>4, <3>5, <3>8
    <2>8. deleted' = deleted
      BY DEF Inserted
    <2> HIDE DEF n
    <2> QED
      BY <2>4, <2>6, <2>7, <2>8 DEF NumbersKept
  <1>6. CASE \E o \in Orders, row \in OrderRows' : Changed(o, row)
    <2> PICK m \in Orders, row \in OrderRows' : Changed(m, row)
      BY <1>6
    <2>1. order'[m] = row /\ \A o \in Orders : o # m => order'[o] = order[o]
      BY DEF Changed, OrdersTyped
    <2>2. Stored' = Stored
      BY <2>1 DEF Stored, Changed
    <2>3. \A o \in Stored : order'[o].no = order[o].no
      BY <1>2, <2>1 DEF Changed
    <2>4. deleted' = deleted
      BY DEF Changed
    <2> QED
      BY <1>3, <2>2, <2>3, <2>4
  <1>7. CASE \E o \in Orders : Removed(o)
    <2> PICK m \in Orders : Removed(m)
      BY <1>7
    <2>1. \A o \in Orders : o # m => order'[o] = order[o]
      BY DEF Removed, OrdersTyped
    <2>2. Stored' = Stored \ {m}
      <3>1. order'[m].status = "gone"
        BY DEF Removed, OrdersTyped, NoOrder
      <3> QED
        BY <2>1, <3>1 DEF Stored, Statuses
    <2>3. deleted'
      BY DEF Removed
    <2> QED
      BY <1>2, <2>1, <2>2, <2>3 DEF NumbersKept
  <1> QED
    BY <1>1, <1>4, <1>5, <1>6, <1>7 DEF OrdersEffect

(* Each step keeps the lines of different orders apart.                     *)
LEMMA LinesApartStep ==
    ASSUME OrdersTyped, LinesApart, NEW c \in Clerks, StepOf(c)
    PROVE  LinesApart'
  <1>1. OrdersEffect(c)
    BY EffectOnOrders
  <1>2. /\ \A o \in Orders : order'[o].lines \subseteq order[o].lines \cup NewOnes
        /\ \A o, p \in Orders : order'[o] # order[o] /\ order'[p] # order[p] => o = p
    BY <1>1, RowsAfter
  <1>3. \A o \in Orders : order[o].lines \cap NewOnes = {}
    <2>1. \A o \in Orders : order[o].lines \subseteq 1..written
      BY DEF OrdersTyped, OrderRows
    <2>2. 1..written \cap NewOnes = {}
      BY DEF NewOnes, OrdersTyped
    <2> QED
      BY <2>1, <2>2
  <1> QED
    BY <1>2, <1>3 DEF LinesApart

-----------------------------------------------------------------------------
(* One request at a time.                                                   *)

Counted(v) == IF v = 2 THEN 2 ELSE v + 1

(* The order that accounts for the goods of line i.                         *)
AccountsFor(o, i) ==
    /\ i \in order[o].lines /\ order[o].status = "received"
    /\ \A j \in order[o].lines : goods[j] = goods[i]

(* What a request has read is so; a receipt has booked the lines that are   *)
(* not left, which were in the stock equally often.                         *)
StillSo(r) ==
    /\ r.op \in {"update", "delete", "receive"} => r.o \in Stored /\ r.seen = order[r.o]
    /\ r.op = "update" => order[r.o].status \notin Closed
    /\ r.op = "delete" => order[r.o].status # "received"
    /\ r.op = "receive" =>
         \E v \in 0..2 : \A j \in order[r.o].lines : goods[j] = IF j \in r.left THEN v ELSE Counted(v)

StillSoAfter(r) ==
    /\ r.op \in {"update", "delete", "receive"} => r.o \in Stored' /\ r.seen = order'[r.o]
    /\ r.op = "update" => order'[r.o].status \notin Closed
    /\ r.op = "delete" => order'[r.o].status # "received"
    /\ r.op = "receive" =>
         \E v \in 0..2 : \A j \in order'[r.o].lines : goods'[j] = IF j \in r.left THEN v ELSE Counted(v)

ReceivingNow(i) == \E c \in Clerks : clerk[c].op = "receive" /\ i \in order[clerk[c].o].lines

OneClerk ==
    ~rough => /\ \A c, d \in Clerks : clerk[c] # Idle /\ clerk[d] # Idle => c = d
              /\ \A c \in Clerks : StillSo(clerk[c])
              /\ \A i \in 1..MaxLines : goods[i] > 0 =>
                    ReceivingNow(i) \/ \E o \in Stored : AccountsFor(o, i)

(* One request at a time, what it read is still so when it writes.          *)
LEMMA OneClerkStep ==
    ASSUME OrdersTyped, LinesApart, OneClerk, NEW c \in Clerks, StepOf(c)
    PROVE  OneClerk'
  <1>1. rough' = rough
    BY DEF StepOf, CreateSupplier, UpdateSupplier, DeleteSupplier, BeginOrder, BeginForRequest,
           BeginUpdate, BeginDelete, BeginReceive, CommitOrder,
           CommitForRequest, LinkRequest, CommitUpdate, CommitDelete, BookLine, EndReceive, Die, Refused
  <1> SUFFICES ASSUME ~rough PROVE OneClerk'
    BY <1>1 DEF OneClerk
  <1>2. /\ \A d, e \in Clerks : clerk[d] # Idle /\ clerk[e] # Idle => d = e
        /\ \A d \in Clerks : StillSo(clerk[d])
        /\ \A i \in 1..MaxLines : goods[i] > 0 => ReceivingNow(i) \/ \E o \in Stored : AccountsFor(o, i)
    BY DEF OneClerk
  <1>3. Idle.op = "none"
    BY DEF Idle
  <1>4. Stored \subseteq Orders /\ clerk \in [Clerks -> ClerkRows]
    BY DEF Stored, OrdersTyped, ClerkRows
  <1> DEFINE Explained == \A i \in 1..MaxLines : goods'[i] > 0 =>
                             ReceivingNow(i)' \/ \E o \in Stored' : AccountsFor(o, i)'
  <1>a. ASSUME NEW r, Reads(c, r), \A d \in Clerks : d # c => clerk[d] = Idle, StillSoAfter(r), Explained
        PROVE  OneClerk'
    <2>1. \A d \in Clerks : clerk'[d] = IF d = c THEN r ELSE Idle
      BY <1>4, <1>a DEF Reads
    <2>3. StillSoAfter(Idle)
      BY <1>3 DEF StillSoAfter
    <2>4. \A d \in Clerks : StillSoAfter(clerk'[d])
      BY <1>a, <2>1, <2>3
    <2>2. \A d \in Clerks : StillSo(clerk[d])'
      BY <2>4 DEF StillSo, StillSoAfter
    <2> HIDE DEF Explained
    <2> QED
      BY <1>a, <2>1, <2>2 DEF OneClerk, Explained
  <1>b. ASSUME clerk[c].op # "none" PROVE \A d \in Clerks : d # c => clerk[d] = Idle
    BY <1>2, <1>3, <1>b
  <1>c. ASSUME Served(c) PROVE \A d \in Clerks : clerk[d] = Idle
    BY <1>c DEF Served
  <1>d. ASSUME \A d \in Clerks : clerk[d].op # "receive",
               UNCHANGED goods, \A o \in Stored : order[o].status = "received" => order'[o] = order[o]
        PROVE  Explained
    <2>1. ASSUME NEW i \in 1..MaxLines, goods'[i] > 0 PROVE \E o \in Stored' : AccountsFor(o, i)'
      <3>1. PICK o \in Stored : AccountsFor(o, i)
        BY <1>2, <1>d, <2>1 DEF ReceivingNow
      <3>2. order'[o] = order[o]
        BY <1>d, <3>1 DEF AccountsFor
      <3>3. o \in Stored' /\ AccountsFor(o, i)'
        BY <1>d, <3>1, <3>2 DEF AccountsFor, Stored
      <3> QED
        BY <3>3
    <2> QED
      BY <2>1
  <1>e. ASSUME NEW r, r.op \in {"none", "create", "link", "request"} PROVE StillSoAfter(r)
    BY <1>e DEF StillSoAfter
  <1>f. ASSUME Refused(c), clerk[c].op \notin {"none", "receive"} PROVE OneClerk'
    <2>1. \A d \in Clerks : clerk[d].op # "receive"
      BY <1>3, <1>b, <1>f
    <2>2. Explained
      BY <1>d, <1>f, <2>1 DEF Refused
    <2> HIDE DEF Explained
    <2> QED
      BY <1>3, <1>a, <1>b, <1>e, <1>f, <2>2 DEF Refused, Ends
  <1>5. CASE \E name \in Names : CreateSupplier(c, name) \/ BeginOrder(c, name)
    <2>4. \A no, name, s : [Idle EXCEPT !.op = "create", !.no = no, !.name = name, !.supplier = s].op = "create"
      BY DEF Idle
    <2>1. /\ \A d \in Clerks : clerk[d] = Idle
          /\ UNCHANGED <<goods, order>>
          /\ clerk' = clerk \/ \E r : Reads(c, r) /\ r.op = "create"
      <3> PICK name \in Names : CreateSupplier(c, name) \/ BeginOrder(c, name)
        BY <1>5
      <3>1. CASE CreateSupplier(c, name)
        BY <1>c, <3>1 DEF CreateSupplier
      <3>2. CASE BeginOrder(c, name)
        <4>1. PICK s \in Candidates(name) :
                Reads(c, [Idle EXCEPT !.op = "create", !.no = NextNo, !.name = name, !.supplier = s])
          BY <3>2 DEF BeginOrder
        <4>2. UNCHANGED <<goods, order>> /\ Served(c)
          BY <3>2 DEF BeginOrder
        <4>3. [Idle EXCEPT !.op = "create", !.no = NextNo, !.name = name, !.supplier = s].op = "create"
          BY <2>4
        <4> QED
          BY <1>c, <4>1, <4>2, <4>3
      <3> QED
        BY <3>1, <3>2
    <2>2. Explained
      BY <1>3, <1>d, <2>1
    <2>3. \E r : Reads(c, r) /\ r.op \in {"none", "create"}
      BY <1>3, <1>4, <2>1 DEF Reads
    <2> HIDE DEF Explained
    <2> QED
      BY <1>a, <1>e, <2>1, <2>2, <2>3
  <1>6. CASE \E s \in Suppliers : \/ DeleteSupplier(c, s) \/ BeginForRequest(c, s)
                                  \/ \E name \in Names : UpdateSupplier(c, s, name)
    <2>4. \A o, no, s : /\ [Idle EXCEPT !.op = "link", !.o = o].op \in {"link", "request"}
                        /\ [Idle EXCEPT !.op = "request", !.no = no, !.supplier = s].op \in {"link", "request"}
      BY DEF Idle
    <2>1. /\ \A d \in Clerks : clerk[d] = Idle
          /\ UNCHANGED <<goods, order>>
          /\ clerk' = clerk \/ \E r : Reads(c, r) /\ r.op \in {"link", "request"}
      BY <1>6, <1>c, <2>4, Zenon DEF DeleteSupplier, UpdateSupplier, BeginForRequest
    <2>2. Explained
      BY <1>3, <1>d, <2>1
    <2>3. \E r : Reads(c, r) /\ r.op \in {"none", "link", "request"}
      BY <1>3, <1>4, <2>1 DEF Reads
    <2> HIDE DEF Explained
    <2> QED
      BY <1>a, <1>e, <2>1, <2>2, <2>3
  <1>7. CASE \E o \in Orders : BeginUpdate(c, o) \/ BeginDelete(c, o)
    <2> PICK o \in Orders : BeginUpdate(c, o) \/ BeginDelete(c, o)
      BY <1>7
    <2>1. /\ \A d \in Clerks : clerk[d] = Idle
          /\ UNCHANGED <<goods, order>> /\ o \in Stored
      BY <1>c DEF BeginUpdate, BeginDelete
    <2>2. PICK op \in {"update", "delete"} :
             /\ Reads(c, [Idle EXCEPT !.op = op, !.o = o, !.seen = order[o]])
             /\ op = "update" => order[o].status \notin Closed
             /\ op = "delete" => order[o].status # "received"
      BY DEF BeginUpdate, BeginDelete
    <2> DEFINE r == [Idle EXCEPT !.op = op, !.o = o, !.seen = order[o]]
    <2>3. r.op = op /\ r.o = o /\ r.seen = order[o]
      BY DEF Idle
    <2> HIDE DEF r
    <2>4. Stored' = Stored
      BY <2>1 DEF Stored
    <2>5. StillSoAfter(r)
      BY <2>1, <2>2, <2>3, <2>4 DEF StillSoAfter
    <2>6. Explained
      BY <1>3, <1>d, <2>1
    <2> HIDE DEF Explained
    <2> QED
      BY <1>a, <2>1, <2>2, <2>5, <2>6 DEF r
  <1>8. CASE \E o \in Orders : BeginReceive(c, o)
    <2> PICK o \in Orders : BeginReceive(c, o)
      BY <1>8
    <2> DEFINE r == [Idle EXCEPT !.op = "receive", !.o = o, !.seen = order[o], !.left = order[o].lines]
    <2>1. /\ \A d \in Clerks : clerk[d] = Idle
          /\ UNCHANGED <<goods, order>> /\ o \in Stored /\ Reads(c, r)
      BY <1>c DEF BeginReceive
    <2>2. r.op = "receive" /\ r.o = o /\ r.seen = order[o] /\ r.left = order[o].lines
      BY DEF Idle
    <2> HIDE DEF r
    <2>3. \E v \in 0..2 : \A j \in order[o].lines : goods[j] = v
      <3>1. order[o].lines \subseteq 1..MaxLines /\ \A j \in 1..MaxLines : goods[j] \in 0..2
        BY OrdersAssumption DEF OrdersTyped, OrderRows
      <3>2. CASE \E i \in order[o].lines : goods[i] > 0
        <4>1. PICK i \in order[o].lines : goods[i] > 0
          BY <3>2
        <4>2. PICK p \in Stored : AccountsFor(p, i)
          BY <1>2, <1>3, <2>1, <3>1, <4>1 DEF ReceivingNow
        <4>3. p = o
          BY <1>4, <4>1, <4>2 DEF LinesApart, AccountsFor
        <4> QED
          BY <3>1, <4>1, <4>2, <4>3 DEF AccountsFor
      <3>3. CASE \A i \in order[o].lines : ~ (goods[i] > 0)
        BY <3>1, <3>3
      <3> QED
        BY <3>2, <3>3
    <2>4. StillSoAfter(r)
      BY <2>1, <2>2, <2>3 DEF StillSoAfter, Stored
    <2>5. Explained
      BY <1>3, <1>d, <2>1
    <2> HIDE DEF Explained
    <2> QED
      BY <1>a, <2>1, <2>4, <2>5
  <1>9. CASE CommitOrder(c) \/ CommitForRequest(c)
    <2>1. CASE Refused(c)
      BY <1>9, <1>f, <2>1 DEF CommitOrder, CommitForRequest
    <2>2. CASE ~Refused(c)
      <3>6. \A o : [Idle EXCEPT !.op = "link", !.o = o].op \in {"none", "link"}
        BY DEF Idle
      <3>1. /\ Unborn # {} /\ \E row : order' = [order EXCEPT ![Min(Unborn)] = row]
            /\ clerk[c].op \in {"create", "request"} /\ UNCHANGED goods
            /\ \E r : Reads(c, r) /\ r.op \in {"none", "link"}
        <4>1. CASE CommitOrder(c)
          BY <1>3, <2>2, <4>1 DEF CommitOrder, Insert, Ends
        <4>2. CASE CommitForRequest(c)
          <5>1. /\ Insert("open", clerk[c].no, clerk[c].supplier, TRUE, TRUE, 2) /\ UNCHANGED goods
                /\ Reads(c, [Idle EXCEPT !.op = "link", !.o = Min(Unborn)]) /\ clerk[c].op = "request"
            BY <2>2, <4>2 DEF CommitForRequest
          <5>2. [Idle EXCEPT !.op = "link", !.o = Min(Unborn)].op \in {"none", "link"}
            BY <3>6
          <5>3. Unborn # {} /\ \E row : order' = [order EXCEPT ![Min(Unborn)] = row]
            BY <5>1 DEF Insert
          <5> QED
            BY <5>1, <5>2, <5>3
        <4> QED
          BY <1>9, <4>1, <4>2
      <3>2. Min(Unborn) \notin Stored
        BY <3>1, StoredFacts
      <3>3. \A d \in Clerks : clerk[d].op # "receive"
        BY <1>3, <1>b, <3>1
      <3>4. \A o \in Stored : order'[o] = order[o]
        BY <1>4, <3>1, <3>2 DEF OrdersTyped
      <3>5. Explained
        BY <1>d, <3>1, <3>3, <3>4
      <3> HIDE DEF Explained
      <3> QED
        BY <1>a, <1>b, <1>e, <3>1, <3>5
    <2> QED
      BY <2>1, <2>2
  <1>10. CASE LinkRequest(c)
    <2>1. CASE Refused(c)
      BY <1>10, <1>f, <2>1 DEF LinkRequest
    <2>2. CASE ~Refused(c)
      <3>1. clerk[c].op = "link" /\ UNCHANGED <<goods, order>> /\ Reads(c, Idle)
        BY <1>10, <2>2 DEF LinkRequest, Ends
      <3>2. \A d \in Clerks : clerk[d].op # "receive"
        BY <1>3, <1>b, <3>1
      <3>3. Explained
        BY <1>d, <3>1, <3>2
      <3> HIDE DEF Explained
      <3> QED
        BY <1>3, <1>a, <1>b, <1>e, <3>1, <3>3
    <2> QED
      BY <2>1, <2>2
  <1>11. CASE CommitUpdate(c) \/ CommitDelete(c)
    <2>1. CASE Refused(c)
      BY <1>11, <1>f, <2>1 DEF CommitUpdate, CommitDelete
    <2>2. CASE ~Refused(c)
      <3> DEFINE o == clerk[c].o
      <3>1. /\ clerk[c].op \in {"update", "delete"} /\ UNCHANGED goods /\ Reads(c, Idle)
            /\ \E row : order' = [order EXCEPT ![o] = row]
        BY <1>11, <2>2 DEF CommitUpdate, CommitDelete, Ends
      <3>2. order[o].status # "received"
        BY <1>2, <3>1 DEF StillSo, Closed
      <3>3. \A d \in Clerks : clerk[d].op # "receive"
        BY <1>3, <1>b, <3>1
      <3> HIDE DEF o
      <3>4. \A p \in Stored : order[p].status = "received" => order'[p] = order[p]
        BY <1>4, <3>1, <3>2 DEF OrdersTyped
      <3>5. Explained
        BY <1>d, <3>1, <3>3, <3>4
      <3> HIDE DEF Explained
      <3> QED
        BY <1>3, <1>a, <1>b, <1>e, <3>1, <3>5
    <2> QED
      BY <2>1, <2>2
  <1> DEFINE o == clerk[c].o
  <1>12. ASSUME clerk[c].op = "receive"
         PROVE  /\ o \in Stored /\ o \in Orders /\ clerk[c].seen = order[o] /\ clerk[c].left \subseteq order[o].lines
                /\ order[o].lines \subseteq 1..MaxLines
                /\ \E v \in 0..2 : \A j \in order[o].lines :
                       goods[j] = IF j \in clerk[c].left THEN v ELSE Counted(v)
                /\ \A i \in 1..MaxLines : goods[i] > 0 /\ i \notin order[o].lines =>
                      \E p \in Stored \ {o} : AccountsFor(p, i)
    <2>1. o \in Stored /\ clerk[c].seen = order[o]
      BY <1>2, <1>12 DEF StillSo
    <2>2. clerk[c].left \subseteq order[o].lines
      BY <2>1 DEF OrdersTyped
    <2>3. order[o].lines \subseteq 1..MaxLines
      BY <1>4, <2>1, OrdersAssumption DEF OrdersTyped, OrderRows
    <2>4. \E v \in 0..2 : \A j \in order[o].lines :
                       goods[j] = IF j \in clerk[c].left THEN v ELSE Counted(v)
      BY <1>2, <1>12 DEF StillSo
    <2>5. ASSUME NEW i \in 1..MaxLines, goods[i] > 0, i \notin order[o].lines
          PROVE  \E p \in Stored \ {o} : AccountsFor(p, i)
      <3>1. ~ReceivingNow(i)
        BY <1>3, <1>b, <1>12, <2>5 DEF ReceivingNow
      <3> QED
        BY <1>2, <2>5, <3>1 DEF AccountsFor
    <2> QED
      BY <1>4, <2>1, <2>2, <2>3, <2>4, <2>5
  <1>13. CASE BookLine(c)
    <2> DEFINE x == Min(clerk[c].left)
               r == [clerk[c] EXCEPT !.left = @ \ {x}]
    <2>1. clerk[c].op = "receive" /\ clerk[c].left # {}
      BY <1>13 DEF BookLine, OrdersTyped
    <2>2. x \in clerk[c].left
      <3>1. clerk[c].left \in SUBSET Nat
        BY DEF OrdersTyped
      <3> QED
        BY <2>1, <3>1, MinOf
    <2>3. x \in order[o].lines
      BY <1>12, <2>1, <2>2
    <2>4. /\ goods' = [goods EXCEPT ![x] = IF @ = 2 THEN 2 ELSE @ + 1] /\ Reads(c, r)
          /\ UNCHANGED order
      BY <1>13, <2>3 DEF BookLine
    <2> HIDE DEF x
    <2>5. r.op = "receive" /\ r.o = o /\ r.seen = order[o] /\ r.left = clerk[c].left \ {x}
      BY <1>4, <1>12, <2>1 DEF ClerkRows
    <2> HIDE DEF r, o
    <2>6. goods'[x] = Counted(goods[x]) /\ \A j \in 1..MaxLines : j # x => goods'[j] = goods[j]
      BY <1>12, <2>1, <2>3, <2>4 DEF OrdersTyped, Counted
    <2>7. PICK v \in 0..2 : \A j \in order[o].lines : goods[j] = IF j \in clerk[c].left THEN v ELSE Counted(v)
      BY <1>12, <2>1
    <2>8. \A j \in order[o].lines : goods'[j] = IF j \in r.left THEN v ELSE Counted(v)
      BY <1>12, <2>1, <2>2, <2>3, <2>5, <2>6, <2>7
    <2>9. Stored' = Stored
      BY <2>4 DEF Stored
    <2>10. StillSoAfter(r)
      BY <1>12, <2>1, <2>4, <2>5, <2>8, <2>9 DEF StillSoAfter
    <2>11. clerk'[c] = r
      BY <1>4, <2>4 DEF Reads
    <2>12. Explained
      <3> SUFFICES ASSUME NEW i \in 1..MaxLines, goods'[i] > 0
                   PROVE  ReceivingNow(i)' \/ \E p \in Stored' : AccountsFor(p, i)'
        OBVIOUS
      <3>1. CASE i \in order[o].lines
        <4>1. ReceivingNow(i)'
          BY <2>4, <2>5, <2>11, <3>1 DEF ReceivingNow
        <4> QED
          BY <4>1
      <3>2. CASE i \notin order[o].lines
        <4>1. goods'[i] = goods[i]
          BY <2>3, <2>6, <3>2
        <4>2. PICK p \in Stored \ {o} : AccountsFor(p, i)
          BY <1>12, <2>1, <3>2, <4>1
        <4>3. x \notin order[p].lines
          BY <1>4, <1>12, <2>1, <2>3, <4>2 DEF LinesApart
        <4>4. order[p].lines \subseteq 1..MaxLines
          BY <1>4, OrdersAssumption DEF OrdersTyped, OrderRows
        <4>5. AccountsFor(p, i)'
          BY <2>4, <2>6, <4>1, <4>2, <4>3, <4>4 DEF AccountsFor
        <4> QED
          BY <2>9, <4>5
      <3> QED
        BY <3>1, <3>2
    <2> HIDE DEF Explained
    <2> QED
      BY <1>a, <1>b, <2>1, <2>4, <2>10, <2>12
  <1>14. CASE EndReceive(c)
    <2>1. clerk[c].op = "receive" /\ clerk[c].left = {}
      BY <1>14 DEF EndReceive
    <2>2. order' = [order EXCEPT ![o].status = "received"] /\ Reads(c, Idle) /\ UNCHANGED goods
      BY <1>12, <1>14, <2>1 DEF EndReceive, Ends
    <2> HIDE DEF o
    <2>3. /\ order'[o].status = "received" /\ order'[o].lines = order[o].lines
          /\ \A p \in Orders : p # o => order'[p] = order[p]
      BY <1>12, <2>1, <2>2 DEF OrdersTyped, OrderRows
    <2>4. Explained
      <3> SUFFICES ASSUME NEW i \in 1..MaxLines, goods'[i] > 0
                   PROVE  \E p \in Stored' : AccountsFor(p, i)'
        OBVIOUS
      <3>1. CASE i \in order[o].lines
        <4>1. \A j \in order[o].lines : goods[j] = goods[i]
          BY <1>12, <2>1, <3>1
        <4>4. PICK q \in Orders : q = o
          BY <1>12, <2>1
        <4>2. AccountsFor(q, i)'
          BY <2>2, <2>3, <3>1, <4>1, <4>4 DEF AccountsFor
        <4>3. q \in Stored'
          BY <1>12, <2>1, <2>3, <4>4 DEF Stored, Statuses
        <4> QED
          BY <4>2, <4>3
      <3>2. CASE i \notin order[o].lines
        <4>1. PICK p \in Stored \ {o} : AccountsFor(p, i)
          BY <1>12, <2>1, <2>2, <3>2
        <4>2. order'[p] = order[p]
          BY <1>4, <2>3, <4>1
        <4>3. AccountsFor(p, i)' /\ p \in Stored'
          BY <2>2, <4>1, <4>2 DEF AccountsFor, Stored
        <4> QED
          BY <4>3
      <3> QED
        BY <3>1, <3>2
    <2> HIDE DEF Explained
    <2> QED
      BY <1>3, <1>a, <1>b, <1>e, <2>1, <2>2, <2>4
  <1>15. ~Die(c)
    BY DEF Die
  <1> QED
    BY <1>5, <1>6, <1>7, <1>8, <1>9, <1>10, <1>11, <1>13, <1>14, <1>15 DEF StepOf

-----------------------------------------------------------------------------

OrdersInv == OrdersTyped /\ NumbersKept /\ LinesApart /\ OneClerk

(* The first state: no order, no supplier, nobody at work.                  *)
LEMMA OrdersStart == OrdersInit => OrdersInv
  <1> SUFFICES ASSUME OrdersInit PROVE OrdersInv
    OBVIOUS
  <1> USE DEF OrdersInit
  <1>1. Stored = {} /\ Cardinality(Stored) = 0
    <2>1. Stored = {}
      BY DEF Stored, NoOrder, Statuses
    <2> QED
      BY <2>1, FS_EmptySet
  <1>2. Cardinality(Orders) \in Nat
    BY FS_CardinalityType, OrdersAssumption
  <1>3. OrdersTyped
    <2>1. NoOrder \in OrderRows
      BY DEF NoOrder, OrderRows
    <2>2. Idle.op = "none" /\ Idle.left = {} /\ Idle \in ClerkRows
      BY <1>2, <2>1 DEF Idle, ClerkRows, OrderOps
    <2>3. \A c \in Clerks : Consistent(clerk[c])
      BY <2>2 DEF Consistent, OnOrder
    <2>4. written \in 0..MaxLines /\ goods \in [1..MaxLines -> 0..2]
      BY OrdersAssumption
    <2>5. deleted \in BOOLEAN
      OBVIOUS
    <2> QED
      BY <1>1, <2>1, <2>2, <2>3, <2>4, <2>5 DEF OrdersTyped, ClerkRows, Consistent
  <1>4. NumbersKept
    BY <1>1 DEF NumbersKept, Idle
  <1>5. LinesApart
    BY DEF LinesApart, NoOrder
  <1>6. OneClerk
    BY DEF OneClerk, StillSo, Idle
  <1> QED
    BY <1>3, <1>4, <1>5, <1>6 DEF OrdersInv

(* Every step of orders keeps the invariant.                                *)
LEMMA OrdersKept ==
    ASSUME OrdersInv, [OrdersNext]_ordersVars
    PROVE  OrdersInv'
  <1>1. CASE OrdersNext
    <2>1. PICK c \in Clerks : StepOf(c)
      BY <1>1, Zenon DEF OrdersNext, StepOf
    <2> QED
      BY <2>1, OrdersTypedStep, NumbersKeptStep, LinesApartStep, OneClerkStep DEF OrdersInv
  <1>2. CASE UNCHANGED ordersVars
    <2> USE <1>2 DEF ordersVars
    <2>1. Stored' = Stored /\ OrderRows' = OrderRows
      BY DEF Stored, OrderRows
    <2>2. OrdersTyped'
      BY <2>1 DEF OrdersInv, OrdersTyped
    <2>3. NumbersKept'
      BY <2>1 DEF OrdersInv, NumbersKept
    <2>4. LinesApart'
      BY DEF OrdersInv, LinesApart
    <2>5. OneClerk'
      BY <2>1 DEF OrdersInv, OneClerk, StillSo, ReceivingNow, AccountsFor
    <2> QED
      BY <2>2, <2>3, <2>4, <2>5 DEF OrdersInv
  <1> QED
    BY <1>1, <1>2

(* Orders keep their invariant, however requests overlap.                   *)
THEOREM OrdersInvariant == OrdersSpec => []OrdersInv
  BY OrdersStart, OrdersKept, PTL DEF OrdersSpec

(* However requests overlap and wherever the process dies, no number is     *)
(* given to two orders; and as long as none was deleted the next number,    *)
(* which is counted, is a free one.                                         *)
THEOREM OrderNumbersAreFree == OrdersSpec => []NumbersAreFree
  <1>1. OrdersInv => NumbersAreFree
    <2> SUFFICES ASSUME OrdersInv PROVE NumbersAreFree
      OBVIOUS
    <2>1. OrdersTypeOK
      BY DEF OrdersTypeOK, OrdersInv, OrdersTyped, OrderRows
    <2>2. ~deleted => Fresh(NextNo)
      <3>1. Cardinality(Stored) \in Nat /\ NextNo = Cardinality(Stored) + 1
        BY StoredFacts DEF OrdersInv, NextNo
      <3>2. ~deleted => \A o \in Stored : order[o].no \in 1..Cardinality(Stored)
        BY DEF OrdersInv, NumbersKept
      <3> QED
        BY <3>1, <3>2 DEF Fresh
    <2> QED
      BY <2>1, <2>2 DEF NumbersAreFree, OrdersInv, NumbersKept
  <1> QED
    BY <1>1, OrdersInvariant, PTL

(* One request at a time, and nobody at work: what entered the stock are the*)
(* lines of orders that are received, all lines of one equally often.       *)
THEOREM GoodsAreReceived == OrdersSpec => []BookedIsReceived
  <1>1. OrdersInv => BookedIsReceived
    <2> SUFFICES ASSUME OrdersInv, ~rough, AtRest, NEW i \in 1..MaxLines, goods[i] > 0
                 PROVE  \E o \in Stored : AccountsFor(o, i)
      BY DEF BookedIsReceived, AccountsFor
    <2>1. ~ReceivingNow(i)
      BY DEF AtRest, ReceivingNow, Idle
    <2> QED
      BY <2>1 DEF OrdersInv, OneClerk
  <1> QED
    BY <1>1, OrdersInvariant, PTL

(* The numbers of orders are free, and what came in are their lines.        *)
THEOREM OrdersHoldTogether == OrdersSpec => []OrdersAddUp
  BY OrderNumbersAreFree, GoodsAreReceived, PTL DEF OrdersAddUp

(* One request at a time, an order that was received stays as it is: its    *)
(* update and its deletion are refused.                                     *)
THEOREM ReceivedOrdersStay == OrdersSpec => ReceivedStays
  <1>1. OrdersInv /\ [OrdersNext]_ordersVars =>
          [\A o \in Stored : ~rough /\ order[o].status = "received" => order'[o] = order[o]]_ordersVars
    <2> SUFFICES ASSUME OrdersInv, OrdersNext, NEW o \in Stored, ~rough, order[o].status = "received"
                 PROVE  order'[o] = order[o]
      OBVIOUS
    <2>1. PICK c \in Clerks : StepOf(c)
      BY Zenon DEF OrdersNext, StepOf
    <2>2. /\ order \in [Orders -> OrderRows] /\ o \in Orders /\ StillSo(clerk[c])
          /\ clerk[c].op \in OnOrder => clerk[c].o \in Orders
      BY DEF OrdersInv, OrdersTyped, OneClerk, Stored
    <2> DEFINE q == clerk[c].o
    <2>3. CASE CommitUpdate(c) \/ CommitDelete(c)
      <3>1. q # o
        BY <2>2, <2>3 DEF CommitUpdate, CommitDelete, StillSo, Closed
      <3>2. order' = order \/ \E row : order' = [order EXCEPT ![q] = row]
        BY <2>3 DEF CommitUpdate, CommitDelete, Refused
      <3> HIDE DEF q
      <3> QED
        BY <2>2, <3>1, <3>2
    <2>4. CASE EndReceive(c)
      <3>1. order' = order \/ order' = [order EXCEPT ![q].status = "received"]
        BY <2>4 DEF EndReceive, Refused
      <3> HIDE DEF q
      <3> QED
        BY <2>2, <3>1 DEF OrderRows
    <2>5. CASE CommitOrder(c) \/ CommitForRequest(c)
      <3>1. order' = order \/ (Unborn # {} /\ \E row : order' = [order EXCEPT ![Min(Unborn)] = row])
        BY <2>5 DEF CommitOrder, CommitForRequest, Insert, Refused
      <3>2. Unborn # {} => Min(Unborn) # o
        BY StoredFacts DEF OrdersInv
      <3> QED
        BY <2>2, <3>1, <3>2
    <2>6. CASE ~(CommitUpdate(c) \/ CommitDelete(c) \/ EndReceive(c) \/ CommitOrder(c) \/ CommitForRequest(c))
      BY <2>1, <2>6 DEF StepOf, CreateSupplier, UpdateSupplier, DeleteSupplier, BeginOrder, BeginForRequest,
           BeginUpdate, BeginDelete, BeginReceive, LinkRequest, BookLine, Die, Refused
    <2> QED
      BY <2>3, <2>4, <2>5, <2>6
  <1>2. OrdersSpec => [][\A o \in Stored : ~rough /\ order[o].status = "received" => order'[o] = order[o]]_ordersVars
    BY <1>1, OrdersInvariant, PTL DEF OrdersSpec
  <1> QED
    BY <1>2 DEF ReceivedStays

-----------------------------------------------------------------------------
(* Goods receipts.                                                          *)

GrnStatuses == {"none", "draft", "posted", "cancelled"}
GrnOps == {"none", "create", "invoice", "update", "post", "cancel"}
OnReceipt == {"invoice", "update", "post", "cancel"}

(* Types, those of what the requests have read among them.                  *)
ReceiptsTyped ==
    /\ grn \in [Receipts -> [status : GrnStatuses, no : Nat, lines : SUBSET (1..drawn)]]
    /\ invoiced \subseteq Filed
    /\ booked \in [Receipts -> Seq(SUBSET Nat)] /\ \A g \in Receipts : Len(booked[g]) <= 2
    /\ request \in {"receiving", "completed", "other"}
    /\ drawn \in 0..MaxGrnLines
    /\ keeper \in [Keepers -> [op : GrnOps, g : Receipts \cup {0}, no : Nat,
                               seen : [status : GrnStatuses, no : Nat, lines : SUBSET (1..drawn)]]]
    /\ busy \in BOOLEAN
    /\ \A k \in Keepers : keeper[k].op \in OnReceipt => keeper[k].g \in Filed

(* The numbers given out are 1 to the count of receipts, and whoever is     *)
(* about to store one holds one of them or the next.                        *)
NumbersCount ==
    /\ \A g \in Receipts : grn[g].status = "none" => grn[g].no = 0
    /\ \A g \in Filed : grn[g].no \in 1..Cardinality(Filed)
    /\ \A n \in 1..Cardinality(Filed) : \E g \in Filed : grn[g].no = n
    /\ \A g, h \in Filed : grn[g].no = grn[h].no => g = h
    /\ \A k \in Keepers : keeper[k].op = "create" => keeper[k].no \in 1..Cardinality(Filed) + 1

(* What is about to be posted, was posted or was booked has an invoice.     *)
InvoicedFirst ==
    /\ \A k \in Keepers : keeper[k].op = "post" => keeper[k].g \in invoiced
    /\ \A g \in Receipts : booked[g] # <<>> => g \in invoiced
    /\ \A g \in InState("posted") : booked[g] # <<>>

(* One request at a time: there is one at most, and what it has read is so. *)
UpToDate(k) ==
    /\ keeper[k].op = "create" => InState("draft") = {}
    /\ keeper[k].op \in OnReceipt => keeper[k].seen = grn[keeper[k].g]
    /\ keeper[k].op \in {"invoice", "update", "post"} => grn[keeper[k].g].status = "draft"
    /\ keeper[k].op = "cancel" => grn[keeper[k].g].status \in {"draft", "cancelled"}
OneKeeper ==
    ~busy => /\ \A j, k \in Keepers : keeper[j] # Resting /\ keeper[k] # Resting => j = k
             /\ \A k \in Keepers : UpToDate(k)
             /\ \A g \in Receipts : booked[g] = IF grn[g].status = "posted"
                                                THEN <<grn[g].lines>> ELSE <<>>
             /\ \A g, h \in InState("draft") : g = h
             /\ InState("draft") # {} => request = "receiving"

ReceiptsInv == ReceiptsTyped /\ NumbersCount /\ InvoicedFirst /\ OneKeeper

(* The next id, and what storing a receipt under it does to their set.      *)
LEMMA FiledFacts ==
    ASSUME ReceiptsTyped
    PROVE  /\ IsFiniteSet(Filed) /\ Cardinality(Filed) \in Nat
           /\ Unfiled # {} => /\ Min(Unfiled) \in Unfiled
                              /\ Cardinality(Filed \cup {Min(Unfiled)}) = Cardinality(Filed) + 1
                              /\ Cardinality(Filed) + 1 <= Cardinality(Receipts)
           /\ Cardinality(Filed) <= Cardinality(Receipts) /\ Cardinality(Receipts) \in Nat
  <1>1. Filed \subseteq Receipts
    BY DEF Filed
  <1>2. /\ IsFiniteSet(Filed) /\ Cardinality(Filed) \in Nat
        /\ Cardinality(Filed) <= Cardinality(Receipts) /\ Cardinality(Receipts) \in Nat
    BY <1>1, FS_Subset, FS_CardinalityType, ReceiptsAssumption
  <1>3. ASSUME Unfiled # {}
        PROVE  /\ Min(Unfiled) \in Unfiled
               /\ Cardinality(Filed \cup {Min(Unfiled)}) = Cardinality(Filed) + 1
               /\ Cardinality(Filed) + 1 <= Cardinality(Receipts)
    <2>1. Unfiled \in SUBSET Nat
      BY ReceiptsAssumption DEF Unfiled
    <2>2. Min(Unfiled) \in Unfiled
      BY <1>3, <2>1, MinOf
    <2> DEFINE m == Min(Unfiled)
    <2>3. m \notin Filed /\ m \in Receipts
      BY <2>2 DEF Unfiled
    <2> HIDE DEF m
    <2>4. Cardinality(Filed \cup {m}) = Cardinality(Filed) + 1
      BY <1>2, <2>3, FS_AddElement
    <2>5. Filed \cup {m} \subseteq Receipts
      BY <1>1, <2>3
    <2>6. Cardinality(Filed \cup {m}) <= Cardinality(Receipts)
      BY <2>5, FS_Subset, ReceiptsAssumption
    <2>7. QED
      BY <2>2, <2>4, <2>6 DEF m
  <1>4. QED
    BY <1>2, <1>3

(* The first state: no receipt, and nobody is at one.                       *)
LEMMA ReceiptsStart == ReceiptsInit => ReceiptsInv
  <1> SUFFICES ASSUME ReceiptsInit PROVE ReceiptsInv
    OBVIOUS
  <1> USE DEF ReceiptsInit
  <1>1. Filed = {} /\ \A s \in GrnStatuses : s # "none" => InState(s) = {}
    BY DEF Filed, InState, NoReceipt, GrnStatuses
  <1>2. ReceiptsTyped
    <2>1. drawn \in 0..MaxGrnLines
      BY ReceiptsAssumption
    <2>2. booked \in [Receipts -> Seq(SUBSET Nat)] /\ \A g \in Receipts : Len(booked[g]) <= 2
      OBVIOUS
    <2>3. QED
      BY <1>1, <2>1, <2>2 DEF ReceiptsTyped, NoReceipt, Resting, GrnStatuses, GrnOps, OnReceipt
  <1>3. NumbersCount
    <2>1. Cardinality(Filed) = 0
      BY <1>1, FS_EmptySet
    <2>2. QED
      BY <1>1, <2>1 DEF NumbersCount, Resting, NoReceipt
  <1>4. InvoicedFirst
    BY <1>1 DEF InvoicedFirst, Resting, GrnStatuses
  <1>5. OneKeeper
    BY <1>1 DEF OneKeeper, UpToDate, Resting, NoReceipt, OnReceipt, GrnStatuses
  <1>6. QED
    BY <1>2, <1>3, <1>4, <1>5 DEF ReceiptsInv

(* Types are kept.                                                          *)
LEMMA ReceiptsTypedStep ==
    ASSUME ReceiptsTyped, NumbersCount, ReceiptsNext
    PROVE  ReceiptsTyped'
  <1> PICK k \in Keepers :
        \/ BeginReceipt(k) \/ CommitReceipt(k)
        \/ \E op \in {"invoice", "update", "post", "cancel"}, g \in Receipts : BeginOn(k, op, g)
        \/ CommitInvoice(k) \/ CommitLines(k) \/ CommitPosting(k) \/ CommitCancelling(k)
    BY DEF ReceiptsNext
  <1> USE DEF ReceiptsTyped
  <1>1. CASE BeginReceipt(k)
    <2>1. NextGrnNo \in Nat
      BY FiledFacts DEF NextGrnNo
    <2> QED
      BY <1>1, <2>1 DEF BeginReceipt, Looks, Resting, NoReceipt, GrnOps, GrnStatuses, OnReceipt, Filed
  <1>2. CASE CommitReceipt(k)
    <2>1. CASE TurnedDown(k)
      BY <1>2, <2>1 DEF CommitReceipt, TurnedDown, Finishes, Looks, Resting, NoReceipt, GrnOps, GrnStatuses, OnReceipt, Filed
    <2>2. CASE ~TurnedDown(k)
      <3> DEFINE m == Min(Unfiled)
      <3>1. /\ Unfiled # {} /\ drawn < MaxGrnLines
            /\ grn' = [grn EXCEPT ![m] =
                           [status |-> "draft", no |-> keeper[k].no, lines |-> {drawn + 1}]]
            /\ drawn' = drawn + 1
            /\ request' = "receiving"
            /\ Finishes(k) /\ UNCHANGED <<invoiced, booked, busy>>
        BY <1>2, <2>2 DEF CommitReceipt
      <3>2. m \in Receipts /\ m \notin Filed
        BY <3>1, FiledFacts DEF Unfiled
      <3> HIDE DEF m
      <3>3. drawn' \in 0..MaxGrnLines /\ drawn + 1 \in 1..drawn' /\ 1..drawn \subseteq 1..drawn'
        BY <3>1, ReceiptsAssumption
      <3>4. keeper[k].no \in Nat
        OBVIOUS
      <3>5. grn' \in [Receipts -> [status : GrnStatuses, no : Nat, lines : SUBSET (1..drawn')]]
        BY <3>1, <3>2, <3>3, <3>4 DEF GrnStatuses
      <3>6. Filed \subseteq Filed'
        BY <3>1, <3>2 DEF Filed
      <3>7. keeper' \in [Keepers -> [op : GrnOps, g : Receipts \cup {0}, no : Nat,
                               seen : [status : GrnStatuses, no : Nat, lines : SUBSET (1..drawn')]]]
        BY <3>1, <3>3 DEF Finishes, Looks, Resting, NoReceipt, GrnOps, GrnStatuses
      <3>8. \A j \in Keepers : keeper'[j].op \in OnReceipt => keeper'[j].g \in Filed'
        BY <3>1, <3>6 DEF Finishes, Looks, Resting, OnReceipt
      <3> QED
        BY <3>1, <3>3, <3>5, <3>6, <3>7, <3>8
    <2> QED
      BY <2>1, <2>2
  <1>3. CASE \E op \in {"invoice", "update", "post", "cancel"}, g \in Receipts : BeginOn(k, op, g)
    <2> PICK op \in {"invoice", "update", "post", "cancel"}, g \in Receipts : BeginOn(k, op, g)
      BY <1>3
    <2>1. grn[g].status # "none"
      BY DEF BeginOn, MayPost, Ready, MayCancel
    <2> QED
      BY <2>1 DEF BeginOn, Looks, Resting, NoReceipt, GrnOps, GrnStatuses, OnReceipt, Filed
  <1>4. CASE CommitInvoice(k)
    BY <1>4 DEF CommitInvoice, Finishes, Looks, Resting, NoReceipt, GrnOps, GrnStatuses, OnReceipt, Filed
  <1>5. CASE CommitLines(k)
    <2> DEFINE g == keeper[k].g
    <2>1. g \in Filed /\ g \in Receipts /\ grn[g].status # "none"
      BY <1>5 DEF CommitLines, OnReceipt, Filed
    <2>2. PICK n \in {0, 1} :
             /\ drawn + n <= MaxGrnLines
             /\ drawn' = drawn + n
             /\ grn' = [grn EXCEPT ![g].lines =
                          (@ \ keeper[k].seen.lines) \cup IF n = 1 THEN {drawn'} ELSE {}]
      BY <1>5 DEF CommitLines
    <2> DEFINE ls == (grn[g].lines \ keeper[k].seen.lines) \cup (IF n = 1 THEN {drawn'} ELSE {})
    <2>3. drawn' \in 0..MaxGrnLines /\ 1..drawn \subseteq 1..drawn' /\ (n = 1 => drawn' \in 1..drawn')
      BY <2>2, ReceiptsAssumption
    <2>4. ls \in SUBSET (1..drawn')
      BY <2>1, <2>3
    <2>5. grn' = [grn EXCEPT ![g].lines = ls]
      BY <2>2
    <2> HIDE DEF ls, g
    <2>6. grn' \in [Receipts -> [status : GrnStatuses, no : Nat, lines : SUBSET (1..drawn')]]
      BY <2>1, <2>3, <2>4, <2>5
    <2>7. Filed' = Filed
      BY <2>1, <2>5 DEF Filed
    <2>8. Finishes(k) /\ UNCHANGED <<invoiced, booked, request, busy>>
      BY <1>5 DEF CommitLines
    <2> QED
      BY <2>3, <2>6, <2>7, <2>8 DEF Finishes, Looks, Resting, NoReceipt, GrnOps, GrnStatuses, OnReceipt
  <1>6. CASE CommitPosting(k)
    <2> DEFINE g == keeper[k].g
               ls == keeper[k].seen.lines
    <2>1. g \in Filed /\ g \in Receipts /\ grn[g].status # "none"
      BY <1>6 DEF CommitPosting, OnReceipt, Filed
    <2>2. /\ Len(booked[g]) < 2
          /\ booked' = [booked EXCEPT ![g] = Append(@, ls)]
          /\ grn' = [grn EXCEPT ![g].status = "posted"]
          /\ request' = "completed" /\ Finishes(k) /\ UNCHANGED <<invoiced, drawn, busy>>
      BY <1>6 DEF CommitPosting
    <2>3. ls \in SUBSET Nat
      OBVIOUS
    <2> HIDE DEF g, ls
    <2>4. /\ booked' \in [Receipts -> Seq(SUBSET Nat)]
          /\ \A h \in Receipts : Len(booked'[h]) <= 2
      BY <2>1, <2>2, <2>3
    <2>5. grn' \in [Receipts -> [status : GrnStatuses, no : Nat, lines : SUBSET (1..drawn)]]
      BY <2>1, <2>2 DEF GrnStatuses
    <2>6. Filed' = Filed
      BY <2>1, <2>2 DEF Filed
    <2> QED
      BY <2>2, <2>4, <2>5, <2>6 DEF Finishes, Looks, Resting, NoReceipt, GrnOps, GrnStatuses, OnReceipt
  <1>7. CASE CommitCancelling(k)
    <2> DEFINE g == keeper[k].g
               s == IF keeper[k].seen.status = "cancelled" THEN grn[g].status ELSE "cancelled"
    <2>1. g \in Filed /\ g \in Receipts /\ grn[g].status # "none"
      BY <1>7 DEF CommitCancelling, OnReceipt, Filed
    <2>2. /\ grn' = [grn EXCEPT ![g].status = s]
          /\ Finishes(k) /\ UNCHANGED <<invoiced, booked, request, drawn, busy>>
      BY <1>7 DEF CommitCancelling
    <2>3. s \in GrnStatuses /\ s # "none"
      BY <2>1 DEF GrnStatuses
    <2> HIDE DEF g, s
    <2>5. grn' \in [Receipts -> [status : GrnStatuses, no : Nat, lines : SUBSET (1..drawn)]]
      BY <2>1, <2>2, <2>3
    <2>6. Filed' = Filed
      BY <2>1, <2>2, <2>3 DEF Filed
    <2> QED
      BY <2>2, <2>5, <2>6 DEF Finishes, Looks, Resting, NoReceipt, GrnOps, GrnStatuses, OnReceipt
  <1> QED
    BY <1>1, <1>2, <1>3, <1>4, <1>5, <1>6, <1>7

(* Storing a receipt under the number that was read leaves no gap: when it  *)
(* is not given yet it is the next one.                                     *)
LEMMA NumbersCountStep ==
    ASSUME ReceiptsTyped, NumbersCount, ReceiptsNext
    PROVE  NumbersCount'
  <1> PICK k \in Keepers :
        \/ BeginReceipt(k) \/ CommitReceipt(k)
        \/ \E op \in {"invoice", "update", "post", "cancel"}, g \in Receipts : BeginOn(k, op, g)
        \/ CommitInvoice(k) \/ CommitLines(k) \/ CommitPosting(k) \/ CommitCancelling(k)
    BY DEF ReceiptsNext
  <1> DEFINE Same == /\ Filed' = Filed
                     /\ \A g \in Receipts : grn'[g].no = grn[g].no
                     /\ \A g \in Receipts : grn'[g].status = "none" <=> grn[g].status = "none"
             Others == \A j \in Keepers : keeper'[j] = keeper[j] \/ keeper'[j].op # "create"
  <1>a. ASSUME Same, Others PROVE NumbersCount'
    <2>1. Filed \subseteq Receipts
      BY DEF Filed
    <2>2. Filed' = Filed /\ Cardinality(Filed)' = Cardinality(Filed)
      BY <1>a
    <2>3. \A g \in Filed : grn'[g].no = grn[g].no
      BY <1>a, <2>1
    <2>4. \A g \in Receipts : grn'[g].status = "none" => grn'[g].no = 0
      BY <1>a DEF NumbersCount
    <2>5. \A j \in Keepers : keeper'[j].op = "create" => keeper'[j].no \in 1..Cardinality(Filed) + 1
      BY <1>a DEF NumbersCount
    <2> QED
      BY <2>2, <2>3, <2>4, <2>5 DEF NumbersCount
  <1>1. CASE BeginReceipt(k)
    <2>1. NextGrnNo = Cardinality(Filed) + 1 /\ Cardinality(Filed) \in Nat
      BY FiledFacts DEF NextGrnNo
    <2>2. \A j \in Keepers : keeper'[j] = keeper[j] \/ keeper'[j].no = NextGrnNo
      BY <1>1 DEF BeginReceipt, Looks, Resting, ReceiptsTyped
    <2>3. Filed' = Filed /\ grn' = grn
      BY <1>1 DEF BeginReceipt, Filed
    <2> QED
      BY <2>1, <2>2, <2>3 DEF NumbersCount
  <1>2. CASE CommitReceipt(k) /\ ~TurnedDown(k)
    <2> DEFINE m == Min(Unfiled)
               no == keeper[k].no
               c == Cardinality(Filed)
    <2>1. /\ keeper[k].op = "create" /\ Unfiled # {}
          /\ \A g \in Filed : grn[g].no # no
          /\ grn' = [grn EXCEPT ![m] = [status |-> "draft", no |-> no, lines |-> {drawn + 1}]]
          /\ Finishes(k)
      BY <1>2 DEF CommitReceipt
    <2>2. m \in Receipts /\ m \notin Filed /\ Cardinality(Filed \cup {m}) = c + 1 /\ c \in Nat
      BY <2>1, FiledFacts DEF Unfiled
    <2>3. no \in 1..c + 1
      BY <2>1 DEF NumbersCount
    <2>4. \A n \in 1..c : \E g \in Filed : grn[g].no = n
      BY DEF NumbersCount
    <2>5. no \notin 1..c
      BY <2>1, <2>4
    <2>6. no = c + 1
      BY <2>2, <2>3, <2>5
    <2> HIDE DEF m, no
    <2>7. Filed' = Filed \cup {m} /\ grn'[m].no = no
          /\ grn'[m].status = "draft" /\ \A g \in Receipts \ {m} : grn'[g] = grn[g]
      BY <2>1, <2>2 DEF Filed, ReceiptsTyped
    <2>8. Cardinality(Filed') = c + 1
      BY <2>2, <2>7
    <2> HIDE DEF c
    <2>9. /\ \A g \in Receipts : grn'[g].status = "none" => grn'[g].no = 0
          /\ \A g \in Filed' : grn'[g].no \in 1..c + 1
          /\ \A g, h \in Filed' : grn'[g].no = grn'[h].no => g = h
      <3>1. \A g \in Filed : grn[g].no \in 1..c
        BY DEF NumbersCount, c
      <3>2. \A g \in Filed : grn'[g] = grn[g] /\ grn'[g].no \in 1..c /\ grn'[g].no # no
        BY <2>1, <2>2, <2>7, <3>1 DEF Filed
      <3> QED
        BY <2>2, <2>6, <2>7, <3>2 DEF NumbersCount
    <2>10. \A n \in 1..c + 1 : \E g \in Filed' : grn'[g].no = n
      <3> SUFFICES ASSUME NEW n \in 1..c + 1 PROVE \E g \in Filed' : grn'[g].no = n
        OBVIOUS
      <3>1. CASE n \in 1..c
        BY <2>2, <2>4, <2>7, <3>1 DEF Filed
      <3>2. CASE n = no
        BY <2>7, <3>2
      <3> QED
        BY <2>2, <2>6, <3>1, <3>2
    <2>11. \A j \in Keepers : keeper'[j].op = "create" => keeper'[j].no \in 1..c + 1 + 1
      <3>1. \A j \in Keepers : keeper'[j] = keeper[j] \/ keeper'[j].op = "none"
        BY <2>1 DEF Finishes, Looks, Resting, ReceiptsTyped
      <3>2. \A j \in Keepers : keeper[j].op = "create" => keeper[j].no \in 1..c + 1
        BY DEF NumbersCount, c
      <3> QED
        BY <2>2, <3>1, <3>2
    <2> QED
      BY <2>8, <2>9, <2>10, <2>11 DEF NumbersCount
  <1>3. CASE CommitReceipt(k) /\ TurnedDown(k)
    <2>1. Same /\ Others
      BY <1>3 DEF TurnedDown, Finishes, Looks, Resting, Filed, ReceiptsTyped
    <2> QED
      BY <1>a, <2>1
  <1>4. CASE \E op \in {"invoice", "update", "post", "cancel"}, g \in Receipts : BeginOn(k, op, g)
    <2> PICK op \in {"invoice", "update", "post", "cancel"}, g \in Receipts : BeginOn(k, op, g)
      BY <1>4
    <2>1. Same /\ Others
      BY DEF BeginOn, Looks, Resting, Filed, ReceiptsTyped
    <2> QED
      BY <1>a, <2>1
  <1>5. CASE CommitInvoice(k) \/ CommitLines(k) \/ CommitPosting(k) \/ CommitCancelling(k)
    <2> DEFINE g == keeper[k].g
    <2>1. g \in Receipts /\ grn[g].status # "none"
      BY <1>5 DEF CommitInvoice, CommitLines, CommitPosting, CommitCancelling, OnReceipt, Filed, ReceiptsTyped
    <2>2. Finishes(k)
      BY <1>5 DEF CommitInvoice, CommitLines, CommitPosting, CommitCancelling
    <2> HIDE DEF g
    <2>3. \/ grn' = grn
          \/ \E ls : grn' = [grn EXCEPT ![g].lines = ls]
          \/ \E s : s # "none" /\ grn' = [grn EXCEPT ![g].status = s]
      <3>1. CASE CommitInvoice(k)
        BY <3>1 DEF CommitInvoice
      <3>2. CASE CommitLines(k)
        BY <3>2 DEF CommitLines, g
      <3>3. CASE CommitPosting(k)
        BY <3>3 DEF CommitPosting, g
      <3>4. CASE CommitCancelling(k)
        BY <2>1, <3>4 DEF CommitCancelling, g
      <3> QED
        BY <1>5, <3>1, <3>2, <3>3, <3>4
    <2>4. \A h \in Receipts : /\ grn'[h].no = grn[h].no
                              /\ grn'[h].status = "none" <=> grn[h].status = "none"
      <3>1. g \in Receipts /\ grn[g].status # "none" /\ grn \in [Receipts -> [status : GrnStatuses, no : Nat, lines : SUBSET (1..drawn)]]
        BY <2>1 DEF ReceiptsTyped
      <3>2. ASSUME NEW h \in Receipts, h # g PROVE grn'[h] = grn[h]
        BY <2>3, <3>1, <3>2
      <3>3. grn'[g].no = grn[g].no /\ grn'[g].status # "none"
        BY <2>3, <3>1
      <3> QED
        BY <3>1, <3>2, <3>3
    <2>5. Same
      BY <2>4 DEF Filed
    <2>6. Others
      BY <2>2 DEF Finishes, Looks, Resting, ReceiptsTyped
    <2> QED
      BY <1>a, <2>5, <2>6
  <1> QED
    BY <1>1, <1>2, <1>3, <1>4, <1>5

(* A receipt keeps its invoice.                                             *)
LEMMA InvoicedFirstStep ==
    ASSUME ReceiptsTyped, InvoicedFirst, ReceiptsNext
    PROVE  InvoicedFirst'
  <1> PICK k \in Keepers :
        \/ BeginReceipt(k) \/ CommitReceipt(k)
        \/ \E op \in {"invoice", "update", "post", "cancel"}, g \in Receipts : BeginOn(k, op, g)
        \/ CommitInvoice(k) \/ CommitLines(k) \/ CommitPosting(k) \/ CommitCancelling(k)
    BY DEF ReceiptsNext
  <1> USE DEF ReceiptsTyped, InvoicedFirst
  <1>1. CASE BeginReceipt(k)
    BY <1>1 DEF BeginReceipt, Looks, Resting, InState
  <1>2. CASE CommitReceipt(k)
    <2>1. CASE TurnedDown(k)
      BY <2>1 DEF TurnedDown, Finishes, Looks, Resting, InState
    <2>2. CASE ~TurnedDown(k)
      <3> DEFINE m == Min(Unfiled)
      <3>1. /\ Unfiled # {}
            /\ grn' = [grn EXCEPT ![m] =
                           [status |-> "draft", no |-> keeper[k].no, lines |-> {drawn + 1}]]
            /\ Finishes(k) /\ UNCHANGED <<invoiced, booked>>
        BY <1>2, <2>2 DEF CommitReceipt
      <3> HIDE DEF m
      <3>2. \A g \in InState("posted")' : g \in InState("posted")
        BY <3>1 DEF InState
      <3> QED
        BY <3>1, <3>2 DEF Finishes, Looks, Resting
    <2> QED
      BY <2>1, <2>2
  <1>3. CASE \E op \in {"invoice", "update", "post", "cancel"}, g \in Receipts : BeginOn(k, op, g)
    <2> PICK op \in {"invoice", "update", "post", "cancel"}, g \in Receipts : BeginOn(k, op, g)
      BY <1>3
    <2>1. op = "post" => g \in invoiced
      BY DEF BeginOn, MayPost, Ready
    <2>2. keeper'[k].op = op /\ keeper'[k].g = g /\ \A j \in Keepers : j # k => keeper'[j] = keeper[j]
      BY DEF BeginOn, Looks, Resting
    <2>3. UNCHANGED <<grn, invoiced, booked>>
      BY DEF BeginOn
    <2> QED
      BY <2>1, <2>2, <2>3 DEF InState
  <1>4. CASE CommitInvoice(k)
    BY <1>4 DEF CommitInvoice, Finishes, Looks, Resting, InState
  <1>5. CASE CommitLines(k)
    <2>1. \A g \in Receipts : grn'[g].status = grn[g].status
      BY <1>5 DEF CommitLines
    <2> QED
      BY <1>5, <2>1 DEF CommitLines, Finishes, Looks, Resting, InState
  <1>6. CASE CommitPosting(k)
    <2> DEFINE g == keeper[k].g
               ls == keeper[k].seen.lines
    <2>1. g \in invoiced /\ g \in Receipts /\ ls \in SUBSET Nat
      BY <1>6 DEF CommitPosting, OnReceipt, Filed
    <2>2. /\ booked' = [booked EXCEPT ![g] = Append(@, ls)]
          /\ grn' = [grn EXCEPT ![g].status = "posted"]
          /\ Finishes(k) /\ UNCHANGED invoiced
      BY <1>6 DEF CommitPosting
    <2> HIDE DEF g, ls
    <2>3. booked'[g] # <<>> /\ \A h \in Receipts : h # g => booked'[h] = booked[h]
      BY <2>1, <2>2
    <2>4. \A h \in InState("posted")' : h = g \/ h \in InState("posted")
      BY <2>1, <2>2 DEF InState
    <2>5. \A j \in Keepers : keeper'[j] = keeper[j] \/ keeper'[j].op = "none"
      BY <2>2 DEF Finishes, Looks, Resting
    <2> QED
      BY <2>1, <2>2, <2>3, <2>4, <2>5 DEF InState
  <1>7. CASE CommitCancelling(k)
    <2>1. \A g \in InState("posted")' : g \in InState("posted")
      BY <1>7 DEF CommitCancelling, InState
    <2> QED
      BY <1>7, <2>1 DEF CommitCancelling, Finishes, Looks, Resting
  <1> QED
    BY <1>1, <1>2, <1>3, <1>4, <1>5, <1>6, <1>7

(* Nobody changes what the one request has read before it commits.          *)
LEMMA OneKeeperStep ==
    ASSUME ReceiptsTyped, OneKeeper, ReceiptsNext
    PROVE  OneKeeper'
  <1> SUFFICES ASSUME ~busy PROVE OneKeeper'
    <2>1. busy' = busy
      BY DEF ReceiptsNext, BeginReceipt, CommitReceipt, BeginOn, CommitInvoice, CommitLines,
             CommitPosting, CommitCancelling
    <2> QED
      BY <2>1 DEF OneKeeper
  <1> PICK k \in Keepers :
        \/ BeginReceipt(k) \/ CommitReceipt(k)
        \/ \E op \in {"invoice", "update", "post", "cancel"}, g \in Receipts : BeginOn(k, op, g)
        \/ CommitInvoice(k) \/ CommitLines(k) \/ CommitPosting(k) \/ CommitCancelling(k)
    BY DEF ReceiptsNext
  <1> USE DEF ReceiptsTyped
  <1>a. /\ \A i, j \in Keepers : keeper[i] # Resting /\ keeper[j] # Resting => i = j
        /\ \A j \in Keepers : UpToDate(j)
        /\ \A g \in Receipts : booked[g] = IF grn[g].status = "posted"
                                            THEN <<grn[g].lines>> ELSE <<>>
        /\ \A g, h \in InState("draft") : g = h
        /\ InState("draft") # {} => request = "receiving"
    BY DEF OneKeeper
  <1>b. ASSUME Finishes(k), keeper[k].op # "none"
        PROVE  \A j \in Keepers : keeper'[j] = Resting
    <2>1. keeper[k] # Resting
      BY <1>b DEF Resting
    <2> QED
      BY <1>a, <1>b, <2>1 DEF Finishes, Looks
  <1>c. ASSUME \A j \in Keepers : keeper'[j] = Resting,
               \A g \in Receipts : booked'[g] = IF grn'[g].status = "posted"
                                                THEN <<grn'[g].lines>> ELSE <<>>,
               \A g, h \in InState("draft")' : g = h,
               InState("draft")' # {} => request' = "receiving"
        PROVE  OneKeeper'
    <2>1. \A j \in Keepers : UpToDate(j)'
      BY <1>c DEF UpToDate, Resting, OnReceipt
    <2>2. \A i, j \in Keepers : keeper'[i] # Resting /\ keeper'[j] # Resting => i = j
      BY <1>c
    <2> QED
      BY <1>c, <2>1, <2>2 DEF OneKeeper
  <1>d. ASSUME Asks(k), NEW r, Looks(k, r), r.op = "create" => InState("draft") = {},
               r.op \in OnReceipt => r.seen = grn[r.g],
               r.op \in {"invoice", "update", "post"} => grn[r.g].status = "draft",
               r.op = "cancel" => grn[r.g].status \in {"draft", "cancelled"},
               UNCHANGED <<grn, invoiced, booked, request, drawn>>
        PROVE  OneKeeper'
    <2>1. \A j \in Keepers : j # k => keeper'[j] = Resting
      BY <1>d DEF Asks, Looks
    <2>2. keeper'[k] = r /\ \A s : InState(s)' = InState(s)
      BY <1>d DEF Looks, InState
    <2>3. \A j \in Keepers : UpToDate(j)'
      <3> SUFFICES ASSUME NEW j \in Keepers PROVE UpToDate(j)'
        OBVIOUS
      <3>1. CASE j = k
        BY <1>d, <2>2, <3>1 DEF UpToDate
      <3>2. CASE j # k
        BY <2>1, <3>2 DEF UpToDate, Resting, OnReceipt
      <3> QED
        BY <3>1, <3>2
    <2> QED
      BY <1>a, <1>d, <2>1, <2>2, <2>3 DEF OneKeeper
  <1>1. CASE BeginReceipt(k)
    BY <1>1, <1>d DEF BeginReceipt, Receivable, Resting, OnReceipt
  <1>2. CASE CommitReceipt(k)
    <2>1. CASE TurnedDown(k)
      <3>1. \A j \in Keepers : keeper'[j] = Resting
        BY <1>2, <1>b, <2>1 DEF CommitReceipt, TurnedDown
      <3> QED
        BY <1>a, <1>c, <2>1, <3>1 DEF TurnedDown, InState
    <2>2. CASE ~TurnedDown(k)
      <3> DEFINE m == Min(Unfiled)
      <3>1. /\ keeper[k].op = "create" /\ Unfiled # {} /\ request' = "receiving"
            /\ grn' = [grn EXCEPT ![m] =
                           [status |-> "draft", no |-> keeper[k].no, lines |-> {drawn + 1}]]
            /\ Finishes(k) /\ UNCHANGED <<invoiced, booked>>
        BY <1>2, <2>2 DEF CommitReceipt
      <3>2. m \in Receipts /\ grn[m].status = "none"
        BY <3>1, FiledFacts DEF Unfiled, Filed
      <3> HIDE DEF m
      <3>3. InState("draft") = {}
        BY <1>a, <3>1 DEF UpToDate
      <3>4. InState("draft")' = {m}
        BY <3>1, <3>2, <3>3 DEF InState
      <3>5. \A g \in Receipts : booked'[g] = IF grn'[g].status = "posted"
                                                THEN <<grn'[g].lines>> ELSE <<>>
        BY <1>a, <3>1, <3>2
      <3> QED
        BY <1>b, <1>c, <3>1, <3>4, <3>5
    <2> QED
      BY <2>1, <2>2
  <1>3. CASE \E op \in {"invoice", "update", "post", "cancel"}, g \in Receipts : BeginOn(k, op, g)
    <2> PICK op \in {"invoice", "update", "post", "cancel"}, g \in Receipts : BeginOn(k, op, g)
      BY <1>3
    <2> DEFINE r == [Resting EXCEPT !.op = op, !.g = g, !.seen = grn[g]]
    <2>1. r.op = op /\ r.g = g /\ r.seen = grn[g]
      BY DEF Resting
    <2>2. Asks(k) /\ Looks(k, r) /\ UNCHANGED <<grn, invoiced, booked, request, drawn>>
      BY DEF BeginOn
    <2>3. /\ op \in {"invoice", "update", "post"} => grn[g].status = "draft"
          /\ op = "cancel" => grn[g].status \in {"draft", "cancelled"}
      BY DEF BeginOn, MayPost, Ready, MayCancel
    <2> HIDE DEF r
    <2> QED
      BY <1>d, <2>1, <2>2, <2>3
  <1>4. CASE CommitInvoice(k)
    <2>1. \A j \in Keepers : keeper'[j] = Resting
      BY <1>4, <1>b DEF CommitInvoice
    <2> QED
      BY <1>4, <1>a, <1>c, <2>1 DEF CommitInvoice, InState
  <1> DEFINE g == keeper[k].g
  <1>5. CASE CommitLines(k)
    <2>1. \A j \in Keepers : keeper'[j] = Resting
      BY <1>5, <1>b DEF CommitLines
    <2>2. g \in Receipts /\ grn[g].status = "draft" /\ keeper[k].seen = grn[g]
      BY <1>5, <1>a DEF CommitLines, UpToDate, OnReceipt, Filed
    <2>3. /\ \A h \in Receipts : grn'[h].status = grn[h].status /\ (h # g => grn'[h] = grn[h])
          /\ UNCHANGED <<booked, request>>
      BY <1>5, <2>2 DEF CommitLines
    <2> HIDE DEF g
    <2>4. InState("draft")' = InState("draft")
      BY <2>3 DEF InState
    <2>5. \A h \in Receipts : booked'[h] = IF grn'[h].status = "posted"
                                                THEN <<grn'[h].lines>> ELSE <<>>
      BY <1>a, <2>2, <2>3
    <2> QED
      BY <1>a, <1>c, <2>1, <2>3, <2>4, <2>5
  <1>6. CASE CommitPosting(k)
    <2>1. \A j \in Keepers : keeper'[j] = Resting
      BY <1>6, <1>b DEF CommitPosting
    <2>2. g \in Receipts /\ grn[g].status = "draft" /\ keeper[k].seen = grn[g]
      BY <1>6, <1>a DEF CommitPosting, UpToDate, OnReceipt, Filed
    <2>3. /\ booked' = [booked EXCEPT ![g] = Append(@, grn[g].lines)]
          /\ grn' = [grn EXCEPT ![g].status = "posted"]
      BY <1>6, <2>2 DEF CommitPosting
    <2> HIDE DEF g
    <2>4. booked[g] = <<>>
      BY <1>a, <2>2
    <2>5. booked'[g] = <<grn[g].lines>> /\ \A h \in Receipts : h # g => booked'[h] = booked[h]
      BY <2>2, <2>3, <2>4
    <2>6. grn'[g].status = "posted" /\ grn'[g].lines = grn[g].lines
          /\ \A h \in Receipts : h # g => grn'[h] = grn[h]
      BY <2>2, <2>3
    <2>9. g \in InState("draft")
      BY <2>2 DEF InState
    <2>10. \A h \in InState("draft") : h = g
      BY <1>a, <2>9
    <2>7. InState("draft")' = {}
      BY <2>6, <2>10 DEF InState
    <2>8. \A h \in Receipts : booked'[h] = IF grn'[h].status = "posted"
                                                THEN <<grn'[h].lines>> ELSE <<>>
      BY <1>a, <2>5, <2>6
    <2> QED
      BY <1>c, <2>1, <2>7, <2>8
  <1>7. CASE CommitCancelling(k)
    <2>1. \A j \in Keepers : keeper'[j] = Resting
      BY <1>7, <1>b DEF CommitCancelling
    <2>2. g \in Receipts /\ grn[g].status \in {"draft", "cancelled"} /\ keeper[k].seen = grn[g]
      BY <1>7, <1>a DEF CommitCancelling, UpToDate, OnReceipt, Filed
    <2>3. /\ grn'[g].status = "cancelled" /\ \A h \in Receipts : h # g => grn'[h] = grn[h]
          /\ UNCHANGED <<booked, request>>
      BY <1>7, <2>2 DEF CommitCancelling
    <2> HIDE DEF g
    <2>4. InState("draft")' \subseteq InState("draft")
      BY <2>3 DEF InState
    <2>5. \A h \in Receipts : booked'[h] = IF grn'[h].status = "posted"
                                                THEN <<grn'[h].lines>> ELSE <<>>
      BY <1>a, <2>2, <2>3
    <2> QED
      BY <1>a, <1>c, <2>1, <2>3, <2>4, <2>5
  <1> QED
    BY <1>1, <1>2, <1>3, <1>4, <1>5, <1>6, <1>7

(* Every step of receipts keeps the invariant.                              *)
LEMMA ReceiptsKept ==
    ASSUME ReceiptsInv, [ReceiptsNext]_receiptsVars
    PROVE  ReceiptsInv'
  <1>1. CASE ReceiptsNext
    BY <1>1, ReceiptsTypedStep, NumbersCountStep, InvoicedFirstStep, OneKeeperStep DEF ReceiptsInv
  <1>2. CASE UNCHANGED receiptsVars
    <2> USE <1>2 DEF receiptsVars
    <2>1. Filed' = Filed /\ \A s : InState(s)' = InState(s)
      BY DEF Filed, InState
    <2>2. ReceiptsTyped'
      BY <2>1 DEF ReceiptsInv, ReceiptsTyped
    <2>3. NumbersCount'
      BY <2>1 DEF ReceiptsInv, NumbersCount
    <2>4. InvoicedFirst'
      BY <2>1 DEF ReceiptsInv, InvoicedFirst
    <2>5. OneKeeper'
      BY <2>1 DEF ReceiptsInv, OneKeeper, UpToDate
    <2> QED
      BY <2>2, <2>3, <2>4, <2>5 DEF ReceiptsInv
  <1> QED
    BY <1>1, <1>2

(* Receipts keep their invariant, however requests overlap.                 *)
THEOREM ReceiptsInvariant == ReceiptsSpec => []ReceiptsInv
  BY ReceiptsStart, ReceiptsKept, PTL DEF ReceiptsSpec

(* However requests overlap, numbers of receipts differ and the next one is *)
(* free, and what is in the stock has an invoice: post_receipt checks it at *)
(* the start, and an invoice, once linked, is not taken away.               *)
THEOREM InvoicesBeforeStock == ReceiptsSpec => []BookedHasInvoice
  <1>1. ReceiptsInv => BookedHasInvoice
    <2> SUFFICES ASSUME ReceiptsInv PROVE BookedHasInvoice
      OBVIOUS
    <2>1. Cardinality(Filed) \in Nat
      BY FiledFacts DEF ReceiptsInv
    <2>2. \A g \in Filed : grn[g].no \in 1..Cardinality(Filed)
      BY DEF ReceiptsInv, NumbersCount
    <2>3. \A g \in Filed : grn[g].no # NextGrnNo
      BY <2>1, <2>2 DEF NextGrnNo
    <2>4. ASSUME NEW g \in Receipts PROVE grn[g].no \in 0..Cardinality(Receipts)
      <3>1. Cardinality(Filed) <= Cardinality(Receipts) /\ Cardinality(Receipts) \in Nat
        BY FiledFacts DEF ReceiptsInv
      <3>2. CASE g \in Filed
        BY <2>1, <2>2, <3>1, <3>2
      <3>3. CASE g \notin Filed
        BY <3>1, <3>3 DEF ReceiptsInv, NumbersCount, Filed
      <3> QED
        BY <3>2, <3>3
    <2>5. ReceiptsTypeOK
      BY <2>4 DEF ReceiptsInv, ReceiptsTyped, ReceiptsTypeOK, GrnStatuses
    <2> QED
      BY <2>3, <2>5 DEF BookedHasInvoice, ReceiptsInv, NumbersCount, InvoicedFirst
  <1> QED
    BY <1>1, ReceiptsInvariant, PTL

(* One request at a time, the stock got the lines of each posted receipt,   *)
(* once, and nothing of the others.                                         *)
THEOREM StockIsAsPosted == ReceiptsSpec => []BookedAsPosted
  <1>1. ReceiptsInv => BookedAsPosted
    <2> SUFFICES ASSUME ReceiptsInv, ~busy PROVE BookedAsPosted
      BY DEF BookedAsPosted
    <2>1. Cardinality(InState("draft")) <= 1
      <3>1. InState("draft") = {} \/ \E g : InState("draft") = {g}
        BY DEF ReceiptsInv, OneKeeper
      <3> QED
        BY <3>1, FS_EmptySet, FS_Singleton
    <2> QED
      BY <2>1 DEF BookedAsPosted, ReceiptsInv, OneKeeper
  <1> QED
    BY <1>1, ReceiptsInvariant, PTL

(* What entered the stock has an invoice and is what was posted.            *)
THEOREM ReceiptsHoldTogether == ReceiptsSpec => []ReceiptsAddUp
  BY InvoicesBeforeStock, StockIsAsPosted, PTL DEF ReceiptsAddUp

(* One request at a time, a posted receipt and what it booked stay.         *)
THEOREM PostedReceiptsStay == ReceiptsSpec => PostedStays
  <1>1. ReceiptsInv /\ [ReceiptsNext]_receiptsVars =>
          [\A g \in InState("posted") : ~busy => grn'[g] = grn[g] /\ booked'[g] = booked[g]]_receiptsVars
    <2> SUFFICES ASSUME ReceiptsInv, ReceiptsNext, ~busy, NEW g \in InState("posted")
                 PROVE  grn'[g] = grn[g] /\ booked'[g] = booked[g]
      OBVIOUS
    <2>1. g \in Receipts /\ grn[g].status = "posted"
      BY DEF InState
    <2> PICK k \in Keepers :
        \/ BeginReceipt(k) \/ CommitReceipt(k)
        \/ \E op \in {"invoice", "update", "post", "cancel"}, h \in Receipts : BeginOn(k, op, h)
        \/ CommitInvoice(k) \/ CommitLines(k) \/ CommitPosting(k) \/ CommitCancelling(k)
      BY DEF ReceiptsNext
    <2>2. CASE CommitLines(k) \/ CommitPosting(k) \/ CommitCancelling(k)
      <3>1. g # keeper[k].g
        BY <2>1, <2>2 DEF ReceiptsInv, OneKeeper, UpToDate, CommitLines, CommitPosting, CommitCancelling
      <3>2. keeper[k].g \in Receipts
        BY <2>2 DEF ReceiptsInv, ReceiptsTyped, OnReceipt, Filed, CommitLines, CommitPosting, CommitCancelling
      <3> QED
        BY <2>1, <2>2, <3>1, <3>2 DEF CommitLines, CommitPosting, CommitCancelling, ReceiptsInv, ReceiptsTyped
    <2>3. CASE CommitReceipt(k)
      <3>1. CASE TurnedDown(k)
        BY <3>1 DEF TurnedDown
      <3>2. CASE ~TurnedDown(k)
        <4>1. /\ Unfiled # {} /\ UNCHANGED booked
              /\ grn' = [grn EXCEPT ![Min(Unfiled)] =
                           [status |-> "draft", no |-> keeper[k].no, lines |-> {drawn + 1}]]
          BY <2>3, <3>2 DEF CommitReceipt
        <4>2. Min(Unfiled) # g
          BY <2>1, <4>1, FiledFacts DEF ReceiptsInv, Unfiled, Filed
        <4> QED
          BY <2>1, <4>1, <4>2 DEF ReceiptsInv, ReceiptsTyped
      <3> QED
        BY <3>1, <3>2
    <2>4. CASE ~(CommitLines(k) \/ CommitPosting(k) \/ CommitCancelling(k) \/ CommitReceipt(k))
      BY <2>4 DEF BeginReceipt, BeginOn, CommitInvoice
    <2> QED
      BY <2>2, <2>3, <2>4
  <1>2. ReceiptsSpec =>
          [][\A g \in InState("posted") : ~busy => grn'[g] = grn[g] /\ booked'[g] = booked[g]]_receiptsVars
    BY <1>1, ReceiptsInvariant, PTL DEF ReceiptsSpec
  <1> QED
    BY <1>2 DEF PostedStays

-----------------------------------------------------------------------------
(* The catalogue.                                                           *)

(* What is repeated N times stays in the set it works on.                   *)
LEMMA RepeatedStays ==
    ASSUME NEW S, NEW x \in S, NEW go \in [S -> S], NEW N \in Nat, NEW g,
           g[0] = x, \A n \in 1..N : g[n - 1] \in S => g[n] = go[g[n - 1]]
    PROVE  \A n \in 0..N : g[n] \in S
  <1> DEFINE bad == {n \in 0..N : g[n] \notin S}
  <1> SUFFICES ASSUME bad # {} PROVE FALSE
    OBVIOUS
  <1> DEFINE m == Min(bad)
  <1>1. m \in bad /\ \A y \in bad : m <= y
    BY MinOf
  <1> HIDE DEF m
  <1>2. m # 0 /\ m \in 1..N
    BY <1>1
  <1>3. m - 1 \in 0..N /\ m - 1 \notin bad
    BY <1>1, <1>2
  <1> QED
    BY <1>1, <1>2, <1>3

Repeats(f, S, x, go, N) == f \in [0..N -> S] /\ f[0] = x /\ \A n \in 1..N : f[n] = go[f[n - 1]]

(* There is a function that starts with x and goes on by go each time.      *)
LEMMA RepeatedExists ==
    ASSUME NEW S, NEW x \in S, NEW go \in [S -> S], NEW N \in Nat
    PROVE  \E f : Repeats(f, S, x, go, N)
  <1> DEFINE Good(k, f) == f \in [0..k -> S] /\ f[0] = x /\ \A n \in 1..k : f[n] = go[f[n - 1]]
             bad == {k \in 0..N : ~ \E f : Good(k, f)}
  <1>1. SUFFICES ASSUME bad # {} PROVE FALSE
    <2>1. N \notin bad
      BY <1>1
    <2>2. PICK f : Good(N, f)
      BY <2>1
    <2> QED
      BY <2>2 DEF Repeats
  <1> DEFINE m == Min(bad)
  <1>9. bad \in SUBSET Nat /\ bad \subseteq 0..N
    OBVIOUS
  <1>2. m \in bad /\ \A y \in bad : m <= y
    <2> HIDE DEF bad
    <2> QED
      BY <1>1, <1>9, MinOf
  <1> HIDE DEF m
  <1>3. m # 0
    <2>1. Good(0, [n \in 0..0 |-> x])
      OBVIOUS
    <2> QED
      BY <1>2, <2>1
  <1>4. m - 1 \in 0..N /\ m - 1 \notin bad /\ m \in 1..N
    <2> HIDE DEF bad
    <2> QED
      BY <1>2, <1>3, <1>9
  <1>5. PICK f : Good(m - 1, f)
    BY <1>4
  <1> DEFINE h == [n \in 0..m |-> IF n = m THEN go[f[m - 1]] ELSE f[n]]
  <1>6. h \in [0..m -> S] /\ h[0] = x
    <2>1. f[m - 1] \in S
      BY <1>4, <1>5
    <2>2. \A n \in 0..m : n # m => n \in 0..(m - 1)
      BY <1>4
    <2> QED
      BY <1>3, <1>4, <1>5, <2>1, <2>2
  <1>7. ASSUME NEW n \in 1..m PROVE h[n] = go[h[n - 1]]
    <2>1. n - 1 \in 0..m /\ n - 1 # m /\ h[n - 1] = f[n - 1]
      BY <1>4
    <2>2. CASE n = m
      BY <1>4, <2>1, <2>2
    <2>3. CASE n # m
      <3>1. n \in 1..(m - 1) /\ h[n] = f[n]
        BY <1>4, <2>3
      <3> QED
        BY <1>5, <2>1, <3>1
    <2> QED
      BY <2>2, <2>3
  <1> QED
    BY <1>2, <1>6, <1>7

(* f makes a set of members of U grow N times, from x, by what go adds.     *)
Spreads(f, U, x, go, N) ==
    /\ IsFiniteSet(U) /\ N \in Nat /\ Cardinality(U) <= N
    /\ x \in SUBSET U /\ go \in [SUBSET U -> SUBSET U] /\ \A X \in SUBSET U : X \subseteq go[X]
    /\ f[0] = x /\ \A n \in 1..N : f[n - 1] \in SUBSET U => f[n] = go[f[n - 1]]

(* A set that grows has, after as many times as there are members to meet,  *)
(* all that its start leads to, and nothing else.                           *)
LEMMA SpreadIs ==
    ASSUME NEW f, NEW U, NEW x, NEW go, NEW N, Spreads(f, U, x, go, N)
    PROVE  /\ f[N] \in SUBSET U /\ x \subseteq f[N] /\ go[f[N]] = f[N]
           /\ \A S \in SUBSET U : x \subseteq S /\ (\A X \in SUBSET S : go[X] \subseteq S) => f[N] \subseteq S
  <1> DEFINE Z == SUBSET U
  <1>0. /\ IsFiniteSet(U) /\ N \in Nat /\ Cardinality(U) <= N
        /\ x \in Z /\ go \in [Z -> Z] /\ \A X \in Z : X \subseteq go[X]
        /\ f[0] = x /\ \A n \in 1..N : f[n - 1] \in Z => f[n] = go[f[n - 1]]
    BY DEF Spreads
  <1>10. N \in Nat /\ 0 \in 0..N /\ IsFiniteSet(U) /\ f[0] = x
    BY <1>0
  <1>1. ASSUME NEW S \in SUBSET U, x \subseteq S, \A X \in SUBSET S : go[X] \subseteq S
        PROVE  \A n \in 0..N : f[n] \in SUBSET S
    <2> DEFINE Y == SUBSET S
               on == [X \in Y |-> go[X]]
    <2>1. on \in [Y -> Y] /\ x \in Y
      BY <1>0, <1>1
    <2>2. \A n \in 1..N : f[n - 1] \in Y => f[n] = on[f[n - 1]]
      BY <1>0, <1>1
    <2> HIDE DEF Y, on
    <2>3. \A n \in 0..N : f[n] \in Y
      BY <1>10, <2>1, <2>2, RepeatedStays
    <2> QED
      BY <2>3 DEF Y
  <1>2. \A n \in 0..N : f[n] \in SUBSET U
    BY <1>0, <1>1
  <1>3. \A n \in 1..N : f[n] = go[f[n - 1]] /\ f[n - 1] \subseteq f[n] /\ n - 1 \in 0..N
    BY <1>0, <1>2
  <1> DEFINE Fine(k) == x \subseteq f[k] /\ (go[f[k]] = f[k] \/ Cardinality(f[k]) >= k)
             bad == {k \in 0..N : ~Fine(k)}
  <1>4. \A k \in 0..N : IsFiniteSet(f[k]) /\ Cardinality(f[k]) \in Nat
    BY <1>0, <1>2, FS_Subset, FS_CardinalityType
  <1>5. bad = {}
    <2> SUFFICES ASSUME bad # {} PROVE FALSE
      OBVIOUS
    <2> DEFINE m == Min(bad)
    <2>1. m \in bad /\ \A y \in bad : m <= y
      BY <1>10, MinOf
    <2> HIDE DEF m
    <2>2. m # 0
      <3>1. Cardinality(f[0]) >= 0
        BY <1>4, <1>10
      <3> QED
        BY <1>0, <2>1, <3>1
    <2>3. m \in 1..N /\ m - 1 \in 0..N /\ Fine(m - 1)
      BY <1>0, <2>1, <2>2
    <2> DEFINE A == f[m - 1]
               B == f[m]
    <2>4. B = go[A] /\ A \subseteq B /\ x \subseteq B /\ A \in SUBSET U /\ B \in SUBSET U
      BY <1>0, <1>2, <1>3, <2>3
    <2>5. IsFiniteSet(A) /\ IsFiniteSet(B) /\ Cardinality(A) \in Nat /\ Cardinality(B) \in Nat
      BY <1>0, <1>4, <2>3
    <2> HIDE DEF A, B
    <2>6. CASE go[A] = A
      BY <1>0, <2>1, <2>3, <2>4, <2>6 DEF A, B
    <2>7. CASE go[A] # A
      <3>1. Cardinality(A) <= Cardinality(B) /\ Cardinality(A) # Cardinality(B)
        BY <1>0, <2>4, <2>5, <2>7, FS_Subset
      <3>2. Cardinality(A) >= m - 1
        BY <2>3, <2>7 DEF A
      <3>3. Cardinality(B) >= m
        BY <2>3, <2>5, <3>1, <3>2
      <3> QED
        BY <1>0, <2>1, <2>4, <3>3 DEF B
    <2> QED
      BY <2>6, <2>7
  <1>6. N \in 0..N /\ Fine(N)
    BY <1>0, <1>5
  <1>7. go[f[N]] = f[N]
    <2>1. CASE Cardinality(f[N]) >= N
      <3>1. f[N] \subseteq U /\ Cardinality(f[N]) = Cardinality(U)
        <4>1. Cardinality(f[N]) <= Cardinality(U) /\ Cardinality(U) \in Nat
          BY <1>0, <1>2, <1>6, FS_Subset, FS_CardinalityType
        <4> QED
          BY <1>0, <1>2, <1>4, <1>6, <2>1, <4>1
      <3>2. f[N] = U
        BY <1>10, <3>1, FS_Subset
      <3>3. U \in Z /\ go[U] \in Z /\ U \subseteq go[U]
        BY <1>0
      <3> QED
        BY <3>2, <3>3
    <2> QED
      BY <1>6, <2>1
  <1> QED
    BY <1>0, <1>1, <1>2, <1>6, <1>7

(* The walk up from p, as in Above.                                         *)
Ascent(cat, p) ==
    LET up[n \in 0..Cardinality(Categories)] ==
            IF n = 0 THEN {p} \ {0}
            ELSE up[n - 1] \cup ({cat[d].in : d \in up[n - 1]} \ {0})
    IN up[Cardinality(Categories)]
Tops(cat, p) == \E d \in Ascent(cat, p) : cat[d].in = 0

(* A walk that ends in a group ends in the same    , or at its parent.     *)
Contained(cat, S) == \A d \in S : cat[d].in \in S \cup {0}

(* The walk up finds the least set that holds p and the parents of all it   *)
(* holds: a longer one would meet more groups than there are.               *)
LEMMA AscentIs ==
    ASSUME NEW Now \in SUBSET Categories, NEW cat, Contained(cat, Now), NEW p \in Now
    PROVE  /\ p \in Ascent(cat, p) /\ Ascent(cat, p) \subseteq Now /\ Contained(cat, Ascent(cat, p))
           /\ \A S \in SUBSET Now : p \in S /\ Contained(cat, S) => Ascent(cat, p) \subseteq S
  <1> DEFINE K == Cardinality(Categories)
             On(X) == X \cup ({cat[d].in : d \in X} \ {0})
             U(f) == [n \in 0..K |-> IF n = 0 THEN {p} \ {0} ELSE On(f[n - 1])]
             up == CHOOSE f : f = U(f)
             Z == SUBSET Now
             go == [X \in Z |-> On(X)]
  <1>1. K \in Nat /\ IsFiniteSet(Now) /\ Cardinality(Now) <= K /\ {p} \ {0} = {p}
    BY CatalogueAssumption, FS_Subset, FS_CardinalityType
  <1>2. Ascent(cat, p) = up[K]
    BY DEF Ascent
  <1>3. go \in [Z -> Z] /\ {p} \in Z
    BY DEF Contained
  <1>4. \A X \in Z : go[X] = On(X) /\ X \subseteq go[X]
    OBVIOUS
  <1>5. \A X \in Z : Contained(cat, X) <=> On(X) = X
    BY DEF Contained
  <1> HIDE DEF K, On, Z, go
  <1>6. up = U(up)
    <2>1. PICK f : Repeats(f, Z, {p}, go, K)
      BY <1>1, <1>3, RepeatedExists
    <2>2. f = U(f)
      <3>1. ASSUME NEW n \in 0..K PROVE f[n] = U(f)[n]
        <4>1. CASE n = 0
          BY <1>1, <2>1, <4>1 DEF Repeats
        <4>2. CASE n # 0
          <5>1. n \in 1..K /\ n - 1 \in 0..K
            BY <1>1, <4>2
          <5>2. f[n] = go[f[n - 1]] /\ f[n - 1] \in Z
            BY <2>1, <5>1 DEF Repeats
          <5> QED
            BY <1>4, <4>2, <5>1, <5>2
        <4> QED
          BY <4>1, <4>2
      <3> QED
        BY <2>1, <3>1 DEF Repeats
    <2> HIDE DEF U
    <2> QED
      BY <2>2
  <1> HIDE DEF up
  <1>7. up[0] = {p} /\ \A n \in 1..K : up[n - 1] \in Z => up[n] = go[up[n - 1]]
    <2>1. DOMAIN up = 0..K /\ \A n \in 0..K : up[n] = U(up)[n]
      BY <1>6
    <2>2. 0 \in 0..K /\ \A n \in 1..K : n \in 0..K /\ n # 0
      BY <1>1
    <2>3. up[0] = {p}
      BY <1>1, <2>1, <2>2
    <2>4. ASSUME NEW n \in 1..K, up[n - 1] \in Z PROVE up[n] = go[up[n - 1]]
      BY <1>4, <2>1, <2>2, <2>4
    <2> QED
      BY <2>3, <2>4
  <1> HIDE DEF U
  <1>8. /\ up[K] \in Z /\ {p} \subseteq up[K] /\ go[up[K]] = up[K]
        /\ \A S \in Z : {p} \subseteq S /\ (\A X \in SUBSET S : go[X] \subseteq S) => up[K] \subseteq S
    <2>1. Spreads(up, Now, {p}, go, K)
      BY <1>1, <1>3, <1>4, <1>7 DEF Spreads, Z
    <2> QED
      BY <2>1, SpreadIs DEF Z
  <1>9. ASSUME NEW S \in SUBSET Now, p \in S, Contained(cat, S) PROVE up[K] \subseteq S
    <2>1. S \in Z /\ \A X \in SUBSET S : X \in Z /\ On(X) \subseteq S
      BY <1>9 DEF Z, Contained, On
    <2> QED
      BY <1>4, <1>8, <1>9, <2>1
  <1>10. p \in up[K] /\ up[K] \subseteq Now /\ Contained(cat, up[K])
    BY <1>4, <1>5, <1>8 DEF Z
  <1> QED
    BY <1>2, <1>9, <1>10

(* A group gets another parent, is new, or is removed: if what is above its *)
(* new parent has a top, and not this one, all still have a top.            *)
LEMMA StillTops ==
    ASSUME NEW Now \in SUBSET Categories, NEW Soon \in SUBSET Categories, NEW cat, NEW new, NEW d,
           Contained(cat, Now), Contained(new, Soon),
           \A x \in Soon \ {d} : x \in Now /\ new[x].in = cat[x].in,
           d \in Soon => \/ new[d].in = 0
                         \/ d \in Now /\ new[d].in = cat[d].in
                         \/ /\ new[d].in \in Now /\ d \notin Ascent(cat, new[d].in)
                            /\ Tops(cat, new[d].in),
           \A x \in Now : Tops(cat, x)
    PROVE  \A x \in Soon : Tops(new, x)
  <1> SUFFICES ASSUME NEW x \in Soon PROVE Tops(new, x)
    OBVIOUS
  <1> DEFINE T == Ascent(new, x)
  <1>1. x \in T /\ T \subseteq Soon /\ Contained(new, T)
    BY AscentIs
  <1> HIDE DEF T
  <1>2. ASSUME NEW y \in T \cap Now, d \notin Ascent(cat, y) PROVE Tops(new, x)
    <2> DEFINE C == Ascent(cat, y)
               S == T \cap C
    <2>1. y \in C /\ C \subseteq Now /\ Contained(cat, C) /\ \A Z \in SUBSET Now : y \in Z /\ Contained(cat, Z) => C \subseteq Z
      BY AscentIs
    <2>2. d \notin C /\ Tops(cat, y)
      BY <1>2
    <2>3. PICK r \in C : cat[r].in = 0
      BY <2>2 DEF Tops
    <2> HIDE DEF C
    <2>4. ASSUME NEW z \in S PROVE new[z].in = cat[z].in
      BY <1>1, <2>2
    <2>5. Contained(cat, S)
      BY <1>1, <2>1, <2>4 DEF Contained
    <2>6. C \subseteq S
      BY <2>1, <2>5
    <2>7. r \in T /\ new[r].in = 0
      BY <2>3, <2>4, <2>6
    <2> QED
      BY <2>7 DEF Tops, T
  <1>3. CASE d \notin T
    <2>1. T \subseteq Now /\ Contained(cat, T)
      BY <1>1, <1>3 DEF Contained
    <2>2. Ascent(cat, x) \subseteq T
      BY <1>1, <2>1, AscentIs
    <2> QED
      BY <1>1, <1>2, <1>3, <2>1, <2>2
  <1>4. CASE d \in T
    <2>1. d \in Soon
      BY <1>1, <1>4
    <2>2. CASE new[d].in = 0
      BY <1>4, <2>2 DEF Tops, T
    <2>3. CASE d \in Now /\ new[d].in = cat[d].in
      <3>1. \A z \in T : z \in Now /\ new[z].in = cat[z].in
        BY <1>1, <2>3
      <3>2. T \subseteq Now /\ Contained(cat, T) /\ x \in Now
        BY <1>1, <3>1 DEF Contained
      <3>3. Ascent(cat, x) \subseteq T /\ Tops(cat, x)
        BY <1>1, <3>2, AscentIs
      <3>4. PICK r \in Ascent(cat, x) : cat[r].in = 0
        BY <3>3 DEF Tops
      <3>5. r \in T /\ new[r].in = 0
        BY <3>1, <3>3, <3>4
      <3> QED
        BY <3>5 DEF Tops, T
    <2>4. CASE new[d].in \in Now /\ d \notin Ascent(cat, new[d].in) /\ Tops(cat, new[d].in)
      <3>1. new[d].in # 0
        BY <2>4, CatalogueAssumption
      <3>2. new[d].in \in T \cap Now
        BY <1>1, <1>4, <2>4, <3>1 DEF Contained
      <3> QED
        BY <1>2, <2>4, <3>2
    <2> QED
      BY <2>1, <2>2, <2>3, <2>4
  <1> QED
    BY <1>3, <1>4

(* A row has a name; so has one that is about to be stored.                 *)
CatalogueTyped ==
    /\ category \in [Categories -> Nodes] /\ item \in [Items -> Nodes]
    /\ \A c \in Categories : category[c].title = "none" => category[c] = Nothing
    /\ \A i \in Items : item[i].title = "none" => item[i] = Nothing
    /\ editor \in [Editors -> [op : {"none", "create", "update", "delete", "resolve"},
                               id : Categories \cup {0}, seen : Nodes, row : Nodes]]
    /\ \A e \in Editors : editor[e].op \in {"create", "update", "resolve"} => editor[e].row.title # "none"

(* No group or item is in a group that is gone.                             *)
InKnown ==
    /\ \A c \in Known : category[c].in \in Known \cup {0}
    /\ \A i \in Stocked : item[i].in \in Known

(* One request at a time, and what it has looked at is still so: the name   *)
(* it gives is free, the parent has a top above it and is not below the     *)
(* group, and there is no group yet when it adds one of its own.            *)
Foreseen(job) ==
    /\ job.op = "create" => NamedIn(job.row.title, job.row.in) = {}
    /\ job.op = "update" => /\ job.id \in Known /\ job.seen = category[job.id]
                            /\ ParentFits(job.id, job.row.in)
                            /\ NamedIn(job.row.title, job.row.in) \subseteq {job.id}
    /\ job.op = "resolve" /\ job.row.in = 0 => Known = {}
OneEditor ==
    ~crowded => /\ \A d, e \in Editors : editor[d] # AtEase /\ editor[e] # AtEase => d = e
                /\ \A e \in Editors : Foreseen(editor[e])
                /\ \A c \in Known : Rooted(c)
                /\ \A c, d \in Known : category[c] = category[d] => c = d

CatalogueHolds == CatalogueTyped /\ InKnown
CatalogueInv == CatalogueHolds /\ OneEditor

(* The next id of a category, or of an item, is a free one.                 *)
LEMMA NextIds ==
    /\ Categories \ Known # {} => Min(Categories \ Known) \in Categories \ Known
    /\ Items \ Stocked # {} => Min(Items \ Stocked) \in Items \ Stocked
  <1>1. Categories \ Known \in SUBSET Nat /\ Items \ Stocked \in SUBSET Nat
    BY CatalogueAssumption
  <1> QED
    BY <1>1, MinOf

(* What has a name is a row, and not the empty one.                         *)
LEMMA NamedRows ==
    /\ Nothing \in Nodes /\ Nothing.title = "none" /\ Nothing.in = 0
    /\ \A title \in Titles \cup {Common}, p \in Categories \cup {0} :
         [title |-> title, in |-> p] \in Nodes /\ [title |-> title, in |-> p] # Nothing /\ title # "none"
    /\ \A r \in Nodes : r.title # "none" => r # Nothing
  BY CatalogueAssumption DEF Nothing, Nodes

(* The first state: nothing is stored.                                      *)
LEMMA HoldsAtFirst == CatalogueInit => CatalogueHolds
  <1> SUFFICES ASSUME CatalogueInit PROVE CatalogueHolds
    OBVIOUS
  <1>1. AtEase \in [op : {"none", "create", "update", "delete", "resolve"},
                    id : Categories \cup {0}, seen : Nodes, row : Nodes] /\ AtEase.op = "none"
    BY NamedRows DEF AtEase
  <1> QED
    BY <1>1, NamedRows DEF CatalogueInit, CatalogueHolds, CatalogueTyped, InKnown, Known, Stocked

(* A request reads and checks: no row changes.                              *)
LEMMA CheckedKeeps ==
    ASSUME CatalogueHolds, NEW e \in Editors, NEW op \in {"create", "update", "delete", "resolve"},
           NEW id \in Categories \cup {0}, NEW seen \in Nodes, NEW row \in Nodes,
           op # "delete" => row.title # "none", Checked(e, op, id, seen, row)
    PROVE  CatalogueHolds'
  <1>1. CatalogueTyped'
    BY DEF CatalogueHolds, CatalogueTyped, Checked
  <1>2. InKnown'
    BY DEF CatalogueHolds, InKnown, Checked, Known, Stocked
  <1> QED
    BY <1>1, <1>2 DEF CatalogueHolds

(* A request that has answered keeps nothing in mind.                       *)
LEMMA AnswersTyped ==
    ASSUME CatalogueTyped, NEW e \in Editors, Answers(e)
    PROVE  /\ editor' \in [Editors -> [op : {"none", "create", "update", "delete", "resolve"},
                                       id : Categories \cup {0}, seen : Nodes, row : Nodes]]
           /\ \A d \in Editors : editor'[d].op \in {"create", "update", "resolve"} =>
                                   editor'[d].row.title # "none"
  <1>1. AtEase \in [op : {"none", "create", "update", "delete", "resolve"},
                    id : Categories \cup {0}, seen : Nodes, row : Nodes] /\ AtEase.op = "none"
    BY NamedRows DEF AtEase
  <1> QED
    BY <1>1 DEF CatalogueTyped, Answers

(* Storing a group, and storing an item.                                    *)
LEMMA CategoryStored ==
    ASSUME CatalogueTyped, NEW row \in Nodes, row.title # "none", InsertCategory(row)
    PROVE  /\ category' \in [Categories -> Nodes]
           /\ \A c \in Categories : category'[c].title = "none" => category'[c] = Nothing
           /\ Known' = Known \cup {Min(Categories \ Known)}
           /\ category'[Min(Categories \ Known)] = row /\ Min(Categories \ Known) \in Categories
           /\ \A c \in Known : category'[c] = category[c]
  <1> DEFINE m == Min(Categories \ Known)
  <1>1. m \in Categories /\ m \notin Known /\ category' = [category EXCEPT ![m] = row]
    BY NextIds DEF InsertCategory
  <1> HIDE DEF m
  <1>2. category'[m] = row /\ \A c \in Categories : c # m => category'[c] = category[c]
    BY <1>1 DEF CatalogueTyped
  <1>3. Known' = Known \cup {m}
    BY <1>1, <1>2, NamedRows DEF Known
  <1>4. \A c \in Known : category'[c] = category[c]
    BY <1>1, <1>2 DEF Known
  <1> QED
    BY <1>1, <1>2, <1>3, <1>4 DEF CatalogueTyped, m

(* An item is stored: the others stay.                                      *)
LEMMA ItemStored ==
    ASSUME CatalogueTyped, NEW row \in Nodes, row.title # "none", InsertItem(row)
    PROVE  /\ item' \in [Items -> Nodes]
           /\ \A i \in Items : item'[i].title = "none" => item'[i] = Nothing
           /\ \A i \in Stocked' : item'[i] = row \/ (i \in Stocked /\ item'[i] = item[i])
  <1> DEFINE m == Min(Items \ Stocked)
  <1>1. m \in Items /\ m \notin Stocked /\ item' = [item EXCEPT ![m] = row]
    BY NextIds DEF InsertItem
  <1> HIDE DEF m
  <1>2. item'[m] = row /\ \A i \in Items : i # m => item'[i] = item[i]
    BY <1>1 DEF CatalogueTyped
  <1> QED
    BY <1>1, <1>2 DEF CatalogueTyped, Stocked

(* Every step keeps the rows, and what they refer to.                       *)
LEMMA HoldsStill ==
    ASSUME CatalogueHolds, [CatalogueNext]_catalogueVars
    PROVE  CatalogueHolds'
  <1> USE DEF CatalogueHolds
  <1>0. CASE UNCHANGED catalogueVars
    BY <1>0 DEF catalogueVars, CatalogueTyped, InKnown, Known, Stocked
  <1> SUFFICES ASSUME CatalogueNext PROVE CatalogueHolds'
    BY <1>0
  <1> PICK e \in Editors :
        \/ \E title \in Titles, p \in Categories \cup {0} : BeginCreateCategory(e, title, p)
        \/ \E c \in Categories, title \in Titles, p \in Categories \cup {0} :
               BeginUpdateCategory(e, c, title, p)
        \/ \E c \in Categories : BeginDeleteCategory(e, c)
        \/ CommitCreateCategory(e) \/ CommitUpdateCategory(e) \/ CommitDeleteCategory(e)
        \/ \E title \in Titles, c \in Categories : CreateItem(e, title, c)
        \/ \E i \in Items, title \in Titles, c \in Categories : UpdateItem(e, i, title, c)
        \/ \E i \in Items : DeleteItem(e, i)
        \/ \E title \in Titles : BeginResolve(e, title)
        \/ CommitResolve(e)
    BY Zenon DEF CatalogueNext
  <1>a. Known \subseteq Categories /\ Stocked \subseteq Items
    BY DEF Known, Stocked
  <1>b. ASSUME Fails(e) PROVE CatalogueHolds'
    <2>1. CatalogueTyped'
      BY <1>b, AnswersTyped DEF Fails, CatalogueTyped
    <2> QED
      BY <1>b, <2>1 DEF Fails, InKnown, Known, Stocked
  <1> DEFINE r == editor[e]
             row == editor[e].row
  <1>c. /\ r \in [op : {"none", "create", "update", "delete", "resolve"},
                  id : Categories \cup {0}, seen : Nodes, row : Nodes]
        /\ row \in Nodes /\ (r.op \in {"create", "update", "resolve"} => row.title # "none")
    BY DEF CatalogueTyped
  <1>1. CASE \E title \in Titles, p \in Categories \cup {0} : BeginCreateCategory(e, title, p)
    <2> PICK title \in Titles, p \in Categories \cup {0} : BeginCreateCategory(e, title, p)
      BY <1>1
    <2>1. Checked(e, "create", 0, Nothing, [title |-> title, in |-> p])
      BY DEF BeginCreateCategory
    <2> QED
      BY <2>1, NamedRows, CheckedKeeps
  <1>2. CASE \E c \in Categories, title \in Titles, p \in Categories \cup {0} :
               BeginUpdateCategory(e, c, title, p)
    <2> PICK c \in Categories, title \in Titles, p \in Categories \cup {0} :
               BeginUpdateCategory(e, c, title, p)
      BY <1>2
    <2>1. Checked(e, "update", c, category[c], [title |-> title, in |-> p])
      BY DEF BeginUpdateCategory
    <2>2. category[c] \in Nodes
      BY DEF CatalogueTyped
    <2> QED
      BY <2>1, <2>2, NamedRows, CheckedKeeps
  <1>3. CASE \E c \in Categories : BeginDeleteCategory(e, c)
    BY <1>3, NamedRows, CheckedKeeps DEF BeginDeleteCategory
  <1>4. CASE \E title \in Titles : BeginResolve(e, title)
    <2> PICK title \in Titles : BeginResolve(e, title)
      BY <1>4
    <2>1. DefaultCategory \in Categories \cup {0}
      <3>1. Known # {} => Min(Known) \in Known
        <4>1. Known \in SUBSET Nat
          BY <1>a, CatalogueAssumption
        <4> QED
          BY <4>1, MinOf
      <3> QED
        BY <1>a, <3>1 DEF DefaultCategory
    <2>2. Checked(e, "resolve", 0, Nothing, [title |-> title, in |-> DefaultCategory])
      BY DEF BeginResolve
    <2> QED
      BY <2>1, <2>2, NamedRows, CheckedKeeps
  <1>5. CASE CommitCreateCategory(e)
    <2>1. CASE row.in \in Known \cup {0}
      <3>1. InsertCategory(row) /\ Answers(e) /\ UNCHANGED item /\ r.op = "create"
        BY <1>5, <2>1 DEF CommitCreateCategory
      <3>2. CatalogueTyped'
        BY <1>c, <3>1, AnswersTyped, CategoryStored DEF CatalogueTyped
      <3> QED
        BY <1>c, <2>1, <3>1, <3>2, CategoryStored DEF InKnown, Stocked
    <2> QED
      BY <1>5, <1>b, <2>1 DEF CommitCreateCategory
  <1>6. CASE CommitUpdateCategory(e)
    <2> DEFINE c == r.id
               ti == Kept(r.seen.title, row.title, category[c].title)
               pa == Kept(r.seen.in, row.in, category[c].in)
               new == [category[c] EXCEPT !.title = ti, !.in = pa]
    <2>1. CASE c \in Known /\ row.in \in Known \cup {0}
      <3>1. /\ category' = [category EXCEPT ![c].title = Kept(r.seen.title, row.title, @),
                                            ![c].in = Kept(r.seen.in, row.in, @)]
            /\ Answers(e) /\ UNCHANGED item /\ r.op = "update"
        BY <1>6, <2>1 DEF CommitUpdateCategory
      <3>2. c \in Categories /\ category[c] \in Nodes /\ category[c].title # "none"
        BY <1>a, <2>1 DEF CatalogueTyped, Known
      <3>3. new \in Nodes /\ new.title # "none" /\ new.in \in Known \cup {0}
        <4>1. ti \in Titles \cup {Common, "none"} /\ ti # "none" /\ pa \in Categories \cup {0} /\ pa \in Known \cup {0}
          BY <1>a, <1>c, <2>1, <3>1, <3>2 DEF Nodes, Kept, InKnown
        <4> HIDE DEF ti, pa
        <4> QED
          BY <3>2, <4>1 DEF Nodes
      <3>4. category' = [category EXCEPT ![c] = new]
        <4>1. category' = [category EXCEPT ![c].title = ti, ![c].in = pa]
          BY <3>1, <3>2 DEF CatalogueTyped
        <4> HIDE DEF c, ti, pa
        <4> QED
          BY <3>2, <4>1 DEF CatalogueTyped, Nodes
      <3> HIDE DEF c, new
      <3>5. Known' = Known
        BY <2>1, <3>2, <3>3, <3>4, NamedRows DEF Known, CatalogueTyped
      <3>6. CatalogueTyped'
        BY <3>1, <3>2, <3>3, <3>4, AnswersTyped DEF CatalogueTyped
      <3>7. \A d \in Known : category'[d].in \in Known \cup {0}
        BY <1>a, <3>2, <3>3, <3>4 DEF InKnown, CatalogueTyped
      <3> QED
        BY <3>1, <3>5, <3>6, <3>7 DEF InKnown, Stocked
    <2> QED
      BY <1>6, <1>b, <2>1 DEF CommitUpdateCategory
  <1>7. CASE CommitDeleteCategory(e)
    <2> DEFINE c == r.id
    <2>1. CASE c \in Known /\ Children(c) = {} /\ Members(c) = {}
      <3>1. category' = [category EXCEPT ![c] = Nothing] /\ Answers(e) /\ UNCHANGED item
        BY <1>7, <2>1 DEF CommitDeleteCategory
      <3> HIDE DEF c
      <3>2. Known' = Known \ {c}
        BY <1>a, <2>1, <3>1 DEF Known, CatalogueTyped
      <3>3. CatalogueTyped'
        BY <3>1, AnswersTyped, NamedRows DEF CatalogueTyped
      <3>4. \A d \in Known \ {c} : category'[d] = category[d] /\ category[d].in # c
        BY <1>a, <2>1, <3>1 DEF CatalogueTyped, Children
      <3>5. \A i \in Stocked : item[i].in # c
        BY <2>1 DEF Members
      <3>6. Stocked' = Stocked
        BY <3>1 DEF Stocked
      <3> QED
        BY <3>1, <3>2, <3>3, <3>4, <3>5, <3>6 DEF InKnown
    <2> QED
      BY <1>7, <1>b, <2>1 DEF CommitDeleteCategory
  <1>8. CASE \E title \in Titles, c \in Categories : CreateItem(e, title, c)
    <2> PICK title \in Titles, c \in Categories : CreateItem(e, title, c)
      BY <1>8
    <2> DEFINE new == [title |-> title, in |-> c]
    <2>1. new \in Nodes /\ new.title # "none" /\ new.in = c
      BY NamedRows
    <2>2. InsertItem(new) /\ c \in Known /\ UNCHANGED <<category, editor, crowded>>
      BY DEF CreateItem
    <2> HIDE DEF new
    <2>3. CatalogueTyped'
      BY <2>1, <2>2, ItemStored DEF CatalogueTyped
    <2>4. \A i \in Stocked' : item'[i].in \in Known
      BY <2>1, <2>2, ItemStored DEF InKnown
    <2> QED
      BY <2>2, <2>3, <2>4 DEF InKnown, Known
  <1>9. CASE \E i \in Items, title \in Titles, c \in Categories : UpdateItem(e, i, title, c)
    <2> PICK i \in Items, title \in Titles, c \in Categories : UpdateItem(e, i, title, c)
      BY <1>9
    <2> DEFINE new == [title |-> title, in |-> c]
    <2>1. new \in Nodes /\ new.title # "none" /\ new.in = c
      BY NamedRows
    <2>2. /\ item' = [item EXCEPT ![i] = new] /\ c \in Known /\ i \in Stocked
          /\ UNCHANGED <<category, editor, crowded>>
      BY DEF UpdateItem
    <2> HIDE DEF new
    <2>3. CatalogueTyped'
      BY <2>1, <2>2 DEF CatalogueTyped
    <2>4. \A j \in Stocked' : item'[j].in \in Known
      BY <2>1, <2>2 DEF InKnown, CatalogueTyped, Stocked
    <2> QED
      BY <2>2, <2>3, <2>4 DEF InKnown, Known
  <1>10. CASE \E i \in Items : DeleteItem(e, i)
    <2> PICK i \in Items : DeleteItem(e, i)
      BY <1>10
    <2>1. item' = [item EXCEPT ![i] = Nothing] /\ UNCHANGED <<category, editor, crowded>>
      BY DEF DeleteItem
    <2>2. CatalogueTyped'
      BY <2>1, NamedRows DEF CatalogueTyped
    <2>3. \A j \in Stocked' : j \in Stocked /\ item'[j] = item[j]
      BY <2>1 DEF Stocked, CatalogueTyped
    <2> QED
      BY <2>1, <2>2, <2>3 DEF InKnown, Known
  <1>11. CASE CommitResolve(e)
    <2>1. CASE row.in = 0
      <3> DEFINE m == Min(Categories \ Known)
                 group == [title |-> Common, in |-> 0]
                 new == [row EXCEPT !.in = m]
      <3>1. InsertCategory(group) /\ InsertItem(new) /\ Answers(e) /\ r.op = "resolve"
        BY <1>11, <2>1 DEF CommitResolve
      <3>2. group \in Nodes /\ group.title # "none" /\ group.in = 0
        BY NamedRows
      <3> HIDE DEF group
      <3>3. /\ category' \in [Categories -> Nodes]
            /\ \A c \in Categories : category'[c].title = "none" => category'[c] = Nothing
            /\ Known' = Known \cup {m} /\ category'[m] = group /\ m \in Categories
            /\ \A c \in Known : category'[c] = category[c]
        BY <3>1, <3>2, CategoryStored
      <3> HIDE DEF m
      <3>4. new \in Nodes /\ new.title # "none" /\ new.in = m
        BY <1>c, <3>1, <3>3 DEF Nodes
      <3> HIDE DEF new
      <3>5. CatalogueTyped'
        BY <3>1, <3>3, <3>4, AnswersTyped, ItemStored DEF CatalogueTyped
      <3>6. \A i \in Stocked' : item'[i].in \in Known'
        BY <3>1, <3>3, <3>4, ItemStored DEF InKnown
      <3>7. \A c \in Known' : category'[c].in \in Known' \cup {0}
        BY <3>2, <3>3 DEF InKnown
      <3> QED
        BY <3>5, <3>6, <3>7 DEF InKnown
    <2>2. CASE row.in # 0 /\ row.in \in Known
      <3>1. InsertItem(row) /\ Answers(e) /\ UNCHANGED category /\ r.op = "resolve"
        BY <1>11, <2>2 DEF CommitResolve
      <3>2. CatalogueTyped'
        BY <1>c, <3>1, AnswersTyped, ItemStored DEF CatalogueTyped
      <3>3. \A i \in Stocked' : item'[i].in \in Known
        BY <1>c, <2>2, <3>1, ItemStored DEF InKnown
      <3> QED
        BY <3>1, <3>2, <3>3 DEF InKnown, Known
    <2> QED
      BY <1>11, <1>b, <2>1, <2>2 DEF CommitResolve
  <1> QED
    BY <1>1, <1>2, <1>3, <1>4, <1>5, <1>6, <1>7, <1>8, <1>9, <1>10, <1>11

(* A group has its top where the walk up from it finds it.                  *)
LEMMA RootedIsTops ==
    ASSUME NEW c, c # 0
    PROVE  Above(c) = Ascent(category, c) /\ (Rooted(c) <=> Tops(category, c))
  BY DEF Above, Ascent, Rooted, Tops

(* One group is written, with a parent that was looked at: one request at a *)
(* time every group still has a top.                                        *)
LEMMA GroupWritten ==
    ASSUME CatalogueInv, CatalogueHolds', ~crowded, NEW c,
           \A x \in Known' \ {c} : x \in Known /\ category'[x] = category[x],
           c \in Known' =>
              \/ category'[c].in = 0
              \/ /\ category'[c].in \in Known /\ c \notin Above(category'[c].in)
                 /\ Rooted(category'[c].in)
    PROVE  \A x \in Known' : Rooted(x)'
  <1> DEFINE Now == Known
             Soon == Known'
             new == category'
  <1>1. Now \in SUBSET Categories /\ Soon \in SUBSET Categories /\ 0 \notin Categories
    BY CatalogueAssumption DEF Known
  <1>2. Contained(category, Now) /\ Contained(new, Soon)
    BY DEF CatalogueInv, CatalogueHolds, InKnown, Contained
  <1>3. \A x \in Now : Tops(category, x)
    BY <1>1, RootedIsTops DEF CatalogueInv, OneEditor
  <1>4. c \in Soon => \/ new[c].in = 0
                      \/ /\ new[c].in \in Now /\ c \notin Ascent(category, new[c].in)
                         /\ Tops(category, new[c].in)
    BY <1>1, RootedIsTops
  <1>5. \A x \in Soon \ {c} : x \in Now /\ new[x].in = category[x].in
    OBVIOUS
  <1>6. \A x \in Soon : x # 0 /\ (Rooted(x)' <=> Tops(new, x))
    BY <1>1 DEF Above, Ascent, Rooted, Tops
  <1> HIDE DEF Now, Soon, new
  <1>7. \A x \in Soon : Tops(new, x)
    BY <1>1, <1>2, <1>3, <1>4, <1>5, StillTops
  <1> QED
    BY <1>6, <1>7 DEF Soon

(* One request at a time: the one that looks is the only one.               *)
LEMMA CheckedAlone ==
    ASSUME CatalogueInv, NEW e \in Editors, NEW op, NEW id, NEW seen, NEW row,
           Checked(e, op, id, seen, row),
           Foreseen([op |-> op, id |-> id, seen |-> seen, row |-> row])
    PROVE  OneEditor'
  <1> SUFFICES ASSUME ~crowded PROVE OneEditor'
    BY DEF OneEditor, Checked
  <1> DEFINE job == [op |-> op, id |-> id, seen |-> seen, row |-> row]
  <1>1. UNCHANGED <<category, item, crowded>> /\ editor' = [editor EXCEPT ![e] = job] /\ Attends(e)
    BY DEF Checked
  <1>2. Foreseen(job)
    OBVIOUS
  <1> HIDE DEF job
  <1>3. editor'[e] = job /\ \A d \in Editors \ {e} : editor'[d] = AtEase
    BY <1>1 DEF CatalogueInv, CatalogueHolds, CatalogueTyped, Attends
  <1>4. Known' = Known /\ (\A c : Rooted(c)' <=> Rooted(c)) /\ \A x : Foreseen(x)' <=> Foreseen(x)
    BY <1>1 DEF Known, Rooted, Above, Foreseen, NamedIn, ParentFits
  <1>5. Foreseen(AtEase)
    BY DEF Foreseen, AtEase
  <1> QED
    BY <1>1, <1>2, <1>3, <1>4, <1>5 DEF CatalogueInv, OneEditor

(* One request at a time: when the one that is busy answers, none is.       *)
LEMMA AnsweredAlone ==
    ASSUME CatalogueInv, NEW e \in Editors, editor[e].op # "none", Answers(e), UNCHANGED crowded, ~crowded,
           \A c \in Known' : Rooted(c)', \A c, d \in Known' : category'[c] = category'[d] => c = d
    PROVE  OneEditor'
  <1>1. \A d \in Editors : editor'[d] = AtEase
    <2>1. editor[e] # AtEase
      BY DEF AtEase
    <2> QED
      BY <2>1 DEF CatalogueInv, CatalogueHolds, CatalogueTyped, OneEditor, Answers
  <1>2. Foreseen(AtEase)'
    BY DEF Foreseen, AtEase
  <1> QED
    BY <1>1, <1>2 DEF OneEditor

(* No row changes.                                                          *)
LEMMA RowsStay ==
    ASSUME CatalogueInv, ~crowded, category' = category
    PROVE  /\ \A c \in Known' : Rooted(c)'
           /\ \A c, d \in Known' : category'[c] = category'[d] => c = d
  <1>1. Known' = Known /\ \A c : Rooted(c)' <=> Rooted(c)
    BY DEF Known, Rooted, Above
  <1> QED
    BY <1>1 DEF CatalogueInv, OneEditor

(* One group more, of a name that is free, at the top or in one there is.   *)
LEMMA GroupAdded ==
    ASSUME CatalogueInv, CatalogueHolds', ~crowded, NEW row \in Nodes, row.title # "none",
           InsertCategory(row), row.in \in Known \cup {0}, NamedIn(row.title, row.in) = {}
    PROVE  /\ \A c \in Known' : Rooted(c)'
           /\ \A c, d \in Known' : category'[c] = category'[d] => c = d
  <1> DEFINE m == Min(Categories \ Known)
  <1>1. /\ Known' = Known \cup {m} /\ category'[m] = row /\ m \in Categories
        /\ \A c \in Known : category'[c] = category[c]
    BY CategoryStored DEF CatalogueInv, CatalogueHolds
  <1>2. m \notin Known
    BY NextIds DEF InsertCategory
  <1> HIDE DEF m
  <1>3. row.in # 0 => row.in \in Known /\ m \notin Above(row.in) /\ Rooted(row.in)
    <2> SUFFICES ASSUME row.in # 0 PROVE row.in \in Known /\ m \notin Above(row.in) /\ Rooted(row.in)
      OBVIOUS
    <2>1. row.in \in Known /\ Rooted(row.in)
      BY DEF CatalogueInv, OneEditor
    <2>2. Known \in SUBSET Categories /\ Contained(category, Known)
      BY DEF CatalogueInv, CatalogueHolds, InKnown, Contained, Known
    <2>3. Above(row.in) \subseteq Known
      BY <2>1, <2>2, AscentIs, RootedIsTops
    <2> QED
      BY <1>2, <2>1, <2>3
  <1>4. \A c \in Known' : Rooted(c)'
    BY <1>1, <1>3, GroupWritten
  <1>5. \A c \in Known : category[c] # row
    <2>1. row = [title |-> row.title, in |-> row.in]
      BY DEF Nodes
    <2> QED
      BY <2>1 DEF NamedIn
  <1>6. \A c, d \in Known' : category'[c] = category'[d] => c = d
    BY <1>1, <1>5 DEF CatalogueInv, OneEditor
  <1> QED
    BY <1>4, <1>6

(* The first state: nothing is stored, nobody at work.                      *)
LEMMA CatalogueStart == CatalogueInit => CatalogueInv
  <1> SUFFICES ASSUME CatalogueInit PROVE CatalogueInv
    OBVIOUS
  <1>1. Known = {} /\ \A e \in Editors : editor[e] = AtEase
    BY DEF CatalogueInit, Known
  <1>2. Foreseen(AtEase)
    BY DEF Foreseen, AtEase
  <1> QED
    BY <1>1, <1>2, HoldsAtFirst DEF CatalogueInv, OneEditor

(* Every step of the catalogue keeps the invariant.                         *)
LEMMA CatalogueKept ==
    ASSUME CatalogueInv, [CatalogueNext]_catalogueVars
    PROVE  CatalogueInv'
  <1>1. CatalogueHolds /\ CatalogueTyped /\ CatalogueHolds'
    BY HoldsStill DEF CatalogueInv, CatalogueHolds
  <1> SUFFICES OneEditor'
    BY <1>1 DEF CatalogueInv
  <1>2. CASE UNCHANGED catalogueVars
    <2>1. UNCHANGED <<category, item, editor, crowded>>
      BY <1>2 DEF catalogueVars
    <2>2. Known' = Known /\ (\A c : Rooted(c)' <=> Rooted(c)) /\ \A x : Foreseen(x)' <=> Foreseen(x)
      BY <2>1 DEF Known, Rooted, Above, Foreseen, NamedIn, ParentFits
    <2> QED
      BY <2>1, <2>2 DEF CatalogueInv, OneEditor
  <1> SUFFICES ASSUME CatalogueNext PROVE OneEditor'
    BY <1>2
  <1> PICK e \in Editors :
        \/ \E title \in Titles, p \in Categories \cup {0} : BeginCreateCategory(e, title, p)
        \/ \E c \in Categories, title \in Titles, p \in Categories \cup {0} :
               BeginUpdateCategory(e, c, title, p)
        \/ \E c \in Categories : BeginDeleteCategory(e, c)
        \/ CommitCreateCategory(e) \/ CommitUpdateCategory(e) \/ CommitDeleteCategory(e)
        \/ \E title \in Titles, c \in Categories : CreateItem(e, title, c)
        \/ \E i \in Items, title \in Titles, c \in Categories : UpdateItem(e, i, title, c)
        \/ \E i \in Items : DeleteItem(e, i)
        \/ \E title \in Titles : BeginResolve(e, title)
        \/ CommitResolve(e)
    BY Zenon DEF CatalogueNext
  <1>0. CASE crowded
    <2>1. crowded' = crowded
      BY DEF BeginCreateCategory, BeginUpdateCategory, BeginDeleteCategory, BeginResolve, Checked,
             CommitCreateCategory, CommitUpdateCategory, CommitDeleteCategory, CommitResolve,
             CreateItem, UpdateItem, DeleteItem
    <2> QED
      BY <1>0, <2>1 DEF OneEditor
  <1> SUFFICES ASSUME ~crowded PROVE OneEditor'
    BY <1>0
  <1> DEFINE r == editor[e]
             row == editor[e].row
  <1>a. Known \subseteq Categories /\ 0 \notin Categories
    BY CatalogueAssumption DEF Known
  <1>b. ASSUME Fails(e), r.op # "none", crowded' = crowded PROVE OneEditor'
    BY <1>b, RowsStay, AnsweredAlone DEF Fails
  <1>c. /\ r \in [op : {"none", "create", "update", "delete", "resolve"},
                  id : Categories \cup {0}, seen : Nodes, row : Nodes]
        /\ row \in Nodes /\ (r.op \in {"create", "update", "resolve"} => row.title # "none")
    BY <1>1 DEF CatalogueTyped
  <1>d. Foreseen(r)
    BY DEF CatalogueInv, OneEditor
  <1>e. ASSUME UNCHANGED <<category, editor, crowded>> PROVE OneEditor'
    <2>1. Known' = Known /\ (\A c : Rooted(c)' <=> Rooted(c)) /\ \A x : Foreseen(x)' <=> Foreseen(x)
      BY <1>e DEF Known, Rooted, Above, Foreseen, NamedIn, ParentFits
    <2> QED
      BY <1>e, <2>1 DEF CatalogueInv, OneEditor
  <1>3. CASE \E title \in Titles, p \in Categories \cup {0} : BeginCreateCategory(e, title, p)
    <2> PICK title \in Titles, p \in Categories \cup {0} : BeginCreateCategory(e, title, p)
      BY <1>3
    <2> DEFINE new == [title |-> title, in |-> p]
    <2>1. Checked(e, "create", 0, Nothing, new) /\ NamedIn(new.title, new.in) = {}
      BY DEF BeginCreateCategory
    <2> HIDE DEF new
    <2>2. Foreseen([op |-> "create", id |-> 0, seen |-> Nothing, row |-> new])
      BY <2>1 DEF Foreseen
    <2> QED
      BY <2>1, <2>2, CheckedAlone
  <1>4. CASE \E c \in Categories, title \in Titles, p \in Categories \cup {0} :
               BeginUpdateCategory(e, c, title, p)
    <2> PICK c \in Categories, title \in Titles, p \in Categories \cup {0} :
               BeginUpdateCategory(e, c, title, p)
      BY <1>4
    <2> DEFINE new == [title |-> title, in |-> p]
               old == category[c]
    <2>1. /\ Checked(e, "update", c, old, new) /\ NamedIn(new.title, new.in) \subseteq {c}
          /\ c \in Known /\ old = category[c] /\ ParentFits(c, new.in)
      BY DEF BeginUpdateCategory
    <2> HIDE DEF new, old
    <2>2. Foreseen([op |-> "update", id |-> c, seen |-> old, row |-> new])
      BY <2>1 DEF Foreseen
    <2> QED
      BY <2>1, <2>2, CheckedAlone
  <1>5. CASE \E c \in Categories : BeginDeleteCategory(e, c)
    <2> PICK c \in Categories : BeginDeleteCategory(e, c)
      BY <1>5
    <2>1. Foreseen([op |-> "delete", id |-> c, seen |-> Nothing, row |-> Nothing])
      BY DEF Foreseen
    <2> QED
      BY <2>1, CheckedAlone DEF BeginDeleteCategory
  <1>6. CASE \E title \in Titles : BeginResolve(e, title)
    <2> PICK title \in Titles : BeginResolve(e, title)
      BY <1>6
    <2> DEFINE new == [title |-> title, in |-> DefaultCategory]
    <2>1. Checked(e, "resolve", 0, Nothing, new) /\ new.in = DefaultCategory
      BY DEF BeginResolve
    <2> HIDE DEF new
    <2>2. DefaultCategory = 0 => Known = {}
      <3>1. Known # {} => Min(Known) \in Known
        <4>1. Known \in SUBSET Nat
          BY <1>a, CatalogueAssumption
        <4> QED
          BY <4>1, MinOf
      <3> QED
        BY <1>a, <3>1 DEF DefaultCategory
    <2>3. Foreseen([op |-> "resolve", id |-> 0, seen |-> Nothing, row |-> new])
      BY <2>1, <2>2 DEF Foreseen
    <2> QED
      BY <2>1, <2>3, CheckedAlone
  <1>7. CASE CommitCreateCategory(e)
    <2>1. CASE row.in \in Known \cup {0}
      <3>1. InsertCategory(row) /\ Answers(e) /\ UNCHANGED item /\ r.op = "create" /\ UNCHANGED crowded
        BY <1>7, <2>1 DEF CommitCreateCategory
      <3>2. NamedIn(row.title, row.in) = {}
        BY <1>d, <3>1 DEF Foreseen
      <3> QED
        BY <1>1, <1>c, <2>1, <3>1, <3>2, GroupAdded, AnsweredAlone
    <2> QED
      BY <1>7, <1>b, <2>1 DEF CommitCreateCategory
  <1>8. CASE CommitUpdateCategory(e)
    <2> DEFINE c == r.id
               ti == Kept(r.seen.title, row.title, category[c].title)
               pa == Kept(r.seen.in, row.in, category[c].in)
    <2>1. CASE c \in Known /\ row.in \in Known \cup {0}
      <3>1. /\ category' = [category EXCEPT ![c].title = Kept(r.seen.title, row.title, @),
                                            ![c].in = Kept(r.seen.in, row.in, @)]
            /\ Answers(e) /\ r.op = "update" /\ UNCHANGED crowded
        BY <1>8, <2>1 DEF CommitUpdateCategory
      <3>2. /\ c \in Known /\ r.seen = category[c] /\ ParentFits(c, row.in)
            /\ NamedIn(row.title, row.in) \subseteq {c}
        BY <1>d, <3>1 DEF Foreseen
      <3>3. category[c] \in Nodes /\ c \in Categories /\ category \in [Categories -> Nodes]
        BY <1>1, <1>a, <3>2 DEF CatalogueTyped
      <3>4. ti = row.title /\ pa = row.in
        BY <3>2 DEF Kept
      <3>5. category'[c] = row /\ \A d \in Categories \ {c} : category'[d] = category[d]
        <4>1. category' = [category EXCEPT ![c].title = ti, ![c].in = pa]
          BY <3>1, <3>3
        <4> HIDE DEF ti, pa, c, r, row
        <4>2. category' = [category EXCEPT ![c].title = row.title, ![c].in = row.in]
          BY <3>4, <4>1
        <4>3. category'[c] = [title |-> row.title, in |-> row.in]
          BY <3>3, <4>2 DEF Nodes
        <4>4. row = [title |-> row.title, in |-> row.in]
          BY <1>c DEF Nodes
        <4> QED
          BY <3>3, <4>2, <4>3, <4>4
      <3> HIDE DEF c, ti, pa
      <3>6. Known' = Known
        <4>1. row # Nothing
          BY <1>c, <3>1, NamedRows
        <4> QED
          BY <3>2, <3>3, <3>5, <4>1 DEF Known
      <3>7. \A d \in Known' : Rooted(d)'
        BY <1>1, <1>a, <3>2, <3>5, <3>6, GroupWritten DEF ParentFits
      <3>8. \A d \in Known \ {c} : category[d] # row
        <4>1. row = [title |-> row.title, in |-> row.in]
          BY <1>c DEF Nodes
        <4> HIDE DEF r, row
        <4> QED
          BY <3>2, <4>1 DEF NamedIn
      <3>9. \A x, y \in Known' : category'[x] = category'[y] => x = y
        BY <1>a, <3>5, <3>6, <3>8 DEF CatalogueInv, OneEditor
      <3> QED
        BY <3>1, <3>7, <3>9, AnsweredAlone
    <2> QED
      BY <1>8, <1>b, <2>1 DEF CommitUpdateCategory
  <1>9. CASE CommitDeleteCategory(e)
    <2> DEFINE c == r.id
    <2>1. CASE c \in Known /\ Children(c) = {} /\ Members(c) = {}
      <3>1. category' = [category EXCEPT ![c] = Nothing] /\ Answers(e) /\ r.op = "delete" /\ UNCHANGED crowded
        BY <1>9, <2>1 DEF CommitDeleteCategory
      <3> HIDE DEF c
      <3>2. Known' = Known \ {c}
        BY <1>1, <1>a, <2>1, <3>1 DEF Known, CatalogueTyped
      <3>3. \A d \in Known \ {c} : category'[d] = category[d]
        BY <1>1, <1>a, <3>1 DEF CatalogueTyped
      <3>4. \A d \in Known' : Rooted(d)'
        BY <1>1, <3>2, <3>3, GroupWritten
      <3>5. \A x, y \in Known' : category'[x] = category'[y] => x = y
        BY <3>2, <3>3 DEF CatalogueInv, OneEditor
      <3> QED
        BY <3>1, <3>4, <3>5, AnsweredAlone
    <2> QED
      BY <1>9, <1>b, <2>1 DEF CommitDeleteCategory
  <1>10. CASE \/ \E title \in Titles, c \in Categories : CreateItem(e, title, c)
              \/ \E i \in Items, title \in Titles, c \in Categories : UpdateItem(e, i, title, c)
              \/ \E i \in Items : DeleteItem(e, i)
    BY <1>10, <1>e DEF CreateItem, UpdateItem, DeleteItem
  <1>11. CASE CommitResolve(e)
    <2>1. CASE row.in = 0
      <3> DEFINE group == [title |-> Common, in |-> 0]
      <3>1. InsertCategory(group) /\ Answers(e) /\ r.op = "resolve" /\ UNCHANGED crowded
        BY <1>11, <2>1 DEF CommitResolve
      <3>2. group \in Nodes /\ group.title # "none" /\ group.in = 0
        BY NamedRows
      <3> HIDE DEF group
      <3>3. NamedIn(group.title, group.in) = {}
        BY <1>d, <2>1, <3>1 DEF Foreseen, NamedIn
      <3> QED
        BY <1>1, <3>1, <3>2, <3>3, GroupAdded, AnsweredAlone
    <2>2. CASE row.in # 0 /\ row.in \in Known
      BY <1>11, <2>2, RowsStay, AnsweredAlone DEF CommitResolve
    <2> QED
      BY <1>11, <1>b, <2>1, <2>2 DEF CommitResolve
  <1> QED
    BY <1>3, <1>4, <1>5, <1>6, <1>7, <1>8, <1>9, <1>10, <1>11

(* The catalogue keeps its invariant, however requests overlap.             *)
THEOREM CatalogueInvariant == CatalogueSpec => []CatalogueInv
  BY CatalogueStart, CatalogueKept, PTL DEF CatalogueSpec

(* However requests overlap, no group and no item is in a group that is     *)
(* gone: the foreign keys refuse what the checks of the service have missed.*)
THEOREM NothingIsLeftDangling == CatalogueSpec => []NothingDangles
  <1>1. CatalogueInv => NothingDangles
    BY DEF CatalogueInv, CatalogueHolds, CatalogueTyped, InKnown, NothingDangles, CatalogueTypeOK
  <1> QED
    BY <1>1, CatalogueInvariant, PTL

(* One request at a time every group is in a tree that is shown, however    *)
(* many there are, and the groups of one parent have different names:       *)
(* _validate_parent finds every loop before it is made.                     *)
THEOREM GroupsAreShownWhole == CatalogueSpec => []TreeIsWhole
  <1>1. CatalogueInv => TreeIsWhole
    BY DEF CatalogueInv, OneEditor, TreeIsWhole, Shown
  <1> QED
    BY <1>1, CatalogueInvariant, PTL

(* Nothing of the catalogue hangs in the air, and what is there is shown.   *)
THEOREM CatalogueHoldsTogether == CatalogueSpec => []CatalogueIsWhole
  BY NothingIsLeftDangling, GroupsAreShownWhole, PTL DEF CatalogueIsWhole

-----------------------------------------------------------------------------
(* Bank accounts.                                                           *)

AccountRows == [owner : Owners \cup {"none"}, default : BOOLEAN, active : BOOLEAN]
TellerRows == [op : {"none", "open", "change", "seed"}, a : Accounts \cup {0}, owner : Owners \cup {"none"},
               seen : AccountRows, row : AccountRows, clear : SUBSET Accounts]

(* Types; an account that is open has an owner, and so has one that is      *)
(* about to be; what is about to be changed, or cleared, is open.           *)
AccountsTyped ==
    /\ party \in [Parties -> [stored : BOOLEAN, active : BOOLEAN, legacy : BOOLEAN]]
    /\ account \in [Accounts -> AccountRows]
    /\ \A a \in Opened : account[a].owner \in Owners
    /\ teller \in [Tellers -> TellerRows]
    /\ \A t \in Tellers : /\ teller[t].clear \subseteq Opened
                          /\ teller[t].a \in Opened \cup {0}
                          /\ teller[t].op \in {"open", "change"} => teller[t].row.owner \in Owners
                          /\ teller[t].op = "change" => teller[t].a \in Opened
                          /\ teller[t].op = "seed" => teller[t].owner \in Parties

(* One request at a time: there is one at most; it clears the defaults of   *)
(* the owner it makes a default for, all but the account it changes.        *)
ClearsOthers(r) ==
    /\ r.op = "open" /\ r.row.default => DefaultsOf(r.row.owner) \subseteq r.clear
    /\ r.op = "change" => /\ r.seen = account[r.a] /\ r.row.owner = account[r.a].owner
                          /\ r.a \notin r.clear
                          /\ r.row.default => \/ r.seen.default
                                              \/ DefaultsOf(r.row.owner) \subseteq r.clear \cup {r.a}
ClearsAfter(r) ==
    /\ \A w \in Owners : r.op = "open" /\ r.row.default /\ w = r.row.owner => DefaultsOf(w)' \subseteq r.clear
    /\ r.op = "change" => /\ r.seen = account'[r.a] /\ r.row.owner = account'[r.a].owner
                          /\ r.a \notin r.clear
                          /\ r.row.default => r.seen.default \/
                               \A w \in Owners : w = r.row.owner => DefaultsOf(w)' \subseteq r.clear \cup {r.a}
OneTeller ==
    ~rush => /\ \A t, u \in Tellers : teller[t] # Free /\ teller[u] # Free => t = u
             /\ \A t \in Tellers : ClearsOthers(teller[t])
             /\ \A w \in Owners : \A a, b \in DefaultsOf(w) : a = b

AccountsInv == AccountsTyped /\ rush \in BOOLEAN /\ OneTeller

(* What a column is written with is of the type of the column.              *)
LEMMA KeptType ==
    ASSUME NEW S, NEW old, NEW v \in S, NEW now \in S
    PROVE  Kept(old, v, now) \in S
  BY DEF Kept

(* The next id of an account is a free one.                                 *)
LEMMA NextAccount ==
    Opened # Accounts => Min(Accounts \ Opened) \in Accounts \ Opened
  <1>1. Accounts \ Opened \in SUBSET Nat
    BY AccountsAssumption
  <1>2. Opened \subseteq Accounts
    BY DEF Opened
  <1> QED
    BY <1>1, <1>2, MinOf

(* An account that is open has an owner, so it is not the empty row.        *)
LEMMA AccountFacts ==
    /\ NoAccount \in AccountRows /\ NoAccount.owner = "none" /\ ~NoAccount.default
    /\ Free \in TellerRows /\ Free.op = "none" /\ Free.clear = {} /\ Free.a = 0
    /\ Opened \subseteq Accounts /\ "none" \notin Owners
    /\ \A r \in AccountRows : r.owner \in Owners => r # NoAccount
  <1>1. /\ NoAccount \in AccountRows /\ NoAccount.owner = "none" /\ ~NoAccount.default
    BY DEF NoAccount, AccountRows
  <1>2. "none" \notin Owners
    BY AccountsAssumption DEF Owners
  <1>3. /\ Free \in TellerRows /\ Free.op = "none" /\ Free.clear = {} /\ Free.a = 0
    BY <1>1 DEF Free, TellerRows
  <1>4. Opened \subseteq Accounts
    BY DEF Opened
  <1>5. \A r \in AccountRows : r.owner \in Owners => r # NoAccount
    BY <1>2 DEF NoAccount
  <1> QED
    BY <1>1, <1>2, <1>3, <1>4, <1>5

(* What create_account is about to store.                                   *)
LEMMA OpeningFacts ==
    ASSUME NEW w \in Owners, NEW default \in BOOLEAN, NEW active \in BOOLEAN
    PROVE  /\ Opening(w, default, active) \in TellerRows
           /\ Opening(w, default, active).op = "open" /\ Opening(w, default, active).a = 0
           /\ Opening(w, default, active).row = [owner |-> w, default |-> default, active |-> active]
           /\ Opening(w, default, active).clear = IF default THEN Cleared(w, 0) ELSE {}
  <1> DEFINE cl == IF default THEN Cleared(w, 0) ELSE {}
             rw == [owner |-> w, default |-> default, active |-> active]
  <1>1. cl \in SUBSET Accounts
    BY DEF Cleared, DefaultsOf, Of, Opened
  <1>2. rw \in AccountRows
    BY DEF AccountRows
  <1>3. Opening(w, default, active) = [Free EXCEPT !.op = "open", !.owner = w, !.row = rw, !.clear = cl]
    BY DEF Opening
  <1> DEFINE r == [Free EXCEPT !.op = "open", !.owner = w, !.row = rw, !.clear = cl]
  <1> HIDE DEF cl, rw
  <1>4. r \in TellerRows /\ r.op = "open" /\ r.a = 0 /\ r.row = rw /\ r.clear = cl
    BY AccountFacts, <1>1, <1>2 DEF Free, TellerRows
  <1> QED
    BY <1>3, <1>4 DEF cl, rw

(* The first state: no account, no counterparty, nobody at work.            *)
LEMMA AccountsStart == AccountsInit => AccountsInv
  <1> SUFFICES ASSUME AccountsInit PROVE AccountsInv
    OBVIOUS
  <1> USE DEF AccountsInit
  <1>1. Opened = {}
    BY DEF Opened
  <1>2. party \in [Parties -> [stored : BOOLEAN, active : BOOLEAN, legacy : BOOLEAN]]
    BY DEF NoParty
  <1>3. AccountsTyped
    BY <1>1, <1>2, AccountFacts DEF AccountsTyped
  <1>4. OneTeller
    BY <1>1, AccountFacts DEF OneTeller, ClearsOthers, DefaultsOf, Of
  <1> QED
    BY <1>3, <1>4 DEF AccountsInv
(* A step that stores nothing: the accounts, and what is open, stay.        *)
LEMMA TellerTyped ==
    ASSUME AccountsTyped, NEW t \in Tellers, NEW r \in TellerRows, Goes(t, r), Opened \subseteq Opened',
           r.clear \subseteq Opened, r.a \in Opened \cup {0},
           r.op \in {"open", "change"} => r.row.owner \in Owners,
           r.op = "change" => r.a \in Opened,
           r.op = "seed" => r.owner \in Parties
    PROVE  /\ teller' \in [Tellers -> TellerRows]
           /\ \A u \in Tellers : /\ teller'[u].clear \subseteq Opened'
                                 /\ teller'[u].a \in Opened' \cup {0}
                                 /\ teller'[u].op \in {"open", "change"} => teller'[u].row.owner \in Owners
                                 /\ teller'[u].op = "change" => teller'[u].a \in Opened'
                                 /\ teller'[u].op = "seed" => teller'[u].owner \in Parties
  BY DEF AccountsTyped, Goes

(* Each step keeps the types.                                               *)
LEMMA AccountsTypedStep ==
    ASSUME AccountsTyped, AccountsNext
    PROVE  AccountsTyped'
  <1> USE DEF AccountsTyped
  <1> PICK t \in Tellers :
        \/ \E w \in Owners : BeginOpen(t, w)
        \/ CommitOpen(t) \/ CommitChange(t) \/ SeedAccount(t)
        \/ \E a \in Accounts : BeginChange(t, a) \/ Deactivate(t, a)
        \/ \E p \in Parties : CreateParty(t, p) \/ UpdateParty(t, p) \/ DeleteParty(t, p)
    BY Zenon DEF AccountsNext
  <1> DEFINE r == teller[t]
  <1>a. /\ r \in TellerRows /\ r.clear \subseteq Opened /\ Opened \subseteq Accounts
        /\ r.op \in {"open", "change"} => r.row.owner \in Owners
        /\ r.op = "change" => r.a \in Opened
        /\ r.op = "seed" => r.owner \in Parties
    BY AccountFacts
  <1>b. account' = account => Opened' = Opened
    BY DEF Opened
  <1>c. \A w : Cleared(w, 0) \subseteq Opened /\ \A a : Cleared(w, a) \subseteq Opened
    BY DEF Cleared, DefaultsOf, Of
  <1>d. \A p \in Parties, active, legacy \in BOOLEAN :
          /\ [party EXCEPT ![p] = [stored |-> TRUE, active |-> active, legacy |-> legacy]]
               \in [Parties -> [stored : BOOLEAN, active : BOOLEAN, legacy : BOOLEAN]]
          /\ [party EXCEPT ![p].active = active, ![p].legacy = legacy]
               \in [Parties -> [stored : BOOLEAN, active : BOOLEAN, legacy : BOOLEAN]]
          /\ [party EXCEPT ![p].active = active]
               \in [Parties -> [stored : BOOLEAN, active : BOOLEAN, legacy : BOOLEAN]]
    OBVIOUS
  <1>1. CASE \E w \in Owners : BeginOpen(t, w)
    <2> PICK w \in Owners : BeginOpen(t, w)
      BY <1>1
    <2>1. PICK default \in BOOLEAN, active \in BOOLEAN : Goes(t, Opening(w, default, active))
      BY DEF BeginOpen
    <2> DEFINE o == Opening(w, default, active)
    <2>2. o \in TellerRows /\ o.op = "open" /\ o.a = 0 /\ o.row.owner = w /\ o.clear \subseteq Opened
      <3>1. /\ o \in TellerRows /\ o.op = "open" /\ o.a = 0
            /\ o.row = [owner |-> w, default |-> default, active |-> active]
            /\ o.clear = IF default THEN Cleared(w, 0) ELSE {}
        BY OpeningFacts
      <3> HIDE DEF o
      <3>2. o.clear \subseteq Opened
        BY <1>c, <3>1
      <3> QED
        BY <3>1, <3>2
    <2>3. UNCHANGED <<party, account>>
      BY DEF BeginOpen
    <2> HIDE DEF o
    <2> QED
      BY <1>b, <2>1, <2>2, <2>3, TellerTyped DEF o
  <1>2. CASE CommitOpen(t)
    <2> DEFINE m == Min(Accounts \ Opened)
    <2>1. /\ r.op = "open" /\ Opened # Accounts /\ Goes(t, Free) /\ UNCHANGED party
          /\ account' = [Unflagged(r.clear, account) EXCEPT ![m] = r.row]
      BY <1>2 DEF CommitOpen
    <2>2. m \in Accounts /\ m \notin Opened
      BY <2>1, NextAccount
    <2>3. r.row \in AccountRows /\ r.row.owner \in Owners
      BY <1>a, <2>1 DEF TellerRows
    <2> HIDE DEF m
    <2>4. /\ account' \in [Accounts -> AccountRows] /\ account'[m] = r.row
          /\ \A a \in Accounts : a # m => account'[a].owner = account[a].owner
          /\ \A a \in Accounts : a # m /\ a \notin r.clear => account'[a] = account[a]
      BY <2>1, <2>2, <2>3 DEF Unflagged, AccountRows
    <2>5. Opened \subseteq Opened'
      BY <1>a, <2>2, <2>4, AccountFacts DEF Opened
    <2>6. \A a \in Opened' : account'[a].owner \in Owners
      <3>1. \A a \in Opened' : a = m \/ a \in Opened
        BY <1>a, <2>4 DEF Opened
      <3> QED
        BY <1>a, <2>3, <2>4, <3>1, <2>2
    <2> QED
      BY <2>1, <2>4, <2>5, <2>6, TellerTyped, AccountFacts
  <1>3. CASE CommitChange(t)
    <2> DEFINE a == r.a
               de == Kept(r.seen.default, r.row.default, Unflagged(r.clear, account)[a].default)
               ac == Kept(r.seen.active, r.row.active, Unflagged(r.clear, account)[a].active)
    <2>1. r.op = "change" /\ a \in Opened /\ a \in Accounts
      BY <1>3, <1>a DEF CommitChange
    <2>2. /\ account' = [Unflagged(r.clear, account) EXCEPT ![a].default = de, ![a].active = ac]
          /\ Goes(t, Free) /\ UNCHANGED party
      <3>1. /\ account' = [Unflagged(r.clear, account) EXCEPT
                     ![a].default = Kept(r.seen.default, r.row.default, @),
                     ![a].active = Kept(r.seen.active, r.row.active, @)]
            /\ Goes(t, Free) /\ UNCHANGED party
        BY <1>3 DEF CommitChange
      <3> HIDE DEF a
      <3> QED
        BY <2>1, <3>1 DEF Unflagged, AccountRows
    <2> DEFINE U == Unflagged(r.clear, account)
    <2>6. /\ U \in [Accounts -> AccountRows]
          /\ \A b \in Accounts : U[b].owner = account[b].owner /\ (b \notin r.clear => U[b] = account[b])
      BY DEF Unflagged, AccountRows
    <2>7. r.row \in AccountRows
      BY <1>a DEF TellerRows
    <2>3. de \in BOOLEAN /\ ac \in BOOLEAN
      <3>1. r.row.default \in BOOLEAN /\ r.row.active \in BOOLEAN /\ U[a].default \in BOOLEAN /\ U[a].active \in BOOLEAN
        BY <2>1, <2>6, <2>7 DEF AccountRows
      <3> QED
        BY <3>1, KeptType
    <2> HIDE DEF a, de, ac, U
    <2>4. /\ account' \in [Accounts -> AccountRows]
          /\ \A b \in Accounts : account'[b].owner = account[b].owner
          /\ \A b \in Accounts : b # a /\ b \notin r.clear => account'[b] = account[b]
      BY <2>1, <2>2, <2>3, <2>6 DEF AccountRows, U
    <2>5. Opened' = Opened
      BY <1>a, <2>1, <2>4, AccountFacts DEF Opened
    <2> QED
      BY <1>a, <2>2, <2>4, <2>5, TellerTyped, AccountFacts
  <1>4. CASE SeedAccount(t)
    <2> DEFINE o == IF Seeded(r.owner) THEN Opening(r.owner, TRUE, TRUE) ELSE Free
    <2>1. Goes(t, o) /\ UNCHANGED <<party, account>> /\ r.owner \in Owners
      BY <1>4, <1>a DEF SeedAccount, Owners
    <2>2. o \in TellerRows /\ o.a = 0 /\ (o.op = "none" \/ (o.op = "open" /\ o.row.owner = r.owner))
          /\ o.clear \subseteq Opened
      <3>1. CASE Seeded(r.owner)
        <4> DEFINE q == Opening(r.owner, TRUE, TRUE)
        <4>1. /\ q \in TellerRows /\ q.op = "open" /\ q.a = 0
              /\ q.row = [owner |-> r.owner, default |-> TRUE, active |-> TRUE]
              /\ q.clear = Cleared(r.owner, 0)
          <5>1. TRUE \in BOOLEAN
            OBVIOUS
          <5> QED
            BY <2>1, <5>1, OpeningFacts
        <4>2. o = q
          BY <3>1
        <4> HIDE DEF o, q
        <4> QED
          BY <1>c, <4>1, <4>2
      <3>2. CASE ~Seeded(r.owner)
        BY <3>2, AccountFacts
      <3> QED
        BY <3>1, <3>2
    <2> HIDE DEF o
    <2> QED
      BY <1>b, <2>1, <2>2, TellerTyped
  <1>5. CASE \E a \in Accounts : BeginChange(t, a)
    <2> PICK a \in Accounts : BeginChange(t, a)
      BY <1>5
    <2> DEFINE w == account[a].owner
    <2>1. a \in Opened /\ UNCHANGED <<party, account>> /\ w \in Owners /\ account[a] \in AccountRows
      BY DEF BeginChange
    <2>2. PICK default \in BOOLEAN, active \in BOOLEAN, says \in BOOLEAN :
            Goes(t, [op |-> "change", a |-> a, owner |-> w, seen |-> account[a],
                     row |-> [owner |-> w, default |-> default, active |-> active],
                     clear |-> IF says /\ default THEN Cleared(w, a) ELSE {}])
      BY DEF BeginChange
    <2> DEFINE o == [op |-> "change", a |-> a, owner |-> w, seen |-> account[a],
                     row |-> [owner |-> w, default |-> default, active |-> active],
                     clear |-> IF says /\ default THEN Cleared(w, a) ELSE {}]
    <2>3. o \in TellerRows /\ o.a = a /\ o.op = "change" /\ o.row.owner = w /\ o.clear \subseteq Opened
      BY <1>a, <1>c, <2>1 DEF TellerRows, AccountRows
    <2> HIDE DEF o
    <2> QED
      BY <1>b, <2>1, <2>2, <2>3, TellerTyped DEF o
  <1>6. CASE \E a \in Accounts : Deactivate(t, a)
    <2> PICK a \in Accounts : Deactivate(t, a)
      BY <1>6
    <2>1. a \in Opened /\ account' = [account EXCEPT ![a].active = FALSE] /\ UNCHANGED <<party, teller>>
      BY DEF Deactivate
    <2>2. /\ account' \in [Accounts -> AccountRows]
          /\ \A b \in Accounts : account'[b].owner = account[b].owner
          /\ \A b \in Accounts : b # a => account'[b] = account[b]
      BY <2>1 DEF AccountRows
    <2>3. Opened' = Opened
      BY <2>1, <2>2, AccountFacts DEF Opened
    <2> QED
      BY <1>a, <2>1, <2>2, <2>3
  <1>7. CASE \E p \in Parties : CreateParty(t, p) \/ UpdateParty(t, p) \/ DeleteParty(t, p)
    <2> PICK p \in Parties : CreateParty(t, p) \/ UpdateParty(t, p) \/ DeleteParty(t, p)
      BY <1>7
    <2>1. /\ UNCHANGED account
          /\ party' \in [Parties -> [stored : BOOLEAN, active : BOOLEAN, legacy : BOOLEAN]]
      <3>1. CASE CreateParty(t, p)
        <4>1. PICK active \in BOOLEAN, legacy \in BOOLEAN :
                party' = [party EXCEPT ![p] = [stored |-> TRUE, active |-> active, legacy |-> legacy]]
          BY <3>1 DEF CreateParty
        <4> QED
          BY <1>d, <3>1, <4>1 DEF CreateParty
      <3>3. CASE UpdateParty(t, p)
        <4>1. PICK active \in BOOLEAN, legacy \in BOOLEAN :
                party' = [party EXCEPT ![p].active = active, ![p].legacy = legacy]
          BY <3>3 DEF UpdateParty
        <4> QED
          BY <1>d, <3>3, <4>1 DEF UpdateParty
      <3>2. CASE DeleteParty(t, p)
        BY <1>d, <3>2 DEF DeleteParty
      <3> QED
        BY <3>1, <3>2, <3>3
    <2>2. UNCHANGED teller \/ Goes(t, [Free EXCEPT !.op = "seed", !.owner = p])
      BY DEF CreateParty, UpdateParty, DeleteParty
    <2> DEFINE o == [Free EXCEPT !.op = "seed", !.owner = p]
    <2>3. o \in TellerRows /\ o.a = 0 /\ o.op = "seed" /\ o.owner = p /\ o.clear = {}
      BY AccountFacts DEF Free, TellerRows, Owners
    <2> HIDE DEF o
    <2>4. CASE UNCHANGED teller
      BY <1>b, <2>1, <2>4
    <2>5. CASE Goes(t, o)
      BY <1>b, <2>1, <2>3, <2>5, TellerTyped
    <2> QED
      BY <2>2, <2>4, <2>5 DEF o
  <1> QED
    BY <1>1, <1>2, <1>3, <1>4, <1>5, <1>6, <1>7

(* One request at a time, each step leaves an owner one default at most: an *)
(* account is made the default by a request that clears all the others.     *)
LEMMA OneTellerStep ==
    ASSUME AccountsTyped, OneTeller, AccountsNext
    PROVE  OneTeller'
  <1> PICK t \in Tellers :
        \/ \E w \in Owners : BeginOpen(t, w)
        \/ CommitOpen(t) \/ CommitChange(t) \/ SeedAccount(t)
        \/ \E a \in Accounts : BeginChange(t, a) \/ Deactivate(t, a)
        \/ \E p \in Parties : CreateParty(t, p) \/ UpdateParty(t, p) \/ DeleteParty(t, p)
    BY Zenon DEF AccountsNext
  <1>1. rush' = rush
    BY DEF BeginOpen, CommitOpen, CommitChange, SeedAccount, BeginChange, Deactivate, CreateParty,
           UpdateParty, DeleteParty
  <1> SUFFICES ASSUME ~rush PROVE OneTeller'
    BY <1>1 DEF OneTeller
  <1> DEFINE r == teller[t]
  <1>2. /\ \A u, v \in Tellers : teller[u] # Free /\ teller[v] # Free => u = v
        /\ \A u \in Tellers : ClearsOthers(teller[u])
        /\ \A w \in Owners : \A a, b \in DefaultsOf(w) : a = b
    BY DEF OneTeller
  <1>3. /\ account \in [Accounts -> AccountRows] /\ r \in TellerRows /\ Opened \subseteq Accounts
        /\ r.op \in {"open", "change"} => r.row.owner \in Owners
        /\ r.op = "change" => r.a \in Opened
        /\ r.op = "seed" => r.owner \in Owners
        /\ r.clear \subseteq Opened
        /\ \A a \in Opened : account[a].owner \in Owners
    BY AccountFacts DEF AccountsTyped, Owners
  <1>4. AccountsTyped' /\ \A a \in Opened' : a \in Accounts
    BY AccountsTypedStep DEF Opened
  <1> DEFINE Distinct == \A w \in Owners : \A a, b \in DefaultsOf(w)' : a = b
  <1>a. ASSUME NEW q, Goes(t, q), \A u \in Tellers : u # t => teller[u] = Free, ClearsAfter(q), Distinct
        PROVE  OneTeller'
    <2>1. \A u \in Tellers : teller'[u] = IF u = t THEN q ELSE Free
      BY <1>a DEF Goes, AccountsTyped
    <2>2. ClearsAfter(Free)
      BY AccountFacts DEF ClearsAfter
    <2>3. \A u \in Tellers : ClearsAfter(teller'[u])
      BY <1>a, <2>1, <2>2
    <2>4. \A u \in Tellers : teller'[u].op = "open" => teller'[u].row.owner \in Owners
      BY <1>4 DEF AccountsTyped
    <2>5. \A u \in Tellers : teller'[u].op = "change" => teller'[u].row.owner \in Owners
      BY <1>4 DEF AccountsTyped
    <2>6. \A u \in Tellers : ClearsOthers(teller[u])'
      BY <2>3, <2>4, <2>5 DEF ClearsOthers, ClearsAfter
    <2>7. \A u, v \in Tellers : teller'[u] # Free /\ teller'[v] # Free => u = v
      BY <2>1
    <2> QED
      BY <1>a, <2>6, <2>7 DEF OneTeller
  <1>b. ASSUME r.op # "none" PROVE \A u \in Tellers : u # t => teller[u] = Free
    BY <1>2, <1>b, AccountFacts
  <1>c. ASSUME Called(t) PROVE \A u \in Tellers : teller[u] = Free
    BY <1>c DEF Called
  <1>d. ASSUME account' = account PROVE Distinct /\ \A w : DefaultsOf(w)' = DefaultsOf(w)
    BY <1>2, <1>d DEF DefaultsOf, Of, Opened
  <1>e. ASSUME \A w \in Owners : DefaultsOf(w)' \subseteq DefaultsOf(w) \/ \E a : DefaultsOf(w)' \subseteq {a}
        PROVE  Distinct
    BY <1>2, <1>e
  <1>f. ASSUME NEW w \in Owners, NEW default \in BOOLEAN, NEW active \in BOOLEAN, account' = account
        PROVE  ClearsAfter(Opening(w, default, active))
    <2> DEFINE q == Opening(w, default, active)
    <2>1. /\ q.op = "open" /\ q.row = [owner |-> w, default |-> default, active |-> active]
          /\ q.clear = IF default THEN Cleared(w, 0) ELSE {}
      BY OpeningFacts
    <2> HIDE DEF q
    <2>2. Cleared(w, 0) = DefaultsOf(w)
      BY AccountsAssumption DEF Cleared, DefaultsOf, Of, Opened
    <2>3. DefaultsOf(w)' = DefaultsOf(w)
      BY <1>d, <1>f
    <2>4. q.row.owner = w /\ (q.row.default <=> default)
      BY <2>1
    <2>5. \A v \in Owners : q.op = "open" /\ q.row.default /\ v = q.row.owner => DefaultsOf(v)' \subseteq q.clear
      <3> SUFFICES ASSUME q.row.default PROVE DefaultsOf(w)' \subseteq q.clear
        BY <2>4
      <3>1. default
        BY <2>4
      <3>2. q.clear = DefaultsOf(w)
        BY <2>1, <2>2, <3>1
      <3> QED
        BY <2>3, <3>2
    <2>6. ~(q.op = "change")
      BY <2>1
    <2>7. ClearsAfter(q)
      BY <2>5, <2>6, Zenon DEF ClearsAfter
    <2> QED
      BY <2>7 DEF q
  <1>5. CASE \E w \in Owners : BeginOpen(t, w)
    <2> PICK w \in Owners : BeginOpen(t, w)
      BY <1>5
    <2>1. PICK default \in BOOLEAN, active \in BOOLEAN : Goes(t, Opening(w, default, active))
      BY DEF BeginOpen
    <2>2. Called(t) /\ account' = account
      BY DEF BeginOpen
    <2>3. Distinct
      BY <1>d, <2>2
    <2>4. ClearsAfter(Opening(w, default, active))
      BY <1>f, <2>2
    <2> HIDE DEF Distinct
    <2> QED
      BY <1>a, <1>c, <2>1, <2>2, <2>3, <2>4
  <1>6. CASE SeedAccount(t)
    <2>1. /\ r.op = "seed" /\ account' = account
          /\ Goes(t, IF Seeded(r.owner) THEN Opening(r.owner, TRUE, TRUE) ELSE Free)
      BY <1>6 DEF SeedAccount
    <2>2. Distinct
      BY <1>d, <2>1
    <2>3. ClearsAfter(Free)
      BY AccountFacts DEF ClearsAfter
    <2>4. r.owner \in Owners /\ TRUE \in BOOLEAN
      BY <1>3, <2>1
    <2>5. ClearsAfter(Opening(r.owner, TRUE, TRUE))
      <3>1. \A w \in Owners : ClearsAfter(Opening(w, TRUE, TRUE))
        BY <1>f, <2>1, <2>4
      <3> QED
        BY <2>4, <3>1
    <2> HIDE DEF Distinct
    <2> QED
      BY <1>a, <1>b, <2>1, <2>2, <2>3, <2>5
  <1>7. CASE \E a \in Accounts : BeginChange(t, a)
    <2> PICK a \in Accounts : BeginChange(t, a)
      BY <1>7
    <2> DEFINE w == account[a].owner
    <2>1. a \in Opened /\ account' = account /\ Called(t)
      BY DEF BeginChange
    <2>2. PICK default \in BOOLEAN, active \in BOOLEAN, says \in BOOLEAN :
            /\ ~says => default = account[a].default
            /\ Goes(t, [op |-> "change", a |-> a, owner |-> w, seen |-> account[a],
                        row |-> [owner |-> w, default |-> default, active |-> active],
                        clear |-> IF says /\ default THEN Cleared(w, a) ELSE {}])
      BY DEF BeginChange
    <2> DEFINE q == [op |-> "change", a |-> a, owner |-> w, seen |-> account[a],
                     row |-> [owner |-> w, default |-> default, active |-> active],
                     clear |-> IF says /\ default THEN Cleared(w, a) ELSE {}]
    <2>3. /\ q.op = "change" /\ q.a = a /\ q.seen = account[a] /\ q.row.owner = w
          /\ q.row.default = default /\ q.clear = IF says /\ default THEN Cleared(w, a) ELSE {}
      OBVIOUS
    <2>4. DefaultsOf(w) \subseteq Cleared(w, a) \cup {a} /\ a \notin Cleared(w, a)
      BY DEF Cleared
    <2>5. \A v \in Owners : v = w => DefaultsOf(v)' = DefaultsOf(w)
      BY <1>d, <2>1
    <2> HIDE DEF q
    <2>6. ClearsAfter(q)
      <3>1. CASE says /\ default
        BY <2>1, <2>3, <2>4, <2>5, <3>1 DEF ClearsAfter
      <3>2. CASE ~(says /\ default)
        <4>1. q.row.default => q.seen.default
          BY <2>2, <2>3, <3>2
        <4> QED
          BY <2>1, <2>3, <3>2, <4>1 DEF ClearsAfter
      <3> QED
        BY <3>1, <3>2
    <2>7. Distinct
      BY <1>d, <2>1
    <2> HIDE DEF Distinct
    <2>8. Goes(t, q)
      BY <2>2 DEF q
    <2> QED
      BY <1>a, <1>c, <2>1, <2>6, <2>7, <2>8
  <1>8. CASE CommitOpen(t)
    <2> DEFINE m == Min(Accounts \ Opened)
               row == r.row
    <2>1. /\ r.op = "open" /\ Opened # Accounts /\ Goes(t, Free)
          /\ account' = [Unflagged(r.clear, account) EXCEPT ![m] = row]
      BY <1>8 DEF CommitOpen
    <2>2. m \in Accounts /\ m \notin Opened
      BY <2>1, NextAccount
    <2>3. /\ row \in AccountRows /\ row.owner \in Owners
          /\ row.default => DefaultsOf(row.owner) \subseteq r.clear
      BY <1>2, <1>3, <2>1 DEF TellerRows, ClearsOthers
    <2> HIDE DEF m, row
    <2>4. /\ account'[m] = row
          /\ \A a \in Accounts : a # m => /\ account'[a].owner = account[a].owner
                                          /\ a \notin r.clear => account'[a] = account[a]
                                          /\ a \in r.clear => ~account'[a].default
      BY <1>3, <2>1, <2>2, <2>3 DEF Unflagged, AccountRows
    <2>5. ASSUME NEW w \in Owners, NEW a \in DefaultsOf(w)', a # m
          PROVE  a \in DefaultsOf(w) /\ a \notin r.clear
      <3>1. a \in Accounts /\ account'[a] # NoAccount /\ account'[a].owner = w /\ account'[a].default
        BY <2>5 DEF DefaultsOf, Of, Opened
      <3>2. a \notin r.clear /\ account'[a] = account[a]
        BY <2>4, <2>5, <3>1
      <3> QED
        BY <3>1, <3>2 DEF DefaultsOf, Of, Opened
    <2>6. ASSUME NEW w \in Owners, m \in DefaultsOf(w)' PROVE row.default /\ row.owner = w
      BY <2>4, <2>6 DEF DefaultsOf, Of
    <2>7. Distinct
      <3>1. ASSUME NEW w \in Owners
            PROVE  DefaultsOf(w)' \subseteq DefaultsOf(w) \/ \E a : DefaultsOf(w)' \subseteq {a}
        <4>1. CASE m \in DefaultsOf(w)'
          <5>1. DefaultsOf(w) \subseteq r.clear
            BY <2>3, <2>6, <4>1
          <5>2. DefaultsOf(w)' \subseteq {m}
            BY <2>5, <5>1
          <5> QED
            BY <5>2
        <4>2. CASE m \notin DefaultsOf(w)'
          BY <2>5, <4>2
        <4> QED
          BY <4>1, <4>2
      <3> QED
        BY <1>e, <3>1
    <2>8. ClearsAfter(Free)
      BY AccountFacts DEF ClearsAfter
    <2> HIDE DEF Distinct
    <2> QED
      BY <1>a, <1>b, <2>1, <2>7, <2>8
  <1>9. CASE CommitChange(t)
    <2> DEFINE x == r.a
               seen == r.seen
               row == r.row
               U == Unflagged(r.clear, account)
               de == Kept(seen.default, row.default, U[x].default)
               ac == Kept(seen.active, row.active, U[x].active)
    <2>1. r.op = "change" /\ x \in Opened /\ x \in Accounts /\ Goes(t, Free)
      BY <1>9, <1>3 DEF CommitChange
    <2>2. /\ seen = account[x] /\ row.owner = account[x].owner /\ x \notin r.clear
          /\ row.default => seen.default \/ DefaultsOf(row.owner) \subseteq r.clear \cup {x}
          /\ row \in AccountRows
      BY <1>2, <1>3, <2>1 DEF ClearsOthers, TellerRows
    <2>3. /\ U \in [Accounts -> AccountRows]
          /\ \A b \in Accounts : /\ U[b].owner = account[b].owner
                                 /\ b \notin r.clear => U[b] = account[b]
                                 /\ b \in r.clear => ~U[b].default
      BY <1>3 DEF Unflagged, AccountRows
    <2>4. account' = [U EXCEPT ![x].default = de, ![x].active = ac]
      <3>1. account' = [U EXCEPT ![x].default = Kept(seen.default, row.default, @),
                                 ![x].active = Kept(seen.active, row.active, @)]
        BY <1>9 DEF CommitChange
      <3> HIDE DEF x, seen, row, U
      <3> QED
        BY <2>1, <2>3, <3>1 DEF AccountRows
    <2>5. de = row.default \/ (seen.default = row.default /\ de = seen.default)
      <3>1. U[x].default = seen.default
        BY <2>1, <2>2, <2>3
      <3> QED
        BY <3>1 DEF Kept
    <2> HIDE DEF x, seen, row, U, de, ac
    <2>6. /\ account'[x].default = de /\ account'[x].owner = account[x].owner
          /\ \A b \in Accounts : b # x => account'[b] = U[b]
      BY <2>1, <2>3, <2>4 DEF AccountRows
    <2>7. ASSUME NEW w \in Owners, NEW a \in DefaultsOf(w)', a # x
          PROVE  a \in DefaultsOf(w) /\ a \notin r.clear
      <3>1. a \in Accounts /\ account'[a] # NoAccount /\ account'[a].owner = w /\ account'[a].default
        BY <2>7 DEF DefaultsOf, Of, Opened
      <3>2. a \notin r.clear /\ account'[a] = account[a]
        BY <2>3, <2>6, <2>7, <3>1
      <3> QED
        BY <3>1, <3>2 DEF DefaultsOf, Of, Opened
    <2>8. Distinct
      <3>1. ASSUME NEW w \in Owners
            PROVE  DefaultsOf(w)' \subseteq DefaultsOf(w) \/ \E a : DefaultsOf(w)' \subseteq {a}
        <4>1. CASE x \in DefaultsOf(w)' /\ x \notin DefaultsOf(w)
          <5>1. de /\ w = row.owner
            BY <2>2, <2>6, <4>1 DEF DefaultsOf, Of
          <5>2. ~seen.default
            BY <2>1, <2>2, <4>1, <5>1 DEF DefaultsOf, Of
          <5>3. row.default
            BY <2>5, <5>1, <5>2
          <5>4. DefaultsOf(w) \subseteq r.clear \cup {x}
            BY <2>2, <5>1, <5>2, <5>3
          <5>5. DefaultsOf(w)' \subseteq {x}
            BY <2>7, <5>4
          <5> QED
            BY <5>5
        <4>2. CASE x \notin DefaultsOf(w)' \/ x \in DefaultsOf(w)
          BY <2>7, <4>2
        <4> QED
          BY <4>1, <4>2
      <3> QED
        BY <1>e, <3>1
    <2>9. ClearsAfter(Free)
      BY AccountFacts DEF ClearsAfter
    <2> HIDE DEF Distinct
    <2> QED
      BY <1>a, <1>b, <2>1, <2>8, <2>9
  <1>10. CASE \E a \in Accounts : Deactivate(t, a)
    <2> PICK a \in Accounts : Deactivate(t, a)
      BY <1>10
    <2>1. a \in Opened /\ account' = [account EXCEPT ![a].active = FALSE] /\ UNCHANGED teller /\ Called(t)
      BY DEF Deactivate
    <2>2. \A b \in Accounts : /\ account'[b].owner = account[b].owner
                              /\ account'[b].default = account[b].default
                              /\ b # a => account'[b] = account[b]
      BY <1>3, <2>1 DEF AccountRows
    <2>3. \A w \in Owners : DefaultsOf(w)' \subseteq DefaultsOf(w)
      BY <2>1, <2>2 DEF DefaultsOf, Of, Opened
    <2>4. Distinct
      BY <1>e, <2>3
    <2>5. ClearsAfter(Free)
      BY AccountFacts DEF ClearsAfter
    <2>6. Goes(t, Free)
      BY <1>c, <2>1 DEF Goes, AccountsTyped
    <2> HIDE DEF Distinct
    <2> QED
      BY <1>a, <1>c, <2>1, <2>4, <2>5, <2>6
  <1>11. CASE \E p \in Parties : CreateParty(t, p) \/ UpdateParty(t, p) \/ DeleteParty(t, p)
    <2> PICK p \in Parties : CreateParty(t, p) \/ UpdateParty(t, p) \/ DeleteParty(t, p)
      BY <1>11
    <2> DEFINE q == [Free EXCEPT !.op = "seed", !.owner = p]
    <2>1. /\ account' = account /\ Called(t) /\ (UNCHANGED teller \/ Goes(t, q))
      BY DEF CreateParty, UpdateParty, DeleteParty
    <2>2. ClearsAfter(Free)
      BY AccountFacts DEF ClearsAfter
    <2>3. ClearsAfter(q)
      BY DEF Free, ClearsAfter
    <2> HIDE DEF q
    <2>4. Distinct
      BY <1>d, <2>1
    <2>5. Goes(t, Free) \/ Goes(t, q)
      BY <1>c, <2>1 DEF Goes, AccountsTyped
    <2> HIDE DEF Distinct
    <2> QED
      BY <1>a, <1>c, <2>1, <2>2, <2>3, <2>4, <2>5
  <1> QED
    BY <1>5, <1>6, <1>7, <1>8, <1>9, <1>10, <1>11

(* Every step of accounts keeps the invariant.                              *)
LEMMA AccountsKept ==
    ASSUME AccountsInv, [AccountsNext]_accountsVars
    PROVE  AccountsInv'
  <1>1. CASE AccountsNext
    <2>1. rush' = rush
      BY <1>1 DEF AccountsNext, BeginOpen, CommitOpen, CommitChange, SeedAccount, BeginChange, Deactivate,
                  CreateParty, UpdateParty, DeleteParty
    <2> QED
      BY <1>1, <2>1, AccountsTypedStep, OneTellerStep DEF AccountsInv
  <1>2. CASE UNCHANGED accountsVars
    <2> USE <1>2 DEF accountsVars
    <2>1. Opened' = Opened /\ \A w : DefaultsOf(w)' = DefaultsOf(w)
      BY DEF Opened, DefaultsOf, Of
    <2>2. AccountsTyped'
      BY <2>1 DEF AccountsInv, AccountsTyped
    <2>3. OneTeller'
      BY <2>1 DEF AccountsInv, OneTeller, ClearsOthers, DefaultsOf, Of, Opened
    <2> QED
      BY <2>2, <2>3 DEF AccountsInv
  <1> QED
    BY <1>1, <1>2

(* Accounts keep their invariant.                                           *)
THEOREM AccountsInvariant == AccountsSpec => []AccountsInv
  BY AccountsStart, AccountsKept, PTL DEF AccountsSpec

(* One request at a time, an owner has one default account at most, whatever*)
(* was opened, changed, seeded or deactivated before.                       *)
THEOREM OneDefaultAccount == AccountsSpec => []OneDefault
  <1>1. AccountsInv => OneDefault
    <2> SUFFICES ASSUME AccountsInv PROVE OneDefault
      OBVIOUS
    <2>1. AccountsTypeOK
      BY DEF AccountsInv, AccountsTyped, AccountRows, AccountsTypeOK
    <2>2. ASSUME ~rush, NEW w \in Owners PROVE Cardinality(DefaultsOf(w)) <= 1
      <3>1. \A a, b \in DefaultsOf(w) : a = b
        BY <2>2 DEF AccountsInv, OneTeller
      <3>2. CASE DefaultsOf(w) = {}
        BY <3>2, FS_EmptySet
      <3>3. CASE DefaultsOf(w) # {}
        <4> PICK a : a \in DefaultsOf(w)
          BY <3>3
        <4>1. DefaultsOf(w) = {a}
          BY <3>1
        <4>2. Cardinality({a}) = 1
          BY FS_Singleton
        <4> QED
          BY <4>1, <4>2
      <3> QED
        BY <3>2, <3>3
    <2> QED
      BY <2>1, <2>2 DEF OneDefault
  <1> QED
    BY <1>1, AccountsInvariant, PTL
=============================================================================
