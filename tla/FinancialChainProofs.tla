------------------------ MODULE FinancialChainProofs ------------------------
(***************************************************************************)
(* What TLAPS proves of FinancialChain, for any chains, people and bounds:  *)
(* its types, that nothing is confirmed in Sepidar that is not registered   *)
(* there, that what is registered keeps its numbers as long as an edit does *)
(* not share the database with other requests, that the stages come in      *)
(* order with what they collect, that only those who are asked change a     *)
(* request, and that whoever is asked can answer.                           *)
(***************************************************************************)
EXTENDS FinancialChain, TLAPS

(* An edit that passed its checks on a registered row leaves the numbers    *)
(* alone, whatever the kind of the payment.                                 *)
EditKeepsNumbers ==
    registered /\ edit # NoEdit /\ ~setting.overlap =>
        ~edit.new.amount /\ ~edit.new.payer /\ ~edit.new.method

FInv == TypeOK /\ (confirmed => registered) /\ EditKeepsNumbers

(* A row with other numbers is a row, and with the same ones the same row.  *)
LEMMA RowUpdate ==
    ASSUME NEW r \in Rows, NEW a \in 0..MaxAmount, NEW m \in BOOLEAN,
           NEW y \in BOOLEAN, NEW s \in BOOLEAN
    PROVE  /\ [r EXCEPT !.amount = a, !.method = m, !.payer = y, !.terms = s] \in Rows
           /\ a = r.amount /\ m = r.method /\ y = r.payer /\ s = r.terms =>
                [r EXCEPT !.amount = a, !.method = m, !.payer = y, !.terms = s] = r
  BY DEF Rows

(* What a decision may make of the row: a row again, and the very same one  *)
(* once it is registered.                                                   *)
LEMMA TermsKeepRow ==
    ASSUME TypeOK, NEW o \in Orders, NEW u, NEW t \in Terms, NEW p \in WithTerms(o, u, t)
    PROVE  p \in Rows /\ (registered => p = pay)
<1> DEFINE a == IF t.amount THEN pay.amount + 1 ELSE pay.amount
           m == pay.method \/ (pay.type = "payment_order" /\ t.method)
           y == pay.payer \/ (t.payer /\ \/ pay.type = "payment_order"
                                         \/ pay.type \in Employee /\ MustCollect(pay, o))
           s == pay.terms \/ (t.terms /\ pay.type \in Employee /\ MustCollect(pay, o))
           new == [pay EXCEPT !.amount = a, !.method = m, !.payer = y, !.terms = s]
<1>1. pay \in Rows /\ MaxAmount \in Nat
  BY FinancialAssumption DEF TypeOK
<1>2. p = new /\ p.amount <= MaxAmount /\ (Touches(t) => MayMutate(o))
  BY Zenon DEF WithTerms
<1>3. /\ pay.amount \in Nat
      /\ pay.method \in BOOLEAN /\ pay.payer \in BOOLEAN /\ pay.terms \in BOOLEAN
  BY <1>1 DEF Rows
<1>4. m \in BOOLEAN /\ y \in BOOLEAN /\ s \in BOOLEAN
  BY <1>3, Zenon
<1>5. a \in 0..MaxAmount
  <2>1. new.amount = a
    BY <1>1 DEF Rows
  <2> QED
    BY <1>1, <1>2, <1>3, <2>1
<1>6. ASSUME registered
      PROVE  a = pay.amount /\ m = pay.method /\ y = pay.payer /\ s = pay.terms
  <2>1. ~Touches(t)
    BY <1>2, <1>6 DEF MayMutate
  <2>2. ~t.amount /\ ~t.payer /\ ~t.method /\ ~t.terms
    BY <2>1 DEF Touches
  <2>3. a = pay.amount
    BY <2>2
  <2>4. m = pay.method /\ y = pay.payer /\ s = pay.terms
    BY <1>3, <2>2, Zenon
  <2> QED
    BY <2>3, <2>4
<1> HIDE DEF a, m, y, s
<1> QED
  BY <1>1, <1>2, <1>4, <1>5, <1>6, RowUpdate

(* What the steps of the chain write there: statuses of steps.              *)
LEMMA RejectTypes ==
    ASSUME TypeOK, NEW s \in Orders, NEW prev
    PROVE  AfterReject(s, prev) \in
             [Orders -> {"none", "pending", "approved", "rejected", "cancelled"}]
  BY DEF TypeOK, AfterReject

(* The orders of a chain are numbers.                                       *)
LEMMA OrdersAreNat ==
    ASSUME TypeOK
    PROVE  Orders \subseteq Nat
  BY FinancialAssumption DEF TypeOK, Orders

(* One step waits at a time.                                                *)
LEMMA OneWaits ==
    ASSUME TypeOK, NEW s \in Lowest(Pending), NEW r \in Lowest(Pending)
    PROVE  s = r
<1>1. s \in Nat /\ r \in Nat
  BY OrdersAreNat DEF Lowest, Pending
<1>2. s <= r /\ r <= s
  BY DEF Lowest
<1> QED
  BY <1>1, <1>2

(* A payment request starts out unregistered and unedited.                  *)
LEMMA InitFInv == Init => FInv
<1> SUFFICES ASSUME Init PROVE FInv
  OBVIOUS
<1>1. setting.type \in Types /\ setting.retreats \in Nat /\ MaxAmount \in Nat
  BY FinancialAssumption DEF Init
<1>2. pay \in Rows
  BY <1>1 DEF Init, Rows
<1>3. edit = NoEdit /\ registered = FALSE /\ confirmed = FALSE
  BY DEF Init
<1>4. /\ setting \in Settings /\ retreats = 0
      /\ row = "absent" /\ image = "none" /\ status = "pending" /\ inst = "absent"
      /\ announced = {} /\ who \in [Orders -> setting.users]
      /\ step = [o \in Orders |-> "none"]
  BY DEF Init
<1>5. TypeOK
  <2>1. /\ step \in [Orders -> {"none", "pending", "approved", "rejected", "cancelled"}]
        /\ edit \in {NoEdit} \cup [by : {"requester", "corrector"}, new : Payload]
    BY <1>3, <1>4
  <2>2. retreats \in 0..setting.retreats
    BY <1>1, <1>4
  <2> HIDE DEF NoEdit
  <2> QED
    BY <1>2, <1>3, <1>4, <2>1, <2>2 DEF TypeOK
<1> QED
  BY <1>3, <1>5 DEF FInv, EditKeepsNumbers

(* An approval takes the numbers from the approver only before Sepidar has  *)
(* them.                                                                    *)
LEMMA ApproveFInv ==
    ASSUME FInv, NEW u \in setting.users, NEW t \in Terms, Approve(u, t)
    PROVE  FInv' /\ (registered => pay' = pay)
<1>1. TypeOK
  BY DEF FInv
<1>2. /\ edit = NoEdit \/ setting.overlap
      /\ UNCHANGED <<row, status, image, who, retreats, edit, setting>>
  BY DEF Approve, MayApprove, Free
<1>3. PICK s \in Lowest(Pending) :
          /\ ActionAt(s) = "confirm_sepidar" => registered
          /\ \E p \in WithTerms(s, u, t) :
                LET done == {s} \cup Skipped(s, u, p)
                IN /\ pay' = p
                   /\ step' = [o \in Orders |-> IF o \in done THEN "approved" ELSE step[o]]
                   /\ IF Pending = done THEN inst' = "approved" /\ Announce("approved")
                                        ELSE UNCHANGED <<inst, announced>>
          /\ Effect(s)
  <2>1. PICK s \in Lowest(Pending) : ActionAt(s) = "confirm_sepidar" => registered
    BY DEF Approve, MayApprove
  <2>2. \A r \in Lowest(Pending) : r = s
    BY <1>1, OneWaits
  <2> QED
    BY <2>1, <2>2 DEF Approve
<1>4. s \in Orders
  BY DEF Lowest, Pending
<1>5. PICK p \in WithTerms(s, u, t) :
                LET done == {s} \cup Skipped(s, u, p)
                IN /\ pay' = p
                   /\ step' = [o \in Orders |-> IF o \in done THEN "approved" ELSE step[o]]
                   /\ IF Pending = done THEN inst' = "approved" /\ Announce("approved")
                                        ELSE UNCHANGED <<inst, announced>>
  BY <1>3
<1>6. pay' \in Rows /\ (registered => pay' = pay)
  BY <1>1, <1>4, <1>5, TermsKeepRow
<1>7. registered' \in BOOLEAN /\ confirmed' \in BOOLEAN /\ (confirmed' => registered')
  BY <1>3 DEF Effect, FInv
<1>8. step' \in [Orders -> {"none", "pending", "approved", "rejected", "cancelled"}]
  BY <1>1, <1>5 DEF TypeOK
<1>9. /\ inst' \in {"absent", "pending", "in_progress", "approved", "returned", "cancelled"}
      /\ announced' \subseteq {"approved", "rejected"}
  BY <1>1, <1>5 DEF TypeOK, Announce
<1>10. TypeOK'
  BY <1>1, <1>2, <1>6, <1>7, <1>8, <1>9 DEF TypeOK, Orders, Rows, Payload
<1>11. EditKeepsNumbers'
  BY <1>2 DEF EditKeepsNumbers, NoEdit
<1> QED
  BY <1>6, <1>7, <1>10, <1>11 DEF FInv

(* A rejection touches the chain and never the numbers.                     *)
LEMMA RejectFInv ==
    ASSUME FInv, NEW u \in setting.users, Reject(u)
    PROVE  FInv' /\ pay' = pay
<1>1. TypeOK
  BY DEF FInv
<1>2. /\ retreats < setting.retreats /\ retreats' = retreats + 1
      /\ UNCHANGED <<row, money, who, edit, setting>>
  BY DEF Reject
<1>3. PICK s \in Lowest(Pending), prev \in SUBSET Orders :
          /\ step' = AfterReject(s, prev)
          /\ \/ inst' = "in_progress" /\ UNCHANGED <<status, announced>>
             \/ /\ inst' = "returned"
                /\ status' = IF pay.type = "financial_document" THEN "rejected" ELSE status
                /\ Announce("rejected")
  <2>1. PICK s \in Lowest(Pending) :
          LET below == {o \in Orders : step[o] # "none" /\ o < s}
              prev == {o \in below : \A q \in below : q <= o}
          IN /\ step' = AfterReject(s, prev)
             /\ IF prev # {} THEN inst' = "in_progress" /\ UNCHANGED <<status, announced>>
                ELSE /\ inst' = "returned"
                     /\ status' = IF pay.type = "financial_document" THEN "rejected" ELSE status
                     /\ Announce("rejected")
    BY DEF Reject
  <2> DEFINE below == {o \in Orders : step[o] # "none" /\ o < s}
             prev == {o \in below : \A q \in below : q <= o}
  <2>2. prev \in SUBSET Orders
    OBVIOUS
  <2> QED
    BY <2>1, <2>2, Zenon
<1>4. s \in Orders
  BY DEF Lowest, Pending
<1>5. step' \in [Orders -> {"none", "pending", "approved", "rejected", "cancelled"}]
  BY <1>1, <1>3, <1>4, RejectTypes
<1>6. /\ inst' \in {"absent", "pending", "in_progress", "approved", "returned", "cancelled"}
      /\ status' \in {"pending", "approved", "rejected"}
      /\ announced' \subseteq {"approved", "rejected"}
  BY <1>1, <1>3 DEF TypeOK, Announce
<1>7. retreats' \in 0..setting.retreats
  <2>1. setting.retreats \in Nat
    BY <1>1, FinancialAssumption DEF TypeOK
  <2> QED
    BY <1>1, <1>2, <2>1 DEF TypeOK
<1>8. TypeOK'
  BY <1>1, <1>2, <1>5, <1>6, <1>7 DEF TypeOK, Orders, money
<1> QED
  BY <1>2, <1>8 DEF FInv, EditKeepsNumbers, NoEdit, money

(* An edit of a registered row that gets past the lock asks for no new      *)
(* numbers.                                                                 *)
LEMMA BeginEditFInv ==
    ASSUME FInv, NEW by \in {"requester", "corrector"}, NEW new \in Payload, BeginEdit(by, new)
    PROVE  FInv' /\ pay' = pay
<1>1. /\ edit' = [by |-> by, new |-> new]
      /\ UNCHANGED <<row, money, status, announced, chain, setting>>
      /\ pay.type \in Employee => ~new.payer /\ ~new.method
      /\ NumbersLock(by, new)
  BY DEF BeginEdit
<1>2. TypeOK'
  BY <1>1 DEF FInv, TypeOK, money, chain, Orders
<1>3. registered => ~new.amount /\ ~new.payer /\ ~new.method
  BY <1>1 DEF NumbersLock, TouchesNumbers
<1> QED
  BY <1>1, <1>2, <1>3 DEF FInv, EditKeepsNumbers, money

(* An edit writes what it asked for when its checks passed, perhaps long    *)
(* ago.                                                                     *)
LEMMA CommitEditFInv ==
    ASSUME FInv, CommitEdit
    PROVE  /\ FInv'
           /\ registered /\ ~setting.overlap => pay' = [pay EXCEPT !.type = pay'.type]
<1>1. TypeOK /\ pay \in Rows
  BY DEF FInv, TypeOK
<1>2. /\ edit # NoEdit /\ edit' = NoEdit
      /\ UNCHANGED <<row, registered, confirmed, image, status, announced, chain, setting>>
  BY DEF CommitEdit
<1>3. edit \in [by : {"requester", "corrector"}, new : Payload]
  BY <1>1, <1>2 DEF TypeOK
<1> DEFINE a == IF edit.new.amount /\ pay.amount < MaxAmount THEN pay.amount + 1 ELSE pay.amount
           y == pay.payer \/ edit.new.payer
           m == pay.method \/ (edit.new.method /\ edit.new.type = "payment_order")
<1>4. pay' = IF row # "live" THEN pay
             ELSE [pay EXCEPT !.amount = a, !.type = edit.new.type, !.payer = y, !.method = m]
  BY Zenon DEF CommitEdit
<1>5. edit.new \in Payload
  BY <1>3
<1>6. /\ edit.new.type \in Types
      /\ edit.new.amount \in BOOLEAN /\ edit.new.payer \in BOOLEAN /\ edit.new.method \in BOOLEAN
  BY <1>5 DEF Payload
<1>7. pay.amount \in 0..MaxAmount /\ pay.payer \in BOOLEAN /\ pay.method \in BOOLEAN
  BY <1>1 DEF Rows
<1>8. a \in 0..MaxAmount
  BY <1>7, FinancialAssumption
<1>9. y \in BOOLEAN /\ m \in BOOLEAN
  BY Zenon
<1>10. ASSUME registered, ~setting.overlap
       PROVE  a = pay.amount /\ y = pay.payer /\ m = pay.method
  <2>1. ~edit.new.amount /\ ~edit.new.payer /\ ~edit.new.method
    BY <1>2, <1>10 DEF FInv, EditKeepsNumbers
  <2>2. a = pay.amount
    BY <2>1
  <2>3. y = pay.payer /\ m = pay.method
    BY <1>7, <2>1, Zenon
  <2> QED
    BY <2>2, <2>3
<1> HIDE DEF a, y, m
<1>11. pay' \in Rows
  BY <1>1, <1>4, <1>6, <1>8, <1>9 DEF Rows
<1>12. TypeOK'
  BY <1>1, <1>2, <1>11 DEF TypeOK, chain, Orders
<1>13. registered /\ ~setting.overlap => pay' = [pay EXCEPT !.type = pay'.type]
  BY <1>1, <1>4, <1>10, <1>6 DEF Rows
<1> QED
  BY <1>2, <1>12, <1>13 DEF FInv, EditKeepsNumbers
(* Every other action leaves the row and its registration alone.            *)
LEMMA OthersFInv ==
    ASSUME FInv,
           \/ Create \/ (\E u \in setting.users : Upload(u)) \/ Delete
           \/ (\E e \in {"approved", "rejected"} : Consume(e)) \/ UNCHANGED vars
    PROVE  FInv' /\ pay' = pay
<1>1. TypeOK
  BY DEF FInv
<1>2. UNCHANGED <<pay, registered, confirmed, who, retreats, edit, setting>>
  BY DEF Create, Upload, Delete, Consume, vars, money, chain
<1>3. CASE Create
  <2>1. TypeOK'
    BY <1>1, <1>2, <1>3 DEF TypeOK, Create, money, Orders
  <2> QED
    BY <1>2, <2>1 DEF FInv, EditKeepsNumbers, NoEdit
<1>4. CASE \E u \in setting.users : Upload(u)
  <2>1. TypeOK'
    BY <1>1, <1>2, <1>4 DEF TypeOK, Upload, chain, Orders
  <2> QED
    BY <1>2, <2>1 DEF FInv, EditKeepsNumbers, NoEdit
<1>5. CASE Delete
  <2>1. TypeOK'
    BY <1>1, <1>2, <1>5 DEF TypeOK, Delete, money, Orders
  <2> QED
    BY <1>2, <2>1 DEF FInv, EditKeepsNumbers, NoEdit
<1>6. CASE \E e \in {"approved", "rejected"} : Consume(e)
  <2>1. TypeOK'
    BY <1>1, <1>2, <1>6 DEF TypeOK, Consume, money, chain, Orders
  <2> QED
    BY <1>2, <2>1 DEF FInv, EditKeepsNumbers, NoEdit
<1>7. CASE UNCHANGED vars
  <2>1. TypeOK'
    BY <1>1, <1>7 DEF TypeOK, vars, money, chain, Orders
  <2> QED
    BY <1>2, <2>1 DEF FInv, EditKeepsNumbers, NoEdit
<1> QED
  BY <1>3, <1>4, <1>5, <1>6, <1>7

(* Types and registration survive every step, the numbers every step alone. *)
LEMMA StepFInv ==
    ASSUME FInv, [Next]_vars
    PROVE  /\ FInv'
           /\ registered /\ ~setting.overlap => pay' = [pay EXCEPT !.type = pay'.type]
<1>1. pay \in Rows => pay = [pay EXCEPT !.type = pay.type]
  BY DEF Rows
<1>2. pay \in Rows
  BY DEF FInv, TypeOK
<1>3. ASSUME NEW u \in setting.users, NEW t \in Terms, Approve(u, t)
      PROVE  FInv' /\ (registered => pay' = pay)
  BY <1>3, ApproveFInv
<1>4. ASSUME NEW u \in setting.users, Reject(u) PROVE FInv' /\ pay' = pay
  BY <1>4, RejectFInv
<1>5. ASSUME NEW by \in {"requester", "corrector"}, NEW new \in Payload, BeginEdit(by, new)
      PROVE  FInv' /\ pay' = pay
  BY <1>5, BeginEditFInv
<1>6. CASE CommitEdit
  BY <1>6, CommitEditFInv
<1>7. CASE \/ Create \/ (\E u \in setting.users : Upload(u)) \/ Delete
           \/ (\E e \in {"approved", "rejected"} : Consume(e)) \/ UNCHANGED vars
  BY <1>1, <1>2, <1>7, OthersFInv
<1> QED
  BY <1>1, <1>2, <1>3, <1>4, <1>5, <1>6, <1>7 DEF Next

(* Every handler keeps the columns inside their domains.                    *)
THEOREM FinancialTypeOK == Spec => []TypeOK
<1>1. Init => FInv
  BY InitFInv
<1>2. FInv /\ [Next]_vars => FInv'
  BY StepFInv
<1>3. FInv => TypeOK
  BY DEF FInv
<1> QED
  BY <1>1, <1>2, <1>3, PTL DEF Spec

(* Nothing is confirmed in Sepidar that is not registered there, whatever   *)
(* is rejected, corrected or edited in between.                             *)
THEOREM ConfirmedIsRegistered == Spec => [](confirmed => registered)
<1>1. Init => FInv
  BY InitFInv
<1>2. FInv /\ [Next]_vars => FInv'
  BY StepFInv
<1>3. FInv => (confirmed => registered)
  BY DEF FInv
<1> QED
  BY <1>1, <1>2, <1>3, PTL DEF Spec

(* Once registered in Sepidar a row keeps its amount, dates, account and    *)
(* terms, unless an edit overlaps the registration.                         *)
THEOREM FinancialNumbersFrozen == Spec => NumbersFrozen
<1>1. Init => FInv
  BY InitFInv
<1>2. FInv /\ [Next]_vars => FInv'
  BY StepFInv
<1>3. FInv /\ [Next]_vars =>
        [registered /\ ~setting.overlap => pay' = [pay EXCEPT !.type = pay'.type]]_vars
  BY StepFInv
<1> QED
  BY <1>1, <1>2, <1>3, PTL DEF Spec, NumbersFrozen

-----------------------------------------------------------------------------
(* The stages of a request in their order.                                  *)

(* A chain begins with the row, in the steps that are planned.              *)
NotFiled == /\ row = "absent" => inst = "absent" /\ \A o \in Orders : step[o] = "none"
            /\ \A o \in Orders \ Planned : step[o] = "none"

(* An approved chain has nothing left to decide, and says so truly.         *)
ApprovedIsOver == inst = "approved" => AnyApproved /\ Pending = {}
AnnouncedIsSo == "approved" \in announced \/ status = "approved" => inst = "approved"

(* Nothing is approved behind the requester's edit.                         *)
EditIsEarly == edit # NoEdit /\ ~setting.overlap /\ edit.by = "requester" => ~AnyApproved
CorrectorsCorrect == edit # NoEdit /\ edit.by = "corrector" => setting.corrector

(* Without rejections a step waits, or has done what its action is.         *)
StageDone(o) ==
    /\ row # "absent" => step[o] \in {"pending", "approved", "cancelled"}
    /\ step[o] = "cancelled" => inst = "cancelled" /\ Pending = {}
    /\ step[o] = "approved" /\ ActionAt(o) = "mark_payment" => registered
    /\ step[o] = "approved" /\ ActionAt(o) = "confirm_sepidar" => confirmed

StagesDone == Straight => \A o \in Planned : StageDone(o)

(* The finance step collects the terms, and comes before the registration.  *)
Collects(o) == Config(o).by = "finance" /\ step[o] = "approved"
HasTerms == Employee \cup {"payment_order"}
Collected == Calm /\ pay.type \in HasTerms => \A o \in Orders : Collects(o) => Satisfied(pay)
FinanceDone == Calm /\ FinanceFirst /\ registered => \E o \in Orders : Collects(o)

StageInv == /\ NotFiled /\ ApprovedIsOver /\ AnnouncedIsSo /\ EditIsEarly
            /\ CorrectorsCorrect /\ StagesDone /\ Collected /\ FinanceDone

(* A decision takes no account and no terms away, and that of the finance   *)
(* step leaves none to be collected.                                        *)
LEMMA TermsCollected ==
    ASSUME TypeOK, NEW o \in Orders, NEW u, NEW t \in Terms, NEW p \in WithTerms(o, u, t)
    PROVE  /\ p.type = pay.type
           /\ Satisfied(pay) => Satisfied(p)
           /\ Config(o).by = "finance" /\ pay.type \in HasTerms => Satisfied(p)
<1> DEFINE a == IF t.amount THEN pay.amount + 1 ELSE pay.amount
           m == pay.method \/ (pay.type = "payment_order" /\ t.method)
           y == pay.payer \/ (t.payer /\ \/ pay.type = "payment_order"
                                         \/ pay.type \in Employee /\ MustCollect(pay, o))
           s == pay.terms \/ (t.terms /\ pay.type \in Employee /\ MustCollect(pay, o))
           new == [pay EXCEPT !.amount = a, !.method = m, !.payer = y, !.terms = s]
<1>1. /\ p = new
      /\ pay.type = "payment_order" => p.method /\ (Config(o).by = "finance" => p.payer)
      /\ pay.type \in Employee /\ MustCollect(pay, o) => p.payer /\ p.terms
  BY Zenon DEF WithTerms
<1>2. /\ pay.method => m
      /\ pay.payer => y
      /\ pay.terms => s
  BY Zenon
<1>3. /\ pay.method \in BOOLEAN /\ pay.payer \in BOOLEAN /\ pay.terms \in BOOLEAN
      /\ pay.type \in Types
  BY DEF TypeOK, Rows
<1> HIDE DEF a, m, y, s
<1>4. p.type = pay.type /\ p.method = m /\ p.payer = y /\ p.terms = s
  BY <1>1 DEF TypeOK, Rows
<1>5. Satisfied(pay) => Satisfied(p)
  BY <1>2, <1>4 DEF Satisfied, TermsComplete
<1>6. ASSUME Config(o).by = "finance", pay.type \in HasTerms
      PROVE  Satisfied(p)
  <2>1. CASE pay.type = "payment_order"
    BY <1>1, <1>4, <1>6, <2>1 DEF Satisfied, TermsComplete, Employee
  <2>2. CASE pay.type \in Employee /\ MustCollect(pay, o)
    <3>1. p.payer /\ p.terms
      BY <1>1, <2>2
    <3>2. pay.type # "payment_order"
      BY <2>2 DEF Employee
    <3>3. QED
      BY <1>4, <3>1, <3>2 DEF Satisfied, TermsComplete
  <2>3. CASE ~MustCollect(pay, o)
    <3>1. Satisfied(pay)
      BY <1>6, <2>3 DEF MustCollect
    <3>2. QED
      BY <1>5, <3>1
  <2>4. QED
    BY <1>6, <2>1, <2>2, <2>3 DEF HasTerms
<1>7. QED
  BY <1>4, <1>5, <1>6

(* An approval does what its step is for.                                   *)
LEMMA ApproveKeepsStages ==
    ASSUME FInv, StageInv, NEW u \in setting.users, NEW t \in Terms, Approve(u, t)
    PROVE  StageInv'
<1>1. TypeOK /\ Orders \subseteq Nat
  BY OrdersAreNat DEF FInv
<1>2. /\ edit = NoEdit \/ setting.overlap
      /\ UNCHANGED <<row, status, image, who, retreats, edit, setting>>
  BY DEF Approve, MayApprove, Free
<1>3. PICK s \in Lowest(Pending) :
          /\ \E p \in WithTerms(s, u, t) :
                LET done == {s} \cup Skipped(s, u, p)
                IN /\ pay' = p
                   /\ step' = [o \in Orders |-> IF o \in done THEN "approved" ELSE step[o]]
                   /\ IF Pending = done THEN inst' = "approved" /\ Announce("approved")
                                        ELSE UNCHANGED <<inst, announced>>
          /\ Effect(s)
  BY DEF Approve
<1>4. PICK p \in WithTerms(s, u, t) :
                LET done == {s} \cup Skipped(s, u, p)
                IN /\ pay' = p
                   /\ step' = [o \in Orders |-> IF o \in done THEN "approved" ELSE step[o]]
                   /\ IF Pending = done THEN inst' = "approved" /\ Announce("approved")
                                        ELSE UNCHANGED <<inst, announced>>
  BY <1>3
<1> DEFINE done == {s} \cup Skipped(s, u, p)
<1>5. /\ pay' = p
      /\ \A o \in Orders : step'[o] = IF o \in done THEN "approved" ELSE step[o]
      /\ Pending = done => inst' = "approved"
      /\ Pending # done => UNCHANGED <<inst, announced>>
  BY <1>4
<1>6. s \in Orders /\ s \in Pending /\ step[s] = "pending" /\ \A q \in Pending : s <= q
  BY DEF Lowest, Pending
<1>7. done \subseteq Pending /\ \A o \in done : o # s => Skippable(o, u, p)
  <2>1. \A o \in Skipped(s, u, p) : o \in Pending /\ o \in Orders
    BY DEF Skipped, Pending
  <2>2. \A o \in Skipped(s, u, p) : o \in Nat
    BY <1>1, <2>1
  <2>3. \A o \in Skipped(s, u, p) : o <= o
    BY <2>2
  <2>4. \A o \in Skipped(s, u, p) : Skippable(o, u, p)
    BY <2>3 DEF Skipped
  <2>5. QED
    BY <1>6, <2>1, <2>4
<1>8. /\ p.type = pay.type
      /\ Satisfied(pay) => Satisfied(p)
      /\ Config(s).by = "finance" /\ pay.type \in HasTerms => Satisfied(p)
  BY <1>1, <1>6, TermsCollected
<1> HIDE DEF done
<1>9. /\ registered' = (registered \/ ActionAt(s) = "mark_payment")
      /\ confirmed' = (confirmed \/ ActionAt(s) = "confirm_sepidar")
  BY <1>3 DEF Effect
<1>10. inst # "approved" /\ row # "absent" /\ s \in Planned
  BY <1>6 DEF StageInv, ApprovedIsOver, NotFiled, Pending
<1>11. NotFiled'
  <2>1. \A o \in Orders \ Planned : o \notin done
    BY <1>7 DEF StageInv, NotFiled, Pending
  <2>2. QED
    BY <1>2, <1>5, <1>10, <2>1 DEF StageInv, NotFiled, Orders, Planned, Config
<1>12. s \in done
  BY DEF done
<1>13. ApprovedIsOver'
  <2>1. step'[s] = "approved"
    BY <1>5, <1>6, <1>12
  <2>2. ASSUME Pending = done
        PROVE  \A o \in Orders : step'[o] # "pending"
    BY <1>5, <2>2 DEF Pending
  <2>3. QED
    BY <1>2, <1>5, <1>6, <1>10, <2>1, <2>2 DEF ApprovedIsOver, AnyApproved, Pending, Orders
<1>14. AnnouncedIsSo'
  BY <1>2, <1>5 DEF StageInv, AnnouncedIsSo
<1>15. EditIsEarly' /\ CorrectorsCorrect'
  BY <1>2 DEF StageInv, EditIsEarly, CorrectorsCorrect, AnyApproved, NoEdit
<1>16. StagesDone'
  <2>1. ASSUME Straight, NEW o \in Planned
        PROVE  StageDone(o)'
    <3>1. o \in Orders /\ StageDone(o)
      BY <2>1 DEF StageInv, StagesDone, Planned
    <3>2. step[o] # "cancelled"
      BY <1>6, <3>1 DEF StageDone
    <3>3. ActionAt(o)' = ActionAt(o)
      BY <1>2 DEF ActionAt, Config
    <3>4. CASE o \in done
      <4>1. step'[o] = "approved"
        BY <1>5, <3>1, <3>4
      <4>2. o = s \/ ActionAt(o) = "approval"
        BY <1>7, <3>4 DEF Skippable
      <4>3. QED
        BY <1>9, <3>3, <4>1, <4>2 DEF StageDone
    <3>5. CASE o \notin done
      <4>1. step'[o] = step[o]
        BY <1>5, <3>1, <3>5
      <4>2. QED
        BY <1>2, <1>9, <3>1, <3>2, <3>3, <4>1 DEF StageDone
    <3>6. QED
      BY <3>4, <3>5
  <2>2. Planned' = Planned /\ (Straight' <=> Straight)
    BY <1>2 DEF Planned, Straight, Orders, Config
  <2>3. QED
    BY <2>1, <2>2 DEF StagesDone
<1>17. \A o \in Orders : Collects(o) => Collects(o)'
  BY <1>2, <1>5 DEF Collects, Config
<1>18. Collected'
  <2>1. ASSUME Calm, pay.type \in HasTerms, NEW o \in Orders, Collects(o)'
        PROVE  Satisfied(p)
    <3>1. Config(o).by = "finance"
      BY <1>2, <2>1 DEF Collects, Config
    <3>2. CASE o = s
      BY <1>8, <2>1, <3>1, <3>2
    <3>3. CASE o # s /\ o \in done
      <4>1. ~MustCollect(p, o)
        BY <1>7, <2>1, <3>3 DEF Skippable, HasTerms, Employee
      <4>2. QED
        BY <3>1, <4>1 DEF MustCollect
    <3>4. CASE o \notin done
      BY <1>5, <1>8, <2>1, <3>1, <3>4 DEF StageInv, Collected, Collects
    <3>5. QED
      BY <3>2, <3>3, <3>4
  <2>2. Satisfied(pay)' <=> Satisfied(p)
    BY <1>5 DEF Satisfied, TermsComplete
  <2>3. Orders' = Orders /\ (Calm' <=> Calm) /\ pay'.type = pay.type
    BY <1>2, <1>5, <1>8 DEF Orders, Calm, Straight
  <2>4. QED
    BY <2>1, <2>2, <2>3 DEF Collected
<1>19. FinanceDone'
  <2>1. Orders' = Orders /\ (Calm' <=> Calm) /\ (FinanceFirst' <=> FinanceFirst)
    BY <1>2 DEF Orders, Calm, Straight, FinanceFirst, Planned, ActionAt, Config
  <2>2. ASSUME Calm, FinanceFirst, registered'
        PROVE  \E o \in Orders : Collects(o)
    <3>1. CASE registered
      BY <2>2, <3>1 DEF StageInv, FinanceDone
    <3>2. CASE ActionAt(s) = "mark_payment"
      <4>1. PICK o \in Planned : Config(o).by = "finance" /\ o < s
        BY <1>10, <2>2, <3>2 DEF FinanceFirst
      <4>2. o \in Orders /\ o \in Nat /\ s \in Nat
        BY <1>1, <1>6 DEF Planned
      <4>3. o \notin Pending
        BY <1>6, <4>1, <4>2
      <4>4. StageDone(o)
        BY <2>2 DEF StageInv, StagesDone, Calm
      <4>5. step[o] = "approved"
        BY <1>6, <1>10, <4>2, <4>3, <4>4 DEF StageDone, Pending
      <4>6. QED
        BY <4>1, <4>2, <4>5 DEF Collects
    <3>3. QED
      BY <1>9, <2>2, <3>1, <3>2
  <2>3. QED
    BY <1>17, <2>1, <2>2 DEF FinanceDone
<1> QED
  BY <1>11, <1>13, <1>14, <1>15, <1>16, <1>18, <1>19 DEF StageInv

(* A rejection only comes where rejections do, and leaves a step to decide. *)
LEMMA RejectKeepsStages ==
    ASSUME FInv, StageInv, NEW u \in setting.users, Reject(u)
    PROVE  StageInv'
<1>1. TypeOK /\ Orders \subseteq Nat
  BY OrdersAreNat DEF FInv
<1>2. /\ edit = NoEdit \/ setting.overlap
      /\ retreats < setting.retreats
      /\ UNCHANGED <<row, money, who, edit, setting>>
  BY DEF Reject, Free
<1>3. ~Straight
  BY <1>1, <1>2 DEF TypeOK, Straight
<1>4. PICK s \in Lowest(Pending), prev \in SUBSET Orders :
          /\ \A o \in prev : step[o] # "none"
          /\ step' = AfterReject(s, prev)
          /\ \/ inst' = "in_progress" /\ UNCHANGED <<status, announced>>
             \/ /\ inst' = "returned"
                /\ status' = IF pay.type = "financial_document" THEN "rejected" ELSE status
                /\ Announce("rejected")
  <2>1. PICK s \in Lowest(Pending) :
          LET below == {o \in Orders : step[o] # "none" /\ o < s}
              prev == {o \in below : \A q \in below : q <= o}
          IN /\ step' = AfterReject(s, prev)
             /\ IF prev # {} THEN inst' = "in_progress" /\ UNCHANGED <<status, announced>>
                ELSE /\ inst' = "returned"
                     /\ status' = IF pay.type = "financial_document" THEN "rejected" ELSE status
                     /\ Announce("rejected")
    BY DEF Reject
  <2> DEFINE below == {o \in Orders : step[o] # "none" /\ o < s}
             prev == {o \in below : \A q \in below : q <= o}
  <2>2. prev \in SUBSET Orders /\ \A o \in prev : step[o] # "none"
    OBVIOUS
  <2> QED
    BY <2>1, <2>2, Zenon
<1>5. s \in Orders /\ step[s] = "pending"
  BY DEF Lowest, Pending
<1>6. \A o \in Orders : step'[o] # step[o] => step[o] # "none"
  BY <1>4, <1>5 DEF AfterReject
<1>7. inst # "approved" /\ row # "absent"
  BY <1>5 DEF StageInv, ApprovedIsOver, NotFiled, Pending
<1>8. NotFiled'
  BY <1>2, <1>6, <1>7 DEF StageInv, NotFiled, Orders, Planned, Config
<1>9. ApprovedIsOver'
  BY <1>4 DEF ApprovedIsOver
<1>10. AnnouncedIsSo'
  BY <1>4, <1>7 DEF StageInv, AnnouncedIsSo, Announce
<1>11. EditIsEarly' /\ CorrectorsCorrect'
  BY <1>2 DEF StageInv, EditIsEarly, CorrectorsCorrect, NoEdit
<1>12. StagesDone' /\ Collected' /\ FinanceDone'
  BY <1>2, <1>3 DEF StagesDone, Collected, FinanceDone, Calm, Straight
<1> QED
  BY <1>8, <1>9, <1>10, <1>11, <1>12 DEF StageInv

(* The edit of a row leaves its chain alone; a requester's ends before the  *)
(* first approval.                                                          *)
LEMMA EditKeepsStages ==
    ASSUME FInv, StageInv,
           \/ \E by \in {"requester", "corrector"}, new \in Payload : BeginEdit(by, new)
           \/ CommitEdit
    PROVE  StageInv'
<1>1. UNCHANGED <<row, registered, confirmed, image, status, announced, inst, step, who, retreats,
                  setting>>
  BY DEF BeginEdit, CommitEdit, chain, money
<1>2. NotFiled' /\ ApprovedIsOver' /\ AnnouncedIsSo' /\ StagesDone' /\ FinanceDone'
  BY <1>1
     DEF StageInv, NotFiled, ApprovedIsOver, AnnouncedIsSo, StagesDone, StageDone, FinanceDone,
         Orders, Planned, Config, ActionAt, Pending, AnyApproved, Straight, Calm, FinanceFirst,
         Collects
<1>3. Orders' = Orders /\ (Calm' <=> Calm) /\ (AnyApproved' <=> AnyApproved)
      /\ \A o \in Orders : Collects(o)' <=> Collects(o)
  BY <1>1 DEF Orders, Calm, Straight, AnyApproved, Collects, Config
<1>4. ASSUME NEW by \in {"requester", "corrector"}, NEW new \in Payload, BeginEdit(by, new)
      PROVE  EditIsEarly' /\ CorrectorsCorrect' /\ Collected'
  <2>1. /\ edit' = [by |-> by, new |-> new] /\ UNCHANGED pay
        /\ by = "requester" => ~AnyApproved
    BY <1>4 DEF BeginEdit, EditLock, money
  <2>2. EditIsEarly' /\ CorrectorsCorrect'
    BY <1>1, <1>3, <1>4, <2>1 DEF EditIsEarly, CorrectorsCorrect, BeginEdit
  <2>3. Satisfied(pay)' <=> Satisfied(pay)
    BY <2>1 DEF Satisfied, TermsComplete
  <2>4. QED
    BY <1>3, <2>1, <2>2, <2>3 DEF StageInv, Collected
<1>5. CASE CommitEdit
  <2>1. edit # NoEdit /\ edit' = NoEdit
    BY <1>5 DEF CommitEdit
  <2>2. EditIsEarly' /\ CorrectorsCorrect'
    BY <2>1 DEF EditIsEarly, CorrectorsCorrect
  <2>3. edit \in [by : {"requester", "corrector"}, new : Payload]
    BY <2>1 DEF FInv, TypeOK
  <2>4. CASE edit.by = "requester"
    <3>1. Calm => \A o \in Orders : ~Collects(o)
      BY <2>1, <2>4 DEF StageInv, EditIsEarly, AnyApproved, Collects, Calm
    <3>2. Collected'
      BY <1>3, <3>1 DEF Collected
    <3>3. QED
      BY <1>2, <2>2, <3>2 DEF StageInv
  <2>5. CASE edit.by = "corrector"
    <3>1. setting.corrector
      BY <2>1, <2>5 DEF StageInv, CorrectorsCorrect
    <3>2. QED
      BY <1>2, <1>3, <2>2, <3>1 DEF StageInv, Calm, Collected
  <2>6. QED
    BY <2>3, <2>4, <2>5
<1> QED
  BY <1>2, <1>4, <1>5 DEF StageInv

(* The row is filed, deleted, told of its chain, or given an image.         *)
LEMMA OthersKeepStages ==
    ASSUME FInv, StageInv,
           \/ Create \/ (\E u \in setting.users : Upload(u)) \/ Delete
           \/ (\E e \in {"approved", "rejected"} : Consume(e)) \/ UNCHANGED vars
    PROVE  StageInv'
<1>1. UNCHANGED <<pay, registered, confirmed, edit, setting>>
  BY DEF Create, Upload, Delete, Consume, vars, money, chain
<1>2. /\ Orders' = Orders /\ Planned' = Planned /\ (Calm' <=> Calm) /\ (Straight' <=> Straight)
      /\ (FinanceFirst' <=> FinanceFirst) /\ (Satisfied(pay)' <=> Satisfied(pay))
      /\ \A o \in Orders : Config(o)' = Config(o) /\ ActionAt(o)' = ActionAt(o)
  BY <1>1 DEF Orders, Planned, Calm, Straight, FinanceFirst, Satisfied, TermsComplete, Config,
              ActionAt
<1>3. CASE Create
  <2>1. /\ row = "absent" /\ row' = "live" /\ inst' = "pending" /\ UNCHANGED <<status, announced>>
        /\ \A o \in Orders : step'[o] = IF o \in Planned THEN "pending" ELSE "none"
    BY <1>3 DEF Create
  <2>2. \A o \in Orders : step[o] = "none" /\ step'[o] \in {"pending", "none"}
    BY <2>1 DEF StageInv, NotFiled
  <2>3. NotFiled'
    BY <1>2, <2>1 DEF NotFiled
  <2>4. ApprovedIsOver' /\ EditIsEarly'
    BY <1>2, <2>1, <2>2 DEF ApprovedIsOver, EditIsEarly, AnyApproved
  <2>5. AnnouncedIsSo'
    BY <2>1 DEF StageInv, NotFiled, AnnouncedIsSo
  <2>6. StagesDone'
    BY <1>1, <1>2, <2>1, <2>2 DEF StagesDone, StageDone, Planned
  <2>7. Collected' /\ FinanceDone'
    BY <1>1, <1>2, <2>2 DEF StageInv, Collected, FinanceDone, Collects
  <2>8. QED
    BY <1>1, <2>3, <2>4, <2>5, <2>6, <2>7 DEF StageInv, CorrectorsCorrect
<1>4. CASE (\E u \in setting.users : Upload(u)) \/ UNCHANGED vars
  <2>1. UNCHANGED <<row, status, announced, inst, step>>
    BY <1>4 DEF Upload, vars, chain
  <2>2. QED
    BY <1>1, <1>2, <2>1
       DEF StageInv, NotFiled, ApprovedIsOver, AnnouncedIsSo, EditIsEarly, StagesDone, StageDone,
           Collected, FinanceDone, Collects, AnyApproved, Pending, Planned, CorrectorsCorrect
<1>5. CASE \E e \in {"approved", "rejected"} : Consume(e)
  <2>1. PICK e \in announced : /\ announced' \subseteq announced
                               /\ status' = IF row = "live" THEN e ELSE status
                               /\ UNCHANGED <<row, inst, step>>
    BY <1>5 DEF Consume, chain
  <2>2. AnnouncedIsSo'
    BY <2>1 DEF StageInv, AnnouncedIsSo
  <2>3. QED
    BY <1>1, <1>2, <2>1, <2>2
       DEF StageInv, NotFiled, ApprovedIsOver, EditIsEarly, StagesDone, StageDone,
           Collected, FinanceDone, Collects, AnyApproved, Pending, Planned, CorrectorsCorrect
<1>6. CASE Delete
  <2>1. /\ row = "live" /\ row' = "deleted" /\ inst' = "cancelled" /\ ~AnyApproved
        /\ UNCHANGED <<status, announced>>
        /\ \A o \in Orders : step'[o] = IF step[o] = "pending" THEN "cancelled" ELSE step[o]
    BY <1>6 DEF Delete
  <2>2. inst # "approved" /\ \A o \in Orders : step[o] # "approved" /\ step'[o] \notin {"approved", "pending"}
    BY <2>1 DEF StageInv, ApprovedIsOver, AnyApproved
  <2>3. NotFiled'
    BY <1>2, <2>1 DEF StageInv, NotFiled, Planned
  <2>4. ApprovedIsOver' /\ EditIsEarly' /\ AnnouncedIsSo'
    BY <1>2, <2>1, <2>2 DEF StageInv, ApprovedIsOver, EditIsEarly, AnnouncedIsSo, AnyApproved
  <2>5. StagesDone'
    <3>1. ASSUME Straight, NEW o \in Planned PROVE StageDone(o)'
      <4>1. o \in Orders /\ StageDone(o)
        BY <3>1 DEF StageInv, StagesDone, Planned
      <4>2. step'[o] = "cancelled" /\ Pending' = {}
        BY <1>2, <2>1, <2>2, <4>1 DEF StageDone, Pending
      <4>3. QED
        BY <2>1, <4>2 DEF StageDone
    <3>2. QED
      BY <1>2, <3>1 DEF StagesDone
  <2>6. Collected' /\ FinanceDone'
    BY <1>1, <1>2, <2>2 DEF StageInv, Collected, FinanceDone, Collects
  <2>7. QED
    BY <1>1, <2>3, <2>4, <2>5, <2>6 DEF StageInv, CorrectorsCorrect
<1> QED
  BY <1>3, <1>4, <1>5, <1>6

(* Before the request is filed no stage has anything to show.               *)
LEMMA InitStages == Init => StageInv
<1> SUFFICES ASSUME Init PROVE StageInv
  OBVIOUS
<1>1. /\ row = "absent" /\ inst = "absent" /\ status = "pending" /\ announced = {}
      /\ edit = NoEdit /\ registered = FALSE /\ \A o \in Orders : step[o] = "none"
  BY DEF Init
<1>2. NotFiled /\ ApprovedIsOver /\ AnnouncedIsSo /\ EditIsEarly /\ CorrectorsCorrect
  BY <1>1 DEF NotFiled, ApprovedIsOver, AnnouncedIsSo, EditIsEarly, CorrectorsCorrect
<1>3. StagesDone /\ Collected /\ FinanceDone
  BY <1>1 DEF StagesDone, StageDone, Planned, Collected, FinanceDone, Collects
<1> QED
  BY <1>2, <1>3 DEF StageInv

(* No action leaves a stage behind that lacks its evidence.                 *)
LEMMA StepKeepsStages ==
    ASSUME FInv, StageInv, [Next]_vars
    PROVE  StageInv'
<1>1. ASSUME NEW u \in setting.users, NEW t \in Terms, Approve(u, t) PROVE StageInv'
  BY <1>1, ApproveKeepsStages
<1>2. ASSUME NEW u \in setting.users, Reject(u) PROVE StageInv'
  BY <1>2, RejectKeepsStages
<1>3. CASE \/ \E by \in {"requester", "corrector"}, new \in Payload : BeginEdit(by, new)
           \/ CommitEdit
  BY <1>3, EditKeepsStages
<1>4. CASE \/ Create \/ (\E u \in setting.users : Upload(u)) \/ Delete
           \/ (\E e \in {"approved", "rejected"} : Consume(e)) \/ UNCHANGED vars
  BY <1>4, OthersKeepStages
<1> QED
  BY <1>1, <1>2, <1>3, <1>4 DEF Next

(* The stages of a request come in their order, each with what it needs, in *)
(* whatever chain an administrator defines.                                 *)
THEOREM FinancialStagesInOrder == Spec => []StagesInOrder
<1>1. Init => FInv /\ StageInv
  BY InitFInv, InitStages
<1>2. FInv /\ StageInv /\ [Next]_vars => (FInv /\ StageInv)'
  BY StepFInv, StepKeepsStages
<1>3. ASSUME FInv, StageInv
      PROVE  StagesInOrder
  <2>1. status = "approved" => inst = "approved"
    BY <1>3 DEF StageInv, AnnouncedIsSo
  <2>2. ASSUME Straight, inst = "approved", NEW o \in Planned
        PROVE  /\ ActionAt(o) = "mark_payment" => registered
               /\ ActionAt(o) = "confirm_sepidar" => confirmed
    <3>1. o \in Orders /\ StageDone(o)
      BY <1>3, <2>2 DEF StageInv, StagesDone, Planned
    <3>2. step[o] = "approved"
      BY <1>3, <2>2, <3>1 DEF StageInv, StageDone, ApprovedIsOver, NotFiled, Pending
    <3>3. QED
      BY <3>1, <3>2 DEF StageDone
  <2>3. ASSUME Calm, FinanceFirst, registered, pay.type \in HasTerms
        PROVE  Satisfied(pay)
    BY <1>3, <2>3 DEF StageInv, Collected, FinanceDone
  <2>4. confirmed => registered
    BY <1>3 DEF FInv
  <2>5. QED
    BY <1>3, <2>1, <2>2, <2>3, <2>4 DEF FInv, StagesInOrder, Has, HasTerms
<1> QED
  BY <1>1, <1>2, <1>3, PTL DEF Spec

(* After the first approval the row changes only by the decision of a step  *)
(* or the hand of a corrector.                                              *)
THEOREM FinancialChangedByThoseAsked == Spec => ChangedByThoseAsked
<1>1. Init => FInv /\ StageInv
  BY InitFInv, InitStages
<1>2. FInv /\ StageInv /\ [Next]_vars => (FInv /\ StageInv)'
  BY StepFInv, StepKeepsStages
<1>3. ASSUME FInv, StageInv, [Next]_vars
      PROVE  [AnyApproved /\ pay' # pay /\ ~setting.overlap =>
                step' # step \/ edit.by = "corrector"]_vars
  <2>1. ASSUME NEW u \in setting.users, NEW t \in Terms, Approve(u, t)
        PROVE  step' # step
    <3>1. PICK s \in Lowest(Pending) :
            \E done : s \in done /\ step' = [o \in Orders |-> IF o \in done THEN "approved"
                                                                         ELSE step[o]]
      BY <2>1 DEF Approve
    <3>2. s \in Orders /\ step[s] = "pending"
      BY DEF Lowest, Pending
    <3>3. step'[s] = "approved"
      BY <3>1, <3>2
    <3>4. QED
      BY <3>2, <3>3
  <2>2. ASSUME NEW u \in setting.users, Reject(u) PROVE UNCHANGED pay
    BY <1>3, <2>2, RejectFInv
  <2>3. ASSUME NEW by \in {"requester", "corrector"}, NEW new \in Payload, BeginEdit(by, new)
        PROVE  UNCHANGED pay
    BY <1>3, <2>3, BeginEditFInv
  <2>4. CASE CommitEdit
    <3>1. edit \in [by : {"requester", "corrector"}, new : Payload]
      BY <1>3, <2>4 DEF FInv, TypeOK, CommitEdit
    <3>2. AnyApproved /\ ~setting.overlap => edit.by = "corrector"
      BY <1>3, <2>4, <3>1 DEF StageInv, EditIsEarly, CommitEdit
    <3>3. QED
      BY <3>2
  <2>5. CASE \/ Create \/ (\E u \in setting.users : Upload(u)) \/ Delete
             \/ (\E e \in {"approved", "rejected"} : Consume(e)) \/ UNCHANGED vars
    BY <1>3, <2>5, OthersFInv
  <2>6. QED
    BY <1>3, <2>1, <2>2, <2>3, <2>4, <2>5 DEF Next
<1> QED
  BY <1>1, <1>2, <1>3, PTL DEF Spec, ChangedByThoseAsked

(* The numbers stay once they are in Sepidar, and after the first approval  *)
(* the row changes only by those who are asked.                             *)
THEOREM FinancialLocksHold == Spec => LocksHold
  BY FinancialNumbersFrozen, FinancialChangedByThoseAsked, PTL DEF LocksHold

-----------------------------------------------------------------------------
(* Nobody is asked for what he cannot give.                                 *)

(* The registration was a step of the chain.                                *)
RegisteredByStep ==
    Straight /\ registered =>
        \E o \in Planned : ActionAt(o) = "mark_payment" /\ step[o] = "approved"

(* The steps that wait come after those that are approved.                  *)
ApprovedFirst ==
    Straight => \A o, q \in Orders : step[o] = "approved" /\ step[q] = "pending" => o < q

(* The first approval of a payment order tells how it is paid.              *)
MethodTold == Calm /\ pay.type = "payment_order" /\ AnyApproved => pay.method

(* A document is none of the requests that are edited.                      *)
DocumentsStay ==
    setting.type = "financial_document" => pay.type = "financial_document" /\ edit = NoEdit

AbleInv == RegisteredByStep /\ ApprovedFirst /\ MethodTold /\ DocumentsStay

(* A decision leaves the kind of the row, and asks how an order is paid.    *)
LEMMA MethodOfTerms ==
    ASSUME TypeOK, NEW o \in Orders, NEW u, NEW t \in Terms, NEW p \in WithTerms(o, u, t)
    PROVE  p.type = pay.type /\ (p.type = "payment_order" => p.method)
<1>1. p.type = pay.type
  BY TermsCollected
<1>2. pay.type = "payment_order" => p.method
  BY Zenon DEF WithTerms
<1> QED
  BY <1>1, <1>2

(* An approval takes the steps in their order and the terms with them.      *)
LEMMA ApproveKeepsAble ==
    ASSUME FInv, StageInv, AbleInv, NEW u \in setting.users, NEW t \in Terms, Approve(u, t)
    PROVE  AbleInv'
<1>1. TypeOK /\ Orders \subseteq Nat
  BY OrdersAreNat DEF FInv
<1>2. UNCHANGED <<retreats, edit, setting>>
  BY DEF Approve
<1>3. PICK s \in Lowest(Pending) :
          /\ \E p \in WithTerms(s, u, t) :
                LET done == {s} \cup Skipped(s, u, p)
                IN /\ pay' = p
                   /\ step' = [o \in Orders |-> IF o \in done THEN "approved" ELSE step[o]]
          /\ Effect(s)
  BY DEF Approve
<1>4. PICK p \in WithTerms(s, u, t) :
                LET done == {s} \cup Skipped(s, u, p)
                IN /\ pay' = p
                   /\ step' = [o \in Orders |-> IF o \in done THEN "approved" ELSE step[o]]
  BY <1>3
<1> DEFINE done == {s} \cup Skipped(s, u, p)
<1>5. pay' = p /\ \A o \in Orders : step'[o] = IF o \in done THEN "approved" ELSE step[o]
  BY <1>4
<1>6. s \in Orders /\ s \in Pending /\ step[s] = "pending" /\ \A q \in Pending : s <= q
  BY DEF Lowest, Pending
<1>7. p.type = pay.type /\ (p.type = "payment_order" => p.method)
  BY <1>1, <1>6, MethodOfTerms
<1>8. \A o \in done, q \in Pending \ done : o < q
  <2> SUFFICES ASSUME NEW o \in done, NEW q \in Pending \ done
               PROVE  o < q
    OBVIOUS
  <2>1. q \in Nat /\ s \in Nat /\ q # s /\ s <= q /\ q \notin Skipped(s, u, p)
    BY <1>1, <1>6 DEF Pending
  <2>2. CASE o = s
    BY <2>1, <2>2
  <2>3. CASE o \in Skipped(s, u, p)
    <3>1. o \in Nat /\ \A r \in Pending \ {s} : r <= o => Skippable(r, u, p)
      BY <1>1, <2>3 DEF Skipped, Pending
    <3>2. PICK r \in Pending \ {s} : r <= q /\ ~Skippable(r, u, p)
      BY <2>1 DEF Skipped
    <3>3. r \in Nat /\ ~(r <= o)
      BY <1>1, <3>1, <3>2 DEF Pending
    <3> QED
      BY <2>1, <3>1, <3>2, <3>3
  <2> QED
    BY <2>2, <2>3
<1>9. s \in done
  OBVIOUS
<1> HIDE DEF done
<1>10. /\ Orders' = Orders /\ Planned' = Planned
       /\ (Straight' <=> Straight) /\ (Calm' <=> Calm)
       /\ \A o \in Orders : ActionAt(o)' = ActionAt(o)
  BY <1>2 DEF Orders, Planned, Straight, Calm, ActionAt, Config
<1>11. RegisteredByStep'
  <2>1. s \in Planned
    BY <1>6 DEF StageInv, NotFiled
  <2>2. step'[s] = "approved"
    BY <1>5, <1>6, <1>9
  <2>3. \A o \in Planned : o \in Orders /\ (step[o] = "approved" => step'[o] = "approved")
    BY <1>5 DEF Planned
  <2>4. registered' => registered \/ ActionAt(s) = "mark_payment"
    BY <1>3 DEF Effect
  <2> QED
    BY <1>10, <2>1, <2>2, <2>3, <2>4 DEF AbleInv, RegisteredByStep
<1>12. ApprovedFirst'
  <2> SUFFICES ASSUME Straight, NEW o \in Orders, NEW q \in Orders,
                      step'[o] = "approved", step'[q] = "pending"
               PROVE  o < q
    BY <1>10 DEF ApprovedFirst
  <2>1. q \notin done /\ step[q] = "pending"
    BY <1>5
  <2>2. CASE o \in done
    BY <1>8, <2>1, <2>2 DEF Pending
  <2>3. CASE o \notin done
    BY <1>5, <2>1, <2>3 DEF AbleInv, ApprovedFirst
  <2> QED
    BY <2>2, <2>3
<1>13. MethodTold' /\ DocumentsStay'
  BY <1>2, <1>5, <1>7 DEF AbleInv, MethodTold, DocumentsStay, NoEdit
<1> QED
  BY <1>11, <1>12, <1>13 DEF AbleInv

(* Nothing else approves, registers or, after an approval, edits.           *)
LEMMA OthersKeepAble ==
    ASSUME FInv, StageInv, AbleInv, [Next]_vars,
           ~\E u \in setting.users, t \in Terms : Approve(u, t)
    PROVE  AbleInv'
<1>1. TypeOK /\ Orders \subseteq Nat
  BY OrdersAreNat DEF FInv
<1>2. UNCHANGED <<registered, setting>>
  BY DEF Next, Create, Reject, Upload, Consume, BeginEdit, CommitEdit, Delete, vars, money
<1>3. /\ Orders' = Orders /\ Planned' = Planned
      /\ \A o \in Orders : ActionAt(o)' = ActionAt(o)
  BY <1>2 DEF Orders, Planned, ActionAt, Config
<1>4. CASE \E u \in setting.users : Reject(u)
  <2>1. PICK u \in setting.users : Reject(u)
    BY <1>4
  <2>2. retreats < setting.retreats /\ UNCHANGED <<pay, edit, setting>>
    BY <2>1 DEF Reject, money
  <2>3. ~Straight
    BY <1>1, <2>2 DEF TypeOK, Straight
  <2>4. ~Straight'
    BY <2>2, <2>3 DEF Straight
  <2> QED
    BY <2>2, <2>4
       DEF AbleInv, RegisteredByStep, ApprovedFirst, MethodTold, DocumentsStay, Calm, NoEdit
<1>5. CASE Create
  <2>1. /\ row = "absent" /\ UNCHANGED <<pay, edit>>
        /\ \A o \in Orders : step'[o] \in {"pending", "none"} /\ step[o] = "none"
    BY <1>5 DEF Create, StageInv, NotFiled, money
  <2>2. ~registered \/ ~Straight
    BY <2>1 DEF AbleInv, RegisteredByStep, Planned
  <2> QED
    BY <1>2, <1>3, <2>1, <2>2
       DEF AbleInv, RegisteredByStep, ApprovedFirst, MethodTold, DocumentsStay, AnyApproved,
           Straight, NoEdit
<1>6. CASE Delete
  <2>1. /\ UNCHANGED <<pay, edit>>
        /\ ~AnyApproved
        /\ \A o \in Orders : step'[o] = IF step[o] = "pending" THEN "cancelled" ELSE step[o]
    BY <1>6 DEF Delete, money
  <2>2. \A o \in Orders : step[o] # "approved" /\ step'[o] # "approved"
    BY <2>1 DEF AnyApproved
  <2>3. ~registered \/ ~Straight
    BY <2>2 DEF AbleInv, RegisteredByStep, Planned
  <2> QED
    BY <1>2, <1>3, <2>1, <2>2, <2>3
       DEF AbleInv, RegisteredByStep, ApprovedFirst, MethodTold, DocumentsStay, AnyApproved,
           Straight, NoEdit
<1>7. ASSUME UNCHANGED step
      PROVE  /\ RegisteredByStep' /\ ApprovedFirst'
             /\ (AnyApproved' <=> AnyApproved) /\ (Calm' <=> Calm)
  BY <1>2, <1>3, <1>7
     DEF AbleInv, RegisteredByStep, ApprovedFirst, AnyApproved, Straight, Calm, Planned
<1>8. CASE \E by \in {"requester", "corrector"}, new \in Payload : BeginEdit(by, new)
  <2>1. UNCHANGED <<pay, step>> /\ pay.type # "financial_document"
    BY <1>8 DEF BeginEdit, money, chain
  <2>2. setting.type # "financial_document"
    BY <2>1 DEF AbleInv, DocumentsStay
  <2> QED
    BY <1>2, <1>7, <2>1, <2>2 DEF AbleInv, MethodTold, DocumentsStay
<1>9. CASE CommitEdit
  <2>1. /\ edit # NoEdit /\ UNCHANGED step
        /\ edit \in [by : {"requester", "corrector"}, new : Payload]
    BY <1>1, <1>9 DEF CommitEdit, TypeOK, chain
  <2>2. setting.type # "financial_document"
    BY <2>1 DEF AbleInv, DocumentsStay
  <2>3. ~(Calm /\ AnyApproved)
    BY <2>1 DEF StageInv, EditIsEarly, CorrectorsCorrect, Calm
  <2> QED
    BY <1>2, <1>7, <2>1, <2>2, <2>3 DEF AbleInv, MethodTold, DocumentsStay
<1>10. CASE \/ (\E u \in setting.users : Upload(u)) \/ UNCHANGED vars
            \/ (\E e \in {"approved", "rejected"} : Consume(e))
  <2>1. UNCHANGED <<pay, step, edit>>
    BY <1>10 DEF Upload, Consume, vars, money, chain
  <2> QED
    BY <1>2, <1>7, <2>1 DEF AbleInv, MethodTold, DocumentsStay, NoEdit
<1> QED
  BY <1>4, <1>5, <1>6, <1>8, <1>9, <1>10 DEF Next

(* Where a step waits, the steps before it are done.                        *)
LEMMA DoneBefore ==
    ASSUME FInv, StageInv, Straight, Active, NEW s \in Lowest(Pending),
           NEW q \in Planned, q < s
    PROVE  step[q] = "approved"
<1>1. Orders \subseteq Nat
  BY OrdersAreNat DEF FInv
<1>2. q \in Orders /\ s \in Orders /\ step[s] = "pending" /\ \A r \in Pending : s <= r
  BY DEF Planned, Lowest, Pending
<1>3. q \notin Pending
  BY <1>1, <1>2
<1>4. row # "absent" /\ inst # "cancelled"
  BY DEF StageInv, NotFiled, Active
<1>5. StageDone(q)
  BY DEF StageInv, StagesDone
<1> QED
  BY <1>2, <1>3, <1>4, <1>5 DEF StageDone, Pending

(* What an approver sends who leaves the row as it is, and who fills in     *)
(* what a payment needs.                                                    *)
Nothing == [amount |-> FALSE, payer |-> FALSE, method |-> FALSE, terms |-> FALSE]
Everything == [amount |-> FALSE, payer |-> TRUE, method |-> TRUE, terms |-> TRUE]

(* Both are terms that may be sent.                                         *)
LEMMA TermsExist == Nothing \in Terms /\ Everything \in Terms
  BY DEF Nothing, Everything, Terms

(* Whoever has nothing to collect may approve with nothing to say.          *)
LEMMA NothingIsEnough ==
    ASSUME TypeOK, NEW s \in Orders, NEW u,
           pay.type \in Employee => ~MustCollect(pay, s),
           pay.type = "payment_order" => pay.method /\ Config(s).by # "finance"
    PROVE  WithTerms(s, u, Nothing) # {}
<1> DEFINE t == Nothing
           collect == MustCollect(pay, s)
           new == [pay EXCEPT
                  !.amount = IF t.amount THEN @ + 1 ELSE @,
                  !.method = @ \/ (pay.type = "payment_order" /\ t.method),
                  !.payer  = @ \/ (t.payer /\ \/ pay.type = "payment_order"
                                              \/ pay.type \in Employee /\ collect),
                  !.terms  = @ \/ (t.terms /\ pay.type \in Employee /\ collect)]
<1>1. pay \in Rows /\ MaxAmount \in Nat
  BY FinancialAssumption DEF TypeOK
<1>2. ~t.amount /\ ~t.payer /\ ~t.method /\ ~t.terms /\ ~Touches(t)
  BY DEF Nothing, Touches
<1>3. new.amount = pay.amount /\ new.method = pay.method
  BY <1>1, <1>2 DEF Rows
<1>4. new.amount <= MaxAmount
  BY <1>1, <1>3 DEF Rows
<1>5. new \in WithTerms(s, u, t)
  <2> HIDE DEF t
  <2> QED
    BY <1>2, <1>3, <1>4, Zenon DEF WithTerms
<1> QED
  BY <1>5

(* Whoever may change the numbers may approve with all that is asked for,   *)
(* unless they are his own.                                                 *)
LEMMA EverythingIsEnough ==
    ASSUME TypeOK, NEW s \in Orders, NEW u, MayMutate(s),
           ~pay.terms /\ pay.type \in Employee => u # Requester
    PROVE  WithTerms(s, u, Everything) # {}
<1> DEFINE t == Everything
           collect == MustCollect(pay, s)
           new == [pay EXCEPT
                  !.amount = IF t.amount THEN @ + 1 ELSE @,
                  !.method = @ \/ (pay.type = "payment_order" /\ t.method),
                  !.payer  = @ \/ (t.payer /\ \/ pay.type = "payment_order"
                                              \/ pay.type \in Employee /\ collect),
                  !.terms  = @ \/ (t.terms /\ pay.type \in Employee /\ collect)]
<1>1. pay \in Rows /\ MaxAmount \in Nat
  BY FinancialAssumption DEF TypeOK
<1>2. ~t.amount /\ t.payer /\ t.method /\ t.terms
  BY DEF Everything
<1>3. new.amount = pay.amount
  BY <1>1, <1>2 DEF Rows
<1>4. new.amount <= MaxAmount
  BY <1>1, <1>3 DEF Rows
<1>5. pay.type = "payment_order" => new.method /\ new.payer
  BY <1>1, <1>2 DEF Rows
<1>6. pay.type \in Employee /\ collect => new.payer /\ new.terms
  BY <1>1, <1>2 DEF Rows
<1>7. new \in WithTerms(s, u, t)
  <2> HIDE DEF t
  <2> QED
    BY <1>4, <1>5, <1>6, Zenon DEF WithTerms
<1> QED
  BY <1>7

(* Whoever a calm and orderly chain waits for can approve his step, but for *)
(* the requester's own terms and the image of a document.                   *)
THEOREM FinancialNobodyIsStuck == Spec => []NobodyIsStuck
<1> DEFINE I == FInv /\ StageInv /\ AbleInv
<1>1. Init => I
  <2>1. Init => AbleInv
    BY DEF Init, AbleInv, RegisteredByStep, ApprovedFirst, MethodTold, DocumentsStay, AnyApproved
  <2> QED
    BY <2>1, InitFInv, InitStages
<1>2. I /\ [Next]_vars => I'
  BY StepFInv, StepKeepsStages, ApproveKeepsAble, OthersKeepAble
<1>3. I => NobodyIsStuck
  <2> SUFFICES ASSUME FInv, StageInv, AbleInv, Calm, Orderly, Active, edit = NoEdit,
                      NEW s \in Lowest(Pending),
                      ~(/\ pay.type \in Employee /\ ~pay.terms /\ MustCollect(pay, s)
                        /\ who[s] = Requester),
                      ~(pay.type = "financial_document" /\ ActionAt(s) = "mark_payment")
               PROVE  \E t \in Terms : MayApprove(who[s], t)
    BY DEF NobodyIsStuck
  <2>1. TypeOK /\ Straight /\ Free /\ Orders \subseteq Nat
    BY OrdersAreNat DEF FInv, Calm, Free
  <2>2. s \in Orders /\ s \in Planned /\ step[s] = "pending"
    BY DEF StageInv, NotFiled, Lowest, Pending
  <2> DEFINE before == {q \in Planned : q < s}
  <2>3. \A q \in before : q \in Orders /\ step[q] = "approved"
    BY <2>1, DoneBefore DEF Planned
  <2>4. /\ ActionAt(s) = "confirm_sepidar" => \E q \in before : ActionAt(q) = "mark_payment"
        /\ setting.type # "financial_document" =>
              /\ ActionAt(s) # "approval" => before # {}
              /\ Config(s).by = "finance" =>
                    /\ ActionAt(s) = "approval"
                    /\ \A q \in before : ActionAt(q) # "mark_payment"
    BY <2>2 DEF Orderly
  <2> HIDE DEF before
  <2>5. ActionAt(s) = "confirm_sepidar" => registered
    BY <2>1, <2>3, <2>4 DEF before, StageInv, StagesDone, StageDone
  <2>6. ActionAt(s) = "mark_payment" => MayRegister
    BY DEF MayRegister
  <2>7. before # {} => AnyApproved
    BY <2>3 DEF AnyApproved
  <2>8. registered => AnyApproved /\ \E q \in before : ActionAt(q) = "mark_payment"
    <3> SUFFICES ASSUME registered
                 PROVE  AnyApproved /\ \E q \in before : ActionAt(q) = "mark_payment"
      OBVIOUS
    <3>1. PICK q \in Planned : ActionAt(q) = "mark_payment" /\ step[q] = "approved"
      BY <2>1 DEF AbleInv, RegisteredByStep
    <3>2. q \in Orders /\ q < s
      BY <2>1, <2>2, <3>1 DEF AbleInv, ApprovedFirst, Planned
    <3> QED
      BY <3>1, <3>2 DEF before, AnyApproved
  <2>9. ASSUME NEW t \in Terms, WithTerms(s, who[s], t) # {}
        PROVE  \E e \in Terms : MayApprove(who[s], e)
    BY <2>1, <2>5, <2>6, <2>9 DEF MayApprove
  <2>10. CASE pay.type = "financial_document"
    <3>1. WithTerms(s, who[s], Nothing) # {}
      BY <2>1, <2>2, <2>10, NothingIsEnough DEF Employee
    <3> QED
      BY <2>9, <3>1, TermsExist
  <2>11. CASE pay.type # "financial_document" /\ MayMutate(s)
                /\ (~pay.terms /\ pay.type \in Employee => who[s] # Requester)
    <3>1. WithTerms(s, who[s], Everything) # {}
      BY <2>1, <2>2, <2>11, EverythingIsEnough
    <3> QED
      BY <2>9, <3>1, TermsExist
  <2>12. CASE pay.type # "financial_document" /\ MayMutate(s)
                /\ ~pay.terms /\ pay.type \in Employee /\ who[s] = Requester
    <3>1. WithTerms(s, who[s], Nothing) # {}
      BY <2>1, <2>2, <2>12, NothingIsEnough DEF Employee
    <3> QED
      BY <2>9, <3>1, TermsExist
  <2>13. CASE pay.type # "financial_document" /\ ~MayMutate(s)
    <3>1. setting.type # "financial_document"
      BY <2>13 DEF AbleInv, DocumentsStay
    <3>2. Config(s).by # "finance" /\ AnyApproved
      BY <2>4, <2>7, <2>8, <2>13, <3>1 DEF MayMutate
    <3>3. pay.type = "payment_order" => pay.method
      BY <3>2 DEF AbleInv, MethodTold
    <3>4. WithTerms(s, who[s], Nothing) # {}
      BY <2>1, <2>2, <3>2, <3>3, NothingIsEnough DEF MustCollect
    <3> QED
      BY <2>9, <3>4, TermsExist
  <2> QED
    BY <2>10, <2>11, <2>12, <2>13
<1> QED
  BY <1>1, <1>2, <1>3, PTL DEF Spec
=============================================================================
