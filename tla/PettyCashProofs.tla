-------------------------- MODULE PettyCashProofs --------------------------
(***************************************************************************)
(* Proofs about PettyCash for every number of rows, steps, instances,       *)
(* expense lists and concurrent requests, and in all surroundings.          *)
(***************************************************************************)
EXTENDS PettyCash, TLAPS

-----------------------------------------------------------------------------
(* The chains.                                                              *)

(* An approved instance has a step that stands approved, which is what      *)
(* keeps its row from being deleted.                                        *)
ChainsOK ==
    /\ outcome \in [Runs -> Chain!Outcomes]
    /\ todo \in [Runs -> SUBSET Steps] /\ passed \in [Runs -> SUBSET Steps]
    /\ \A x \in Runs : outcome[x] = "approved" => passed[x] # {}

(* What the handlers do to the chains, a step at most.                      *)
ChainMoves ==
    \/ \E x \in Runs : Chain!Open(x, 1..setting.steps) \/ Chain!Advance(x) \/ Chain!SendBack(x)
    \/ \E R \in SUBSET Runs : Chain!Cancel(R)
    \/ UNCHANGED chains

(* The workflow and the rows of a setting are among those of the model.     *)
LEMMA SettingFacts ==
    ASSUME setting \in Settings
    PROVE  /\ setting \in Setting /\ 1..setting.steps \subseteq Steps
           /\ 1..setting.rows \subseteq Reqs
  <1>1. setting \in Setting
    BY PettyCashAssumption
  <1>2. setting.steps \in Steps /\ setting.rows \in 0..MaxReq
    BY <1>1 DEF Setting
  <1>3. QED
    BY <1>1, <1>2, PettyCashAssumption DEF Steps, Reqs

(* The chains keep their types, and an approved instance stays approved.    *)
LEMMA ChainsKept ==
    ASSUME ChainsOK, setting \in Settings, ChainMoves
    PROVE  ChainsOK' /\ \A x \in Runs : outcome[x] = "approved" => outcome'[x] = "approved"
  <1>1. 1..setting.steps \in SUBSET Steps
    BY SettingFacts
  <1>2. ASSUME NEW x \in Runs, Chain!Open(x, 1..setting.steps)
        PROVE  ChainsOK' /\ \A y \in Runs : outcome[y] = "approved" => outcome'[y] = "approved"
    BY <1>1, <1>2 DEF Chain!Open, ChainsOK, Chain!Outcomes
  <1>3. ASSUME NEW x \in Runs, Chain!Advance(x)
        PROVE  ChainsOK' /\ \A y \in Runs : outcome[y] = "approved" => outcome'[y] = "approved"
    <2>1. PICK done \in SUBSET todo[x] :
            /\ done # {}
            /\ outcome' = IF todo[x] = done THEN [outcome EXCEPT ![x] = "approved"] ELSE outcome
            /\ todo' = [todo EXCEPT ![x] = @ \ done]
            /\ passed' = [passed EXCEPT ![x] = @ \cup done]
      BY <1>3 DEF Chain!Advance
    <2>2. done \in SUBSET Steps /\ todo[x] \ done \in SUBSET Steps
          /\ passed[x] \cup done \in SUBSET Steps /\ passed[x] \cup done # {}
      BY <2>1 DEF ChainsOK
    <2>3. outcome' \in [Runs -> Chain!Outcomes]
      BY <2>1 DEF ChainsOK, Chain!Outcomes
    <2>4. todo' \in [Runs -> SUBSET Steps] /\ passed' \in [Runs -> SUBSET Steps]
      BY <2>1, <2>2 DEF ChainsOK
    <2>5. \A y \in Runs : outcome[y] = "approved" => outcome'[y] = "approved"
      BY <2>1 DEF ChainsOK
    <2>6. \A y \in Runs : outcome'[y] = "approved" => passed'[y] # {}
      BY <2>1, <2>2 DEF ChainsOK
    <2>7. QED
      BY <2>3, <2>4, <2>5, <2>6 DEF ChainsOK
  <1>4. ASSUME NEW x \in Runs, Chain!SendBack(x)
        PROVE  ChainsOK' /\ \A y \in Runs : outcome[y] = "approved" => outcome'[y] = "approved"
    <2>1. PICK s \in todo[x] :
            /\ outcome' = [outcome EXCEPT ![x] = IF Chain!Before(x, s) = {} THEN "returned" ELSE "open"]
            /\ todo' = [todo EXCEPT ![x] = (@ \ {s}) \cup Chain!Before(x, s)]
            /\ passed' = [passed EXCEPT ![x] = @ \ Chain!Before(x, s)]
      BY <1>4 DEF Chain!SendBack
    <2>2. outcome[x] \in {"open", "returned"}
      BY <1>4 DEF Chain!SendBack
    <2>3. Chain!Before(x, s) \subseteq Steps
      BY <1>1 DEF Chain!Before
    <2> DEFINE before == Chain!Before(x, s)
    <2>4. /\ (todo[x] \ {s}) \cup before \in SUBSET Steps
          /\ passed[x] \ before \in SUBSET Steps
      BY <2>3 DEF ChainsOK
    <2> HIDE DEF before
    <2>5. outcome' \in [Runs -> Chain!Outcomes]
      BY <2>1 DEF ChainsOK, Chain!Outcomes
    <2>6. todo' \in [Runs -> SUBSET Steps] /\ passed' \in [Runs -> SUBSET Steps]
      BY <2>1, <2>4 DEF ChainsOK, before
    <2>7. \A y \in Runs : outcome[y] = "approved" => outcome'[y] = "approved"
      BY <2>1, <2>2 DEF ChainsOK
    <2>8. \A y \in Runs : outcome'[y] = "approved" => passed'[y] # {}
      BY <2>1, <2>2 DEF ChainsOK
    <2>9. QED
      BY <2>5, <2>6, <2>7, <2>8 DEF ChainsOK
  <1>5. ASSUME NEW R \in SUBSET Runs, Chain!Cancel(R)
        PROVE  ChainsOK' /\ \A y \in Runs : outcome[y] = "approved" => outcome'[y] = "approved"
    BY <1>5 DEF Chain!Cancel, ChainsOK, Chain!Outcomes
  <1>6. CASE UNCHANGED chains
    BY <1>6 DEF chains, ChainsOK
  <1>7. QED
    BY <1>2, <1>3, <1>4, <1>5, <1>6 DEF ChainMoves

(* A workflow.start opens a chain or finds one open.                        *)
LEMMA StartMovesChains ==
    ASSUME NEW r, NEW kind, Start(r, kind)
    PROVE  ChainMoves
  BY DEF Start, ChainMoves, RunsOf

(* Every action moves the chains by one step of the lifecycle at most, and  *)
(* none changes the surroundings.                                           *)
LEMMA NextMovesChains ==
    ASSUME queue \subseteq Messages, [Next]_vars
    PROVE  ChainMoves /\ UNCHANGED setting
  <1>1. ASSUME NEW x \in Runs, Approve(x) \/ Reject(x)
        PROVE  ChainMoves /\ UNCHANGED setting
    BY <1>1 DEF Approve, Reject, ChainMoves
  <1>2. ASSUME NEW m \in queue, Consume(m)
        PROVE  ChainMoves /\ UNCHANGED setting
    <2>1. UNCHANGED chains \/ Start(m.row, m.kind)
      BY <1>2 DEF Consume, Messages
    <2>2. QED
      BY <1>2, <2>1, StartMovesChains DEF Consume, ChainMoves
  <1>3. ASSUME NEW h \in Sessions, Handler(h)
        PROVE  ChainMoves /\ UNCHANGED setting
    BY <1>3, StartMovesChains
       DEF Handler, BeginCreate, CommitCreate, StartCreated, BeginFiling, CommitLines,
           CheckReady, StartSettlement, Crash, ChainMoves
  <1>4. ASSUME NEW r \in Reqs, Delete(r)
        PROVE  ChainMoves /\ UNCHANGED setting
    BY <1>4 DEF Delete, ChainMoves
  <1>5. CASE Restaff
    BY <1>5 DEF Restaff, ChainMoves
  <1>6. CASE UNCHANGED vars
    BY <1>6 DEF vars, ChainMoves
  <1>7. QED
    BY <1>1, <1>2, <1>3, <1>4, <1>5, <1>6 DEF Next

-----------------------------------------------------------------------------
(* Types.                                                                   *)

(* Publishing a message keeps the queue a set of messages.                  *)
LEMMA PublishType ==
    ASSUME queue \subseteq Messages, NEW m \in Messages, Publish(m)
    PROVE  queue' \subseteq Messages
  BY DEF Publish

(* What the handlers publish are messages.                                  *)
LEMMA MessageTypes ==
    /\ \A r \in Reqs, kind \in Kinds :
          [event |-> "workflow.start", row |-> r, kind |-> kind] \in Messages
    /\ \A x \in Runs, event \in {"workflow.approved", "workflow.rejected"} :
          [event |-> event, run |-> x] \in Messages
  BY DEF Messages

(* What a row hears leaves its two columns inside their domains.            *)
LEMMA RowHearsType ==
    ASSUME TypeOK, NEW x \in Runs, NEW verdict, RowHears(x, verdict)
    PROVE  /\ status' \in [Reqs -> {"absent", "PENDING", "APPROVED", "REJECTED", "deleted"}]
           /\ settlement' \in [Reqs -> {"NONE", "PENDING", "PENDING_APPROVAL", "SETTLED"}]
  BY DEF RowHears, StatusOn, SettlementOn, TypeOK

(* Every handler keeps the columns inside their domains.                    *)
THEOREM PettyCashTypeOK == Spec => [](TypeOK /\ ChainsOK)
  <1>1. Init => TypeOK /\ ChainsOK
    <2> SUFFICES ASSUME Init PROVE TypeOK /\ ChainsOK
      OBVIOUS
    <2>1. Idle \in [pc : {"idle", "creating", "created", "saving", "saved", "checked"},
                    row : Reqs \cup {0}, seen : SUBSET (1..MaxSubmit)]
      BY DEF Idle
    <2>2. ChainsOK
      BY DEF Init, Chain!Init, ChainsOK, Chain!Outcomes
    <2>3. QED
      BY <2>1, <2>2, PettyCashAssumption DEF Init, ChainsOK, TypeOK
  <1>2. TypeOK /\ ChainsOK /\ [Next]_vars => TypeOK' /\ ChainsOK'
    <2> SUFFICES ASSUME TypeOK, ChainsOK, [Next]_vars PROVE TypeOK'
      BY NextMovesChains, ChainsKept DEF TypeOK
    <2> DEFINE SessionType == [pc : {"idle", "creating", "created", "saving", "saved", "checked"},
                               row : Reqs \cup {0}, seen : SUBSET (1..MaxSubmit)]
    <2>1. ChainsOK' /\ setting' \in Settings
      BY NextMovesChains, ChainsKept DEF TypeOK
    <2>2. ASSUME NEW x \in Runs, Approve(x) \/ Reject(x)
          PROVE  TypeOK'
      <3>1. queue' \subseteq Messages
        BY <2>2, PublishType, MessageTypes DEF Approve, Reject, TypeOK
      <3>2. /\ status' \in [Reqs -> {"absent", "PENDING", "APPROVED", "REJECTED", "deleted"}]
            /\ settlement' \in [Reqs -> {"NONE", "PENDING", "PENDING_APPROVAL", "SETTLED"}]
        BY <2>2, RowHearsType DEF Approve, Reject, TypeOK, row
      <3>3. UNCHANGED <<expenses, session, staffed>>
        BY <2>2 DEF Approve, Reject
      <3>4. QED
        BY <2>1, <3>1, <3>2, <3>3 DEF TypeOK, ChainsOK, expenses
    <2>3. ASSUME NEW m \in queue, Consume(m)
          PROVE  TypeOK'
      <3>1. queue' \subseteq Messages
        BY <2>3 DEF Consume, TypeOK
      <3>2. /\ status' \in [Reqs -> {"absent", "PENDING", "APPROVED", "REJECTED", "deleted"}]
            /\ settlement' \in [Reqs -> {"NONE", "PENDING", "PENDING_APPROVAL", "SETTLED"}]
        <4>1. m \in Messages
          BY DEF TypeOK
        <4>2. CASE m.event = "workflow.start"
          BY <2>3, <4>2 DEF Consume, TypeOK, row
        <4>3. CASE m.event # "workflow.start"
          <5>1. m.run \in Runs /\ (RowHears(m.run, "approved") \/ RowHears(m.run, "rejected"))
            BY <2>3, <4>1, <4>3 DEF Consume, Messages
          <5>2. QED
            BY <5>1, RowHearsType
        <4>4. QED
          BY <4>2, <4>3
      <3>3. UNCHANGED <<expenses, session, staffed>>
        BY <2>3 DEF Consume
      <3>4. QED
        BY <2>1, <3>1, <3>2, <3>3 DEF TypeOK, ChainsOK, expenses
    <2>4. ASSUME NEW h \in Sessions, BeginCreate(h) \/ CheckReady(h) \/ Crash(h)
          PROVE  TypeOK'
      <3>1. UNCHANGED <<row, expenses, queue, staffed>>
        BY <2>4 DEF BeginCreate, CheckReady, Crash
      <3>2. session' \in [Sessions -> SessionType]
        BY <2>4 DEF BeginCreate, CheckReady, Crash, Goto, TypeOK
      <3>3. QED
        BY <2>1, <3>1, <3>2 DEF TypeOK, ChainsOK, expenses, row
    <2>5. ASSUME NEW h \in Sessions, CommitCreate(h)
          PROVE  TypeOK'
      <3>1. PICK r \in Reqs : /\ status' = [status EXCEPT ![r] = "PENDING"]
                              /\ Goto(h, "created", r, {})
        BY <2>5, SettingFacts DEF CommitCreate, TypeOK
      <3>2. UNCHANGED <<settlement, expenses, queue, staffed>>
        BY <2>5 DEF CommitCreate
      <3>3. session' \in [Sessions -> SessionType]
        BY <3>1 DEF Goto, TypeOK
      <3>4. QED
        BY <2>1, <3>1, <3>2, <3>3 DEF TypeOK, ChainsOK, expenses
    <2>6. ASSUME NEW h \in Sessions, StartCreated(h) \/ StartSettlement(h)
          PROVE  TypeOK'
      <3>1. session' \in [Sessions -> SessionType]
        BY <2>6 DEF StartCreated, StartSettlement, Goto, TypeOK
      <3>2. UNCHANGED <<status, expenses, staffed>>
        BY <2>6 DEF StartCreated, StartSettlement, row
      <3>3. settlement' \in [Reqs -> {"NONE", "PENDING", "PENDING_APPROVAL", "SETTLED"}]
        BY <2>6 DEF StartCreated, StartSettlement, TypeOK, row
      <3>4. queue' \subseteq Messages
        <4> DEFINE r == session[h].row
        <4>1. ASSUME NEW kind \in Kinds, CanStart(r, kind), Start(r, kind),
                     Publish([event |-> "workflow.start", row |-> r, kind |-> kind])
              PROVE  queue' \subseteq Messages
          <5>1. r \in Reqs
            BY <4>1 DEF Start, RunsOf, Runs, ActiveRun
          <5>2. QED
            BY <4>1, <5>1, MessageTypes, PublishType DEF TypeOK
        <4>2. QED
          BY <2>6, <4>1 DEF StartCreated, StartSettlement, Kinds, TypeOK
      <3>5. QED
        BY <2>1, <3>1, <3>2, <3>3, <3>4 DEF TypeOK, ChainsOK, expenses
    <2>7. ASSUME NEW h \in Sessions, NEW r \in Reqs, BeginFiling(h, r)
          PROVE  TypeOK'
      <3>1. UNCHANGED <<row, expenses, queue, staffed>>
        BY <2>7 DEF BeginFiling
      <3>2. session' \in [Sessions -> SessionType]
        BY <2>7 DEF BeginFiling, Goto, Replaced, TypeOK
      <3>3. QED
        BY <2>1, <3>1, <3>2 DEF TypeOK, ChainsOK, expenses, row
    <2>8. ASSUME NEW h \in Sessions, CommitLines(h)
          PROVE  TypeOK'
      <3>1. UNCHANGED <<status, queue, staffed>>
        BY <2>8 DEF CommitLines
      <3>2. session' \in [Sessions -> SessionType]
        BY <2>8 DEF CommitLines, Goto, TypeOK
      <3>3. filed' \in 1..MaxSubmit
        BY <2>8, PettyCashAssumption DEF CommitLines, TypeOK
      <3>4. /\ lines' \in [Reqs -> SUBSET (1..MaxSubmit)]
            /\ total' \in [Reqs -> 0..MaxSubmit]
            /\ settlement' \in [Reqs -> {"NONE", "PENDING", "PENDING_APPROVAL", "SETTLED"}]
        <4> DEFINE r == session[h].row
                   kept == lines[r] \ session[h].seen
        <4>1. /\ lines' = [lines EXCEPT ![r] = kept \cup {filed'}]
              /\ total' = [total EXCEPT ![r] = filed']
              /\ settlement' = [settlement EXCEPT ![r] = "PENDING_APPROVAL"]
          BY <2>8 DEF CommitLines
        <4>2. r \in Reqs => kept \cup {filed'} \in SUBSET (1..MaxSubmit)
          BY <3>3 DEF TypeOK
        <4> HIDE DEF r, kept
        <4>3. lines' \in [Reqs -> SUBSET (1..MaxSubmit)]
          BY <4>1, <4>2 DEF TypeOK
        <4>4. QED
          BY <3>3, <4>1, <4>3 DEF TypeOK
      <3>5. QED
        BY <2>1, <3>1, <3>2, <3>3, <3>4 DEF TypeOK, ChainsOK
    <2>9. ASSUME NEW r \in Reqs, Delete(r)
          PROVE  TypeOK'
      BY <2>1, <2>9 DEF Delete, TypeOK, ChainsOK
    <2>10. CASE Restaff
      BY <2>1, <2>10 DEF Restaff, TypeOK, ChainsOK, row, expenses
    <2>11. CASE UNCHANGED vars
      BY <2>1, <2>11 DEF vars, TypeOK, ChainsOK, row, expenses
    <2>12. QED
      BY <2>2, <2>3, <2>4, <2>5, <2>6, <2>7, <2>8, <2>9, <2>10, <2>11 DEF Next, Handler
  <1>3. QED
    BY <1>1, <1>2, PTL DEF Spec

-----------------------------------------------------------------------------
(* Nothing without approval.                                                *)

(* A workflow.approved event, delivered for the first time or again, names  *)
(* an approved instance.                                                    *)
EventsTrue ==
    \A m \in queue : m.event = "workflow.approved" => outcome[m.run] = "approved"

(* A request that files expenses does so for a row that was approved.       *)
FilingApproved ==
    \A h \in Sessions : session[h].pc \in {"saving", "saved", "checked"} =>
        session[h].row \in Reqs /\ Approved(session[h].row, "petty_cash")

ApprovalInv == TypeOK /\ ChainsOK /\ EventsTrue /\ FilingApproved /\ NothingWithoutApproval

StaysApproved == \A r \in Reqs, kind \in Kinds : Approved(r, kind) => Approved(r, kind)'

(* An approval is never taken back, by whatever step.                       *)
LEMMA ApprovedStays ==
    ASSUME TypeOK, ChainsOK, [Next]_vars
    PROVE  /\ \A x \in Runs : outcome[x] = "approved" => outcome'[x] = "approved"
           /\ StaysApproved
  <1>1. \A x \in Runs : outcome[x] = "approved" => outcome'[x] = "approved"
    BY NextMovesChains, ChainsKept DEF TypeOK
  <1>2. QED
    BY <1>1 DEF StaysApproved, Approved, RunsOf

(* The bridges tell the truth when they are told of approved instances.     *)
LEMMA RowHearsTruth ==
    ASSUME TypeOK, NothingWithoutApproval, StaysApproved,
           NEW x \in Runs, NEW verdict \in {"approved", "rejected"}, RowHears(x, verdict),
           verdict = "approved" => outcome'[x] = "approved", UNCHANGED lines
    PROVE  NothingWithoutApproval'
  <1>1. verdict = "approved" => Approved(x.row, x.kind)'
    BY DEF Approved, RunsOf
  <1>2. x.row \in Reqs /\ x.kind \in Kinds
    BY DEF Runs
  <1>3. ASSUME NEW r \in Reqs, status'[r] = "APPROVED"
        PROVE  Approved(r, "petty_cash")'
    <2>1. status[r] = "APPROVED" \/ (r = x.row /\ x.kind = "petty_cash" /\ verdict = "approved")
      BY <1>3 DEF RowHears, StatusOn, TypeOK
    <2>2. QED
      BY <1>1, <2>1 DEF NothingWithoutApproval, StaysApproved, Kinds
  <1>4. ASSUME NEW r \in Reqs, lines'[r] # {}
        PROVE  Approved(r, "petty_cash")'
    BY <1>4 DEF NothingWithoutApproval, StaysApproved, Kinds
  <1>5. ASSUME NEW r \in Reqs, settlement'[r] = "SETTLED"
        PROVE  Approved(r, "petty_cash_settlement")'
    <2>1. \/ settlement[r] = "SETTLED"
          \/ r = x.row /\ x.kind = "petty_cash_settlement" /\ verdict = "approved"
      BY <1>5 DEF RowHears, SettlementOn, TypeOK
    <2>2. QED
      BY <1>1, <2>1 DEF NothingWithoutApproval, StaysApproved, Kinds
  <1>6. QED
    BY <1>3, <1>4, <1>5 DEF NothingWithoutApproval

(* Where the row hears nothing, an approval is enough for what it says.     *)
LEMMA QuietRowKeeps ==
    ASSUME NothingWithoutApproval, StaysApproved, UNCHANGED <<status, settlement, lines>>
    PROVE  NothingWithoutApproval'
  BY DEF NothingWithoutApproval, StaysApproved, Kinds

(* So it is for the requests that file expenses.                            *)
LEMMA QuietSessionsKeep ==
    ASSUME FilingApproved, StaysApproved, UNCHANGED session
    PROVE  FilingApproved'
  BY DEF FilingApproved, StaysApproved, Kinds

(* What is published is an event that was true when it was published.       *)
LEMMA PublishTruth ==
    ASSUME TypeOK, EventsTrue, \A x \in Runs : outcome[x] = "approved" => outcome'[x] = "approved",
           NEW m \in Messages, m.event = "workflow.approved" => outcome'[m.run] = "approved",
           Publish(m) \/ queue' \subseteq queue
    PROVE  EventsTrue'
  <1>1. queue' \subseteq queue \cup {m}
    BY DEF Publish
  <1>2. \A n \in queue : n.event = "workflow.approved" => n.run \in Runs
    BY DEF TypeOK, Messages
  <1>3. QED
    BY <1>1, <1>2 DEF EventsTrue

ApprovalKept == EventsTrue /\ FilingApproved /\ NothingWithoutApproval

(* A decision makes nothing true that was not approved.                     *)
LEMMA DecisionsKeepApproval ==
    ASSUME ApprovalInv, NEW x \in Runs, Approve(x) \/ Reject(x)
    PROVE  ApprovalKept'
  <1> USE DEF ApprovalInv
  <1>1. [Next]_vars
    BY DEF Next
  <1>2. /\ \A y \in Runs : outcome[y] = "approved" => outcome'[y] = "approved"
        /\ StaysApproved
    BY <1>1, ApprovedStays
  <1>3. UNCHANGED <<lines, session>>
    BY DEF Approve, Reject, expenses
  <1>4. CASE Approve(x)
    <2>1. CASE outcome'[x] # "approved"
      <3>1. UNCHANGED <<status, settlement, queue>>
        BY <1>4, <2>1 DEF Approve, row
      <3>2. EventsTrue'
        BY <3>1, <1>2 DEF EventsTrue, TypeOK, Messages
      <3>3. QED
        BY <1>2, <1>3, <3>1, <3>2, QuietRowKeeps, QuietSessionsKeep DEF ApprovalKept
    <2>2. CASE outcome'[x] = "approved"
      <3> DEFINE m == [event |-> "workflow.approved", run |-> x]
      <3>1. Publish(m) /\ (UNCHANGED row \/ RowHears(x, "approved"))
        BY <1>4, <2>2 DEF Approve
      <3>2. EventsTrue'
        BY <1>2, <2>2, <3>1, MessageTypes, PublishTruth
      <3>3. NothingWithoutApproval'
        BY <1>2, <1>3, <2>2, <3>1, RowHearsTruth, QuietRowKeeps DEF row
      <3>4. QED
        BY <1>2, <1>3, <3>2, <3>3, QuietSessionsKeep DEF ApprovalKept
    <2>3. QED
      BY <2>1, <2>2
  <1>5. CASE Reject(x)
    <2>1. UNCHANGED <<status, settlement>> \/ RowHears(x, "rejected")
      BY <1>5 DEF Reject, row
    <2>2. NothingWithoutApproval'
      BY <1>2, <1>3, <2>1, RowHearsTruth, QuietRowKeeps
    <2>3. EventsTrue'
      <3> DEFINE m == [event |-> "workflow.rejected", run |-> x]
      <3>1. Publish(m) \/ queue' \subseteq queue
        BY <1>5 DEF Reject
      <3>2. QED
        BY <1>2, <3>1, MessageTypes, PublishTruth
    <2>4. QED
      BY <1>2, <1>3, <2>2, <2>3, QuietSessionsKeep DEF ApprovalKept
  <1>6. QED
    BY <1>4, <1>5

(* However late or often an event arrives, its instance is still approved.  *)
LEMMA ConsumeKeepsApproval ==
    ASSUME ApprovalInv, NEW m \in queue, Consume(m)
    PROVE  ApprovalKept'
  <1> USE DEF ApprovalInv
  <1>1. [Next]_vars
    BY DEF Next
  <1>2. /\ \A y \in Runs : outcome[y] = "approved" => outcome'[y] = "approved"
        /\ StaysApproved
    BY <1>1, ApprovedStays
  <1>3. UNCHANGED <<lines, session>> /\ queue' \subseteq queue
    BY DEF Consume, expenses
  <1>4. m \in Messages
    BY DEF TypeOK
  <1>5. EventsTrue'
    BY <1>2, <1>3 DEF EventsTrue, TypeOK, Messages
  <1>6. NothingWithoutApproval'
    <2>1. CASE m.event = "workflow.start"
      BY <1>2, <1>3, <2>1, QuietRowKeeps DEF Consume, row
    <2>2. CASE m.event = "workflow.approved"
      <3>1. m.run \in Runs /\ RowHears(m.run, "approved") /\ outcome[m.run] = "approved"
        BY <1>4, <2>2 DEF Consume, Messages, EventsTrue
      <3>2. QED
        BY <1>2, <1>3, <3>1, RowHearsTruth
    <2>3. CASE m.event = "workflow.rejected"
      <3>1. m.run \in Runs /\ RowHears(m.run, "rejected")
        BY <1>4, <2>3 DEF Consume, Messages
      <3>2. QED
        BY <1>2, <1>3, <3>1, RowHearsTruth
    <2>4. QED
      BY <1>4, <2>1, <2>2, <2>3 DEF Messages
  <1>7. QED
    BY <1>2, <1>3, <1>5, <1>6, QuietSessionsKeep DEF ApprovalKept

(* The requests of the employee: expenses are stored only by one that found  *)
(* its row approved, however long ago.                                      *)
LEMMA HandlersKeepApproval ==
    ASSUME ApprovalInv, NEW h \in Sessions, Handler(h)
    PROVE  ApprovalKept'
  <1> USE DEF ApprovalInv
  <1>1. [Next]_vars
    BY DEF Next
  <1>2. /\ \A y \in Runs : outcome[y] = "approved" => outcome'[y] = "approved"
        /\ StaysApproved
    BY <1>1, ApprovedStays
  <1> DEFINE r == session[h].row
  <1>3. EventsTrue'
    <2>1. CASE queue' \subseteq queue
      BY <1>2, <2>1 DEF EventsTrue, TypeOK, Messages
    <2>2. ASSUME NEW kind \in Kinds, CanStart(r, kind), Start(r, kind),
                 Publish([event |-> "workflow.start", row |-> r, kind |-> kind])
          PROVE  EventsTrue'
      <3>1. r \in Reqs
        BY <2>2 DEF Start, RunsOf, Runs, ActiveRun
      <3>2. QED
        BY <1>2, <2>2, <3>1, MessageTypes, PublishTruth
    <2>3. QED
      BY <2>1, <2>2 DEF Handler, BeginCreate, CommitCreate, StartCreated, BeginFiling,
                        CommitLines, CheckReady, StartSettlement, Crash, Kinds
  <1>4. FilingApproved'
    <2>1. ASSUME NEW g \in Sessions, g # h, session'[g].pc \in {"saving", "saved", "checked"}
          PROVE  \E q \in Reqs : session'[g].row = q /\ Approved(q, "petty_cash")'
      <3>1. session'[g] = session[g]
        BY <2>1 DEF Handler, BeginCreate, CommitCreate, StartCreated, BeginFiling,
                    CommitLines, CheckReady, StartSettlement, Crash, Goto, TypeOK
      <3>2. QED
        BY <1>2, <2>1, <3>1 DEF FilingApproved, StaysApproved, Kinds
    <2>2. ASSUME session'[h].pc \in {"saving", "saved", "checked"}
          PROVE  \E q \in Reqs : session'[h].row = q /\ Approved(q, "petty_cash")'
      <3>1. CASE \E q \in Reqs : BeginFiling(h, q)
        <4>1. PICK q \in Reqs : BeginFiling(h, q)
          BY <3>1
        <4>2. status[q] = "APPROVED" /\ session'[h].row = q
          BY <4>1 DEF BeginFiling, Filable, Goto, TypeOK
        <4>3. QED
          BY <4>2, <1>2 DEF NothingWithoutApproval, StaysApproved, Kinds
      <3>2. CASE CommitLines(h) \/ CheckReady(h)
        <4>1. session[h].pc \in {"saving", "saved"} /\ session'[h].row = session[h].row
          BY <2>2, <3>2 DEF CommitLines, CheckReady, At, Goto, TypeOK
        <4>2. QED
          BY <1>2, <4>1 DEF FilingApproved, StaysApproved, Kinds
      <3>3. CASE BeginCreate(h) \/ CommitCreate(h) \/ StartCreated(h) \/ StartSettlement(h) \/ Crash(h)
        BY <2>2, <3>3 DEF BeginCreate, CommitCreate, StartCreated, StartSettlement, Crash, Goto, TypeOK
      <3>4. QED
        BY <3>1, <3>2, <3>3 DEF Handler
    <2>3. \A g \in Sessions : session'[g].pc \in {"saving", "saved", "checked"} =>
             \E q \in Reqs : session'[g].row = q /\ Approved(q, "petty_cash")'
      BY <2>1, <2>2
    <2>4. \A q \in Reqs : Approved(q, "petty_cash")' <=>
             \E x \in RunsOf(q, "petty_cash") : outcome'[x] = "approved"
      BY DEF Approved, RunsOf
    <2>5. QED
      BY <2>3, <2>4 DEF FilingApproved, Approved, RunsOf
  <1>5. NothingWithoutApproval'
    <2>1. CASE UNCHANGED <<status, settlement, lines>>
      BY <1>2, <2>1, QuietRowKeeps
    <2>2. CASE CommitCreate(h)
      <3>1. UNCHANGED <<settlement, lines>> /\ \E q \in Reqs : status' = [status EXCEPT ![q] = "PENDING"]
        BY <2>2, SettingFacts DEF CommitCreate, expenses, TypeOK
      <3>2. \A q \in Reqs : status'[q] = "APPROVED" => status[q] = "APPROVED"
        BY <3>1 DEF TypeOK
      <3>3. QED
        BY <1>2, <3>1, <3>2 DEF NothingWithoutApproval, StaysApproved, Kinds
    <2>3. CASE CommitLines(h)
      <3>1. r \in Reqs /\ Approved(r, "petty_cash")
        BY <2>3 DEF CommitLines, At, FilingApproved
      <3>2. /\ UNCHANGED status
            /\ \A q \in Reqs : q # r => lines'[q] = lines[q]
            /\ \A q \in Reqs : settlement'[q] = "SETTLED" => settlement[q] = "SETTLED"
        BY <2>3 DEF CommitLines, TypeOK
      <3>3. QED
        BY <1>2, <3>1, <3>2 DEF NothingWithoutApproval, StaysApproved, Kinds
    <2>4. CASE StartSettlement(h)
      <3>1. /\ UNCHANGED <<status, lines>>
            /\ \A q \in Reqs : settlement'[q] = "SETTLED" => settlement[q] = "SETTLED"
        BY <2>4 DEF StartSettlement, expenses, TypeOK
      <3>2. QED
        BY <1>2, <3>1 DEF NothingWithoutApproval, StaysApproved, Kinds
    <2>5. QED
      BY <2>1, <2>2, <2>3, <2>4
         DEF Handler, BeginCreate, StartCreated, BeginFiling, CheckReady, Crash, row, expenses
  <1>6. QED
    BY <1>3, <1>4, <1>5 DEF ApprovalKept

(* Messages, handlers under way and rows never run ahead of the approvals   *)
(* they rest on: an event in the queue, a filing that passed its check and  *)
(* a column that was written all have an approved chain behind them.        *)
THEOREM ApprovalInvariant == Spec => []ApprovalInv
  <1>1. Init => ApprovalKept
    BY DEF Init, Idle, ApprovalKept, EventsTrue, FilingApproved, NothingWithoutApproval
  <1>2. ApprovalInv /\ [Next]_vars => ApprovalKept'
    <2> SUFFICES ASSUME ApprovalInv, [Next]_vars PROVE ApprovalKept'
      OBVIOUS
    <2>1. /\ \A x \in Runs : outcome[x] = "approved" => outcome'[x] = "approved"
          /\ StaysApproved
      BY ApprovedStays DEF ApprovalInv
    <2>2. ASSUME UNCHANGED <<queue, session>>, \A r \in Reqs : lines'[r] \in {lines[r], {}},
                 \A r \in Reqs : status'[r] \in {status[r], "deleted"}, UNCHANGED settlement
          PROVE  ApprovalKept'
      <3>1. EventsTrue'
        BY <2>1, <2>2 DEF ApprovalInv, EventsTrue, TypeOK, Messages
      <3>2. FilingApproved'
        BY <2>1, <2>2, QuietSessionsKeep DEF ApprovalInv
      <3>3. NothingWithoutApproval'
        BY <2>1, <2>2 DEF ApprovalInv, NothingWithoutApproval, StaysApproved, Kinds
      <3>4. QED
        BY <3>1, <3>2, <3>3 DEF ApprovalKept
    <2>3. ASSUME NEW r \in Reqs, Delete(r)
          PROVE  ApprovalKept'
      BY <2>2, <2>3 DEF Delete, ApprovalInv, TypeOK
    <2>4. CASE Restaff \/ UNCHANGED vars
      BY <2>2, <2>4 DEF Restaff, vars, row, expenses
    <2>5. QED
      BY <2>3, <2>4, DecisionsKeepApproval, ConsumeKeepsApproval, HandlersKeepApproval DEF Next
  <1>3. TypeOK /\ ChainsOK /\ ApprovalKept <=> ApprovalInv
    BY DEF ApprovalInv, ApprovalKept
  <1>4. QED
    BY <1>1, <1>2, <1>3, PettyCashTypeOK, PTL DEF Spec

(* Money is only accounted for when somebody approved it, whatever the queue *)
(* delays or repeats, whichever process dies and however requests overlap.  *)
THEOREM PettyCashNothingWithoutApproval == Spec => []NothingWithoutApproval
  BY ApprovalInvariant, PTL DEF ApprovalInv

-----------------------------------------------------------------------------
(* In the calm.                                                             *)

OpenRun(x) == outcome[x] = "open"

(* One request is under way at a time.                                      *)
ServedAlone == \A g, h \in Sessions : ~At(g, "idle") /\ ~At(h, "idle") => g = h

(* Of a row, one instance of a kind is open, and the row waits for its end. *)
RunsInStep ==
    /\ \A x \in Runs : OpenRun(x) =>
          \/ x.kind = "petty_cash" /\ status[x.row] = "deleted"
          \/ x.kind = "petty_cash" /\ status[x.row] = "PENDING" /\ settlement[x.row] # "SETTLED"
          \/ /\ x.kind = "petty_cash_settlement"
             /\ status[x.row] = "APPROVED" /\ settlement[x.row] = "PENDING_APPROVAL"
    /\ \A x, y \in Runs : OpenRun(x) /\ OpenRun(y) /\ x.row = y.row /\ x.kind = y.kind => x = y

Settling(r) == \E h \in Sessions : session[h].pc \in {"saved", "checked"} /\ session[h].row = r

(* What the rows say of each other and of their chains and lines.           *)
RowsInStep ==
    \A r \in Reqs :
        /\ status[r] = "absent" => settlement[r] # "SETTLED"
        /\ settlement[r] = "PENDING_APPROVAL" => InSettlement(r) \/ Settling(r)
        /\ lines[r] \subseteq {total[r]}
        /\ \A q \in Reqs : Blocking(r) /\ Blocking(q) => r = q

(* What a request found still stands when its next transaction begins.      *)
SessionInStep(h) ==
    LET r == session[h].row IN
    /\ At(h, "creating") => \A q \in Reqs : ~Blocking(q)
    /\ At(h, "created") =>
          /\ r \in Reqs /\ status[r] \in {"PENDING", "deleted"} /\ settlement[r] # "SETTLED"
          /\ \A x \in Runs : x.row = r => ~OpenRun(x)
    /\ At(h, "saving") => r \in Reqs /\ Filable(r) /\ session[h].seen = lines[r]
    /\ At(h, "saved") \/ At(h, "checked") =>
          r \in Reqs /\ status[r] = "APPROVED" /\ settlement[r] = "PENDING_APPROVAL" /\ ~InSettlement(r)

InStep == /\ queue = {} /\ staffed /\ ServedAlone
          /\ RunsInStep /\ RowsInStep /\ \A h \in Sessions : SessionInStep(h)
CalmInv == TypeOK /\ ChainsOK /\ (Calm => InStep)

(* An approver decides an open instance; when that ends it, the row learns  *)
(* of it in the same step.                                                  *)
LEMMA DecisionInTheCalm ==
    ASSUME TypeOK, ChainsOK, Calm, NEW x \in Runs, Approve(x) \/ Reject(x)
    PROVE  /\ OpenRun(x) /\ UNCHANGED <<session, staffed, queue, lines, total>>
           /\ \E v \in {"open", "approved", "returned"} :
                 /\ outcome' = [outcome EXCEPT ![x] = v]
                 /\ v = "open" => UNCHANGED row
                 /\ v = "approved" => RowHears(x, "approved")
                 /\ v = "returned" => RowHears(x, "rejected")
  <1>1. OpenRun(x)
    BY DEF Approve, Reject, MayDecide, Calm, OpenRun
  <1>2. UNCHANGED <<session, staffed, queue, lines, total>>
    BY DEF Approve, Reject, Publish, Calm, expenses
  <1>3. CASE Approve(x)
    <2>1. outcome' = [outcome EXCEPT ![x] = "approved"] \/ outcome' = outcome
      BY <1>3 DEF Approve, Chain!Advance
    <2>2. outcome = [outcome EXCEPT ![x] = "open"]
      BY <1>1 DEF ChainsOK, OpenRun
    <2>3. QED
      BY <1>1, <1>2, <1>3, <2>1, <2>2 DEF Approve, Calm, ChainsOK, OpenRun
  <1>4. CASE Reject(x)
    <2>1. outcome' = [outcome EXCEPT ![x] = "returned"] \/ outcome' = [outcome EXCEPT ![x] = "open"]
      BY <1>4 DEF Reject, Chain!SendBack
    <2>2. QED
      BY <1>1, <1>2, <1>4, <2>1 DEF Reject, ChainsOK
  <1>5. QED
    BY <1>3, <1>4

(* What an ended instance does to the one row that waited for it.           *)
LEMMA RowHearsInTheCalm ==
    ASSUME TypeOK, RunsInStep, NEW x \in Runs, OpenRun(x),
           NEW verdict \in {"approved", "rejected"}, RowHears(x, verdict)
    PROVE  LET r == x.row IN
           /\ r \in Reqs /\ \A q \in Reqs : q # r => status'[q] = status[q] /\ settlement'[q] = settlement[q]
           /\ \/ /\ x.kind = "petty_cash" /\ status[r] = "deleted"
                 /\ UNCHANGED <<status, settlement>>
              \/ /\ x.kind = "petty_cash" /\ Blocking(r) /\ status[r] = "PENDING"
                 /\ \/ status'[r] = "APPROVED" /\ settlement'[r] = "PENDING"
                    \/ status'[r] = "REJECTED" /\ settlement'[r] = settlement[r]
              \/ /\ x.kind = "petty_cash_settlement" /\ Blocking(r)
                 /\ status[r] = "APPROVED" /\ settlement[r] = "PENDING_APPROVAL"
                 /\ status'[r] = status[r] /\ settlement'[r] \in {"SETTLED", "PENDING"}
  <1>1. x.row \in Reqs
    BY DEF Runs
  <1>2. CASE x.kind = "petty_cash" /\ status[x.row] = "deleted"
    BY <1>1, <1>2 DEF RowHears, StatusOn, SettlementOn, Stored
  <1>3. CASE x.kind = "petty_cash" /\ status[x.row] = "PENDING" /\ settlement[x.row] # "SETTLED"
    <2>1. Stored(x.row) /\ Blocking(x.row)
      BY <1>3 DEF Stored, Blocking
    <2>2. CASE verdict = "approved"
      <3>1. /\ status' = [status EXCEPT ![x.row] = "APPROVED"]
            /\ settlement' = [settlement EXCEPT ![x.row] = "PENDING"]
        BY <1>3, <2>1, <2>2 DEF RowHears, StatusOn, SettlementOn
      <3>2. /\ status'[x.row] = "APPROVED" /\ settlement'[x.row] = "PENDING"
            /\ \A q \in Reqs : q # x.row => status'[q] = status[q] /\ settlement'[q] = settlement[q]
        BY <1>1, <3>1 DEF TypeOK
      <3>3. QED
        BY <1>1, <1>3, <2>1, <3>2
    <2>3. CASE verdict = "rejected"
      <3>1. status' = [status EXCEPT ![x.row] = "REJECTED"] /\ settlement' = settlement
        BY <1>3, <2>1, <2>3 DEF RowHears, StatusOn, SettlementOn
      <3>2. status'[x.row] = "REJECTED" /\ \A q \in Reqs : q # x.row => status'[q] = status[q]
        BY <1>1, <3>1 DEF TypeOK
      <3>3. QED
        BY <1>1, <1>3, <2>1, <3>1, <3>2
    <2>4. QED
      BY <2>2, <2>3
  <1>4. CASE /\ x.kind = "petty_cash_settlement"
             /\ status[x.row] = "APPROVED" /\ settlement[x.row] = "PENDING_APPROVAL"
    BY <1>1, <1>4 DEF RowHears, StatusOn, SettlementOn, Stored, Blocking, TypeOK
  <1>5. QED
    BY <1>2, <1>3, <1>4 DEF RunsInStep

(* No request under way stands on a row while one of its chains is open.    *)
LEMMA NoRequestOnOpenRun ==
    ASSUME TypeOK, InStep, NEW x \in Runs, OpenRun(x), status[x.row] # "deleted", NEW h \in Sessions
    PROVE  \/ At(h, "idle")
           \/ session[h].row # x.row /\ ~At(h, "creating")
  <1>1. x.row \in Reqs /\ x.kind \in Kinds
    BY DEF Runs
  <1>2. Blocking(x.row)
    BY <1>1 DEF InStep, RunsInStep, Blocking
  <1>3. SessionInStep(h)
    BY DEF InStep
  <1>4. x.kind = "petty_cash_settlement" => InSettlement(x.row)
    BY DEF InSettlement, RunsOf, OpenRun
  <1>5. session[h].pc \in {"idle", "creating", "created", "saving", "saved", "checked"}
    BY DEF TypeOK
  <1>6. QED
    BY <1>1, <1>2, <1>3, <1>4, <1>5 DEF SessionInStep, InStep, RunsInStep, Filable, At, Kinds

(* In the calm a decision and the row that hears of it move together.       *)
LEMMA DecisionsKeepInStep ==
    ASSUME TypeOK, ChainsOK, Calm, InStep, NEW x \in Runs, Approve(x) \/ Reject(x)
    PROVE  InStep'
  <1> DEFINE r == x.row
  <1>1. OpenRun(x) /\ UNCHANGED <<session, staffed, queue, lines, total>>
    BY DecisionInTheCalm
  <1>2. PICK v \in {"open", "approved", "returned"} :
                 /\ outcome' = [outcome EXCEPT ![x] = v]
                 /\ v = "open" => UNCHANGED row
                 /\ v = "approved" => RowHears(x, "approved")
                 /\ v = "returned" => RowHears(x, "rejected")
    BY DecisionInTheCalm
  <1>3. CASE v = "open"
    <2>1. UNCHANGED <<outcome, status, settlement>>
      BY <1>1, <1>2, <1>3 DEF ChainsOK, OpenRun, row
    <2>2. QED
      BY <1>1, <2>1
         DEF InStep, ServedAlone, RunsInStep, RowsInStep, SessionInStep, OpenRun, At, InSettlement,
             Settling, RunsOf, Blocking, Filable
  <1>4. CASE v # "open"
    <2>1. PICK verdict \in {"approved", "rejected"} : RowHears(x, verdict)
      BY <1>2, <1>4
    <2>2. /\ outcome'[x] # "open" /\ \A y \in Runs : y # x => outcome'[y] = outcome[y]
      BY <1>2, <1>4 DEF ChainsOK
    <2>3. /\ r \in Reqs /\ \A q \in Reqs : q # r => status'[q] = status[q] /\ settlement'[q] = settlement[q]
          /\ \/ /\ x.kind = "petty_cash" /\ status[r] = "deleted"
                /\ UNCHANGED <<status, settlement>>
             \/ /\ x.kind = "petty_cash" /\ Blocking(r) /\ status[r] = "PENDING"
                /\ \/ status'[r] = "APPROVED" /\ settlement'[r] = "PENDING"
                   \/ status'[r] = "REJECTED" /\ settlement'[r] = settlement[r]
             \/ /\ x.kind = "petty_cash_settlement" /\ Blocking(r)
                /\ status[r] = "APPROVED" /\ settlement[r] = "PENDING_APPROVAL"
                /\ status'[r] = status[r] /\ settlement'[r] \in {"SETTLED", "PENDING"}
      BY <1>1, <2>1, RowHearsInTheCalm DEF InStep
    <2>4. \A y \in Runs : OpenRun(y)' <=> OpenRun(y) /\ y # x
      BY <2>2 DEF OpenRun
    <2>5. \A q \in Reqs : InSettlement(q)' <=> InSettlement(q) /\ (q # r \/ x.kind # "petty_cash_settlement")
      <3>1. \A q \in Reqs : InSettlement(q) <=>
              \E y \in Runs : OpenRun(y) /\ y.row = q /\ y.kind = "petty_cash_settlement"
        BY DEF InSettlement, RunsOf, OpenRun
      <3>2. \A q \in Reqs : InSettlement(q)' <=>
              \E y \in Runs : OpenRun(y)' /\ y.row = q /\ y.kind = "petty_cash_settlement"
        BY DEF InSettlement, RunsOf, OpenRun
      <3>3. QED
        BY <1>1, <2>4, <3>1, <3>2 DEF InStep, RunsInStep
    <2>6. \A q \in Reqs : Blocking(q)' => Blocking(q)
      BY <2>3 DEF Blocking
    <2>7. RunsInStep'
      <3>1. ASSUME NEW y \in Runs, OpenRun(y), y # x
            PROVE  \/ y.row # r
                   \/ UNCHANGED <<status, settlement>>
        BY <1>1, <2>3, <3>1 DEF InStep, RunsInStep
      <3>2. \A y \in Runs : y.row \in Reqs
        BY DEF Runs
      <3>3. QED
        BY <2>3, <2>4, <3>1, <3>2 DEF InStep, RunsInStep
    <2>8. RowsInStep'
      <3>1. \A q \in Reqs : Settling(q)' <=> Settling(q)
        BY <1>1 DEF Settling
      <3>2. QED
        BY <1>1, <2>3, <2>5, <2>6, <3>1 DEF InStep, RowsInStep
    <2>9. ASSUME NEW h \in Sessions
          PROVE  SessionInStep(h)'
      <3>1. SessionInStep(h)
        BY DEF InStep
      <3>2. CASE UNCHANGED <<status, settlement>>
        BY <1>1, <2>4, <2>5, <2>6, <3>1, <3>2 DEF SessionInStep, At, Filable
      <3>3. CASE status[r] # "deleted"
        <4>1. At(h, "idle") \/ (session[h].row # r /\ ~At(h, "creating"))
          BY <1>1, <3>3, NoRequestOnOpenRun
        <4>2. QED
          BY <1>1, <2>3, <2>4, <2>5, <3>1, <4>1 DEF SessionInStep, At, Filable
      <3>4. QED
        BY <2>3, <3>2, <3>3
    <2>10. QED
      BY <1>1, <2>7, <2>8, <2>9 DEF InStep, ServedAlone, At
  <1>5. QED
    BY <1>3, <1>4

(* A chain that can be begun is begun, and is the only one open of its kind *)
(* and row.                                                                 *)
LEMMA StartOpens ==
    ASSUME ChainsOK, staffed, NEW r, NEW kind, Start(r, kind), ~ActiveRun(r, kind)
    PROVE  \E x \in RunsOf(r, kind) : \A y \in Runs : OpenRun(y)' <=> OpenRun(y) \/ y = x
  <1>1. PICK x \in RunsOf(r, kind) : Chain!Open(x, 1..setting.steps)
    BY DEF Start
  <1>2. x \in Runs
    BY DEF RunsOf
  <1>3. \A y \in Runs : OpenRun(y)' <=> OpenRun(y) \/ y = x
    BY <1>1, <1>2 DEF Chain!Open, OpenRun, ChainsOK
  <1>4. QED
    BY <1>1, <1>3

(* What a transaction of a request does to the invariant, but for the row   *)
(* it writes: the request is the only one under way.                        *)
LEMMA OthersIdle ==
    ASSUME TypeOK, Calm, InStep, NEW h \in Sessions, Handler(h)
    PROVE  /\ UNCHANGED <<queue, staffed>> /\ ServedAlone'
           /\ \A g \in Sessions : g # h => At(g, "idle") /\ session'[g] = session[g]
           /\ \A g \in Sessions : g # h => SessionInStep(g)'
  <1>1. UNCHANGED <<queue, staffed>>
    BY DEF Handler, BeginCreate, CommitCreate, StartCreated, BeginFiling, CommitLines,
           CheckReady, StartSettlement, Crash, Publish, Calm
  <1>2. /\ \A g \in Sessions : g # h => At(g, "idle")
        /\ \A g \in Sessions : g # h => session'[g] = session[g]
    BY DEF Handler, BeginCreate, CommitCreate, StartCreated, BeginFiling, CommitLines,
           CheckReady, StartSettlement, Crash, Goto, Served, At, TypeOK, Calm, InStep, ServedAlone
  <1>3. ServedAlone'
    BY <1>2 DEF ServedAlone, At
  <1>4. \A g \in Sessions : g # h => SessionInStep(g)'
    BY <1>2 DEF SessionInStep, At
  <1>5. QED
    BY <1>1, <1>2, <1>3, <1>4

(* The requests: each transaction leaves what the next one of it finds.     *)
LEMMA HandlersKeepInStep ==
    ASSUME TypeOK, ChainsOK, Calm, InStep, NEW h \in Sessions, Handler(h)
    PROVE  InStep'
  <1>1. /\ UNCHANGED <<queue, staffed>> /\ ServedAlone'
        /\ \A g \in Sessions : g # h => At(g, "idle") /\ session'[g] = session[g]
        /\ \A g \in Sessions : g # h => SessionInStep(g)'
    BY OthersIdle
  <1>2. SUFFICES RunsInStep' /\ RowsInStep' /\ SessionInStep(h)'
    BY <1>1 DEF InStep
  <1>3. SessionInStep(h) /\ RunsInStep /\ RowsInStep
    BY DEF InStep
  <1> DEFINE r == session[h].row
  <1>4. \A q \in Reqs : Settling(q) <=> session[h].pc \in {"saved", "checked"} /\ q = r
    BY <1>1 DEF Settling, At
  <1>5. \A q \in Reqs : Settling(q)' <=> session'[h].pc \in {"saved", "checked"} /\ q = session'[h].row
    BY <1>1 DEF Settling, At
  <1>6. CASE BeginCreate(h) \/ (\E q \in Reqs : BeginFiling(h, q)) \/ CheckReady(h)
    <2>1. UNCHANGED <<status, settlement, lines, total, outcome>>
      BY <1>6 DEF BeginCreate, BeginFiling, CheckReady, row, expenses, chains
    <2>2. RunsInStep'
      BY <1>3, <2>1 DEF RunsInStep, OpenRun
    <2>3. \A q \in Reqs : Settling(q) => Settling(q)'
      <3>1. CASE At(h, "idle")
        BY <1>4, <3>1 DEF At
      <3>2. CASE ~At(h, "idle")
        <4>1. CheckReady(h)
          BY <1>6, <3>2 DEF BeginCreate, BeginFiling, Served
        <4>2. session'[h] = [pc |-> "checked", row |-> r, seen |-> {}]
          BY <4>1 DEF CheckReady, Goto, TypeOK, InStep
        <4>3. QED
          BY <1>4, <1>5, <4>2
      <3>3. QED
        BY <3>1, <3>2
    <2>4. RowsInStep'
      BY <1>3, <2>1, <2>3 DEF RowsInStep, InSettlement, RunsOf, Blocking
    <2>5. SessionInStep(h)'
      <3>1. CASE BeginCreate(h)
        BY <2>1, <3>1 DEF BeginCreate, Goto, TypeOK, SessionInStep, At, Blocking
      <3>2. ASSUME NEW q \in Reqs, BeginFiling(h, q)
            PROVE  SessionInStep(h)'
        <4>1. session'[h] = [pc |-> "saving", row |-> q, seen |-> lines[q]]
          BY <3>2 DEF BeginFiling, Goto, TypeOK, Calm, Replaced
        <4>2. QED
          BY <2>1, <3>2, <4>1 DEF BeginFiling, SessionInStep, At, Filable
      <3>3. CASE CheckReady(h)
        <4>1. At(h, "saved") /\ session'[h] = [pc |-> "checked", row |-> r, seen |-> {}]
          BY <3>3 DEF CheckReady, Goto, TypeOK, InStep
        <4>2. QED
          BY <1>3, <2>1, <4>1 DEF SessionInStep, At, InSettlement, RunsOf
      <3>4. QED
        BY <1>6, <3>1, <3>2, <3>3
    <2>6. QED
      BY <2>2, <2>4, <2>5
  <1>7. CASE CommitCreate(h)
    <2>1. PICK n \in Reqs : /\ status[n] = "absent" /\ status' = [status EXCEPT ![n] = "PENDING"]
                            /\ session' = [session EXCEPT ![h] = [pc |-> "created", row |-> n, seen |-> {}]]
      BY <1>7, SettingFacts DEF CommitCreate, Goto, TypeOK
    <2>2. UNCHANGED <<settlement, lines, total, outcome>> /\ At(h, "creating")
      BY <1>7 DEF CommitCreate, expenses, chains
    <2>3. /\ status'[n] = "PENDING" /\ (\A q \in Reqs : q # n => status'[q] = status[q])
          /\ session'[h] = [pc |-> "created", row |-> n, seen |-> {}]
      BY <2>1 DEF TypeOK
    <2>4. settlement[n] # "SETTLED" /\ \A x \in Runs : x.row = n => ~OpenRun(x)
      BY <1>3, <2>1 DEF RowsInStep, RunsInStep
    <2>5. RunsInStep'
      BY <1>3, <2>2, <2>3, <2>4 DEF RunsInStep, OpenRun, Runs
    <2>6. RowsInStep'
      <3>1. \A q \in Reqs : ~Settling(q) /\ ~Blocking(q)
        BY <1>3, <1>4, <2>2 DEF SessionInStep, At
      <3>2. QED
        BY <1>3, <2>2, <2>3, <3>1 DEF RowsInStep, InSettlement, RunsOf, Blocking
    <2>7. SessionInStep(h)'
      BY <2>2, <2>3, <2>4 DEF SessionInStep, At, OpenRun
    <2>8. QED
      BY <2>5, <2>6, <2>7
  <1>8. CASE CommitLines(h)
    <2>1. /\ At(h, "saving") /\ UNCHANGED <<status, outcome>>
          /\ lines' = [lines EXCEPT ![r] = (@ \ session[h].seen) \cup {filed'}]
          /\ total' = [total EXCEPT ![r] = filed']
          /\ settlement' = [settlement EXCEPT ![r] = "PENDING_APPROVAL"]
          /\ session' = [session EXCEPT ![h] = [pc |-> "saved", row |-> r, seen |-> {}]]
      BY <1>8 DEF CommitLines, Goto, chains
    <2>2. r \in Reqs /\ Filable(r) /\ session[h].seen = lines[r]
      BY <1>3, <2>1 DEF SessionInStep
    <2>3. /\ lines'[r] = {filed'} /\ total'[r] = filed' /\ settlement'[r] = "PENDING_APPROVAL"
          /\ session'[h] = [pc |-> "saved", row |-> r, seen |-> {}]
          /\ \A q \in Reqs : q # r => /\ lines'[q] = lines[q] /\ total'[q] = total[q]
                                       /\ settlement'[q] = settlement[q]
      BY <2>1, <2>2 DEF TypeOK
    <2>4. \A x \in Runs : x.row = r => ~OpenRun(x)
      BY <1>3, <2>2 DEF RunsInStep, Filable
    <2>5. RunsInStep'
      BY <1>3, <2>1, <2>3, <2>4 DEF RunsInStep, OpenRun, Runs
    <2>6. RowsInStep'
      <3>1. \A q \in Reqs : Settling(q)' <=> q = r
        BY <1>5, <2>3
      <3>2. \A q \in Reqs : ~Settling(q)
        BY <1>4, <2>1 DEF At
      <3>3. \A q \in Reqs : Blocking(q)' <=> Blocking(q)
        BY <2>1, <2>2, <2>3 DEF Blocking, Filable
      <3>4. \A q \in Reqs : InSettlement(q)' <=> InSettlement(q)
        BY <2>1 DEF InSettlement, RunsOf
      <3>5. QED
        BY <1>3, <2>1, <2>2, <2>3, <3>1, <3>2, <3>3, <3>4 DEF RowsInStep, Filable
    <2>7. SessionInStep(h)'
      BY <2>1, <2>2, <2>3, <2>4 DEF SessionInStep, At, Filable, InSettlement, RunsOf, OpenRun
    <2>8. QED
      BY <2>5, <2>6, <2>7
  <1>9. CASE StartCreated(h)
    <2>1. /\ At(h, "created") /\ Start(r, "petty_cash") /\ session'[h] = Idle
          /\ UNCHANGED <<status, settlement, lines, total>>
      BY <1>9 DEF StartCreated, CanStart, InStep, Goto, Idle, TypeOK, row, expenses
    <2>2. /\ r \in Reqs /\ status[r] \in {"PENDING", "deleted"} /\ settlement[r] # "SETTLED"
          /\ \A x \in Runs : x.row = r => ~OpenRun(x)
      BY <1>3, <2>1 DEF SessionInStep
    <2>3. ~ActiveRun(r, "petty_cash")
      BY <2>2 DEF ActiveRun, RunsOf, OpenRun
    <2>4. PICK x \in RunsOf(r, "petty_cash") : \A y \in Runs : OpenRun(y)' <=> OpenRun(y) \/ y = x
      BY <2>1, <2>3, StartOpens DEF InStep
    <2>5. x \in Runs /\ x.row = r /\ x.kind = "petty_cash"
      BY DEF RunsOf
    <2>6. RunsInStep'
      BY <1>3, <2>1, <2>2, <2>4, <2>5 DEF RunsInStep
    <2>7. \A q \in Reqs : InSettlement(q) => InSettlement(q)'
      BY <2>4 DEF InSettlement, RunsOf, OpenRun
    <2>8. RowsInStep'
      <3>1. \A q \in Reqs : ~Settling(q)
        BY <1>4, <2>1 DEF At
      <3>2. QED
        BY <1>3, <2>1, <2>7, <3>1 DEF RowsInStep, Blocking
    <2>9. SessionInStep(h)'
      BY <2>1 DEF SessionInStep, At, Idle
    <2>10. QED
      BY <2>6, <2>8, <2>9
  <1>10. CASE StartSettlement(h)
    <2>1. /\ At(h, "checked") /\ Start(r, "petty_cash_settlement") /\ session'[h] = Idle
          /\ UNCHANGED <<status, settlement, lines, total>>
      BY <1>10 DEF StartSettlement, CanStart, InStep, Goto, Idle, TypeOK, row, expenses
    <2>2. r \in Reqs /\ status[r] = "APPROVED" /\ settlement[r] = "PENDING_APPROVAL" /\ ~InSettlement(r)
      BY <1>3, <2>1 DEF SessionInStep
    <2>3. ~ActiveRun(r, "petty_cash_settlement")
      BY <2>2 DEF ActiveRun, InSettlement
    <2>4. PICK x \in RunsOf(r, "petty_cash_settlement") :
             \A y \in Runs : OpenRun(y)' <=> OpenRun(y) \/ y = x
      BY <2>1, <2>3, StartOpens DEF InStep
    <2>5. x \in Runs /\ x.row = r /\ x.kind = "petty_cash_settlement"
      BY DEF RunsOf
    <2>6. \A y \in Runs : y.row = r /\ y.kind = "petty_cash_settlement" => ~OpenRun(y)
      BY <2>2 DEF InSettlement, RunsOf, OpenRun
    <2>7. RunsInStep'
      <3>1. \A y \in Runs : OpenRun(y)' /\ y # x => OpenRun(y)
        BY <2>4
      <3>2. \A y \in Runs : OpenRun(y)' /\ y.row = r /\ y.kind = "petty_cash_settlement" => y = x
        BY <2>4, <2>6
      <3>3. QED
        BY <1>3, <2>1, <2>2, <2>5, <3>1, <3>2 DEF RunsInStep
    <2>8. \A q \in Reqs : q = r \/ InSettlement(q) => InSettlement(q)'
      <3>1. OpenRun(x)' /\ \A y \in Runs : OpenRun(y) => OpenRun(y)'
        BY <2>4, <2>5
      <3>2. \A q \in Reqs : InSettlement(q) <=>
              \E y \in Runs : OpenRun(y) /\ y.row = q /\ y.kind = "petty_cash_settlement"
        BY DEF InSettlement, RunsOf, OpenRun
      <3>3. \A q \in Reqs : InSettlement(q)' <=>
              \E y \in Runs : OpenRun(y)' /\ y.row = q /\ y.kind = "petty_cash_settlement"
        BY DEF InSettlement, RunsOf, OpenRun
      <3>4. QED
        BY <2>2, <2>5, <3>1, <3>2, <3>3
    <2>9. RowsInStep'
      BY <1>3, <1>4, <2>1, <2>8 DEF RowsInStep, Blocking
    <2>10. SessionInStep(h)'
      BY <2>1 DEF SessionInStep, At, Idle
    <2>11. QED
      BY <2>7, <2>9, <2>10
  <1>11. QED
    BY <1>6, <1>7, <1>8, <1>9, <1>10 DEF Handler, Crash, Calm

(* A row is only deleted while nobody settles it.                           *)
LEMMA DeletionKeepsInStep ==
    ASSUME TypeOK, ChainsOK, InStep, NEW r \in Reqs, Delete(r)
    PROVE  InStep'
  <1>1. /\ status[r] = "PENDING" /\ UNCHANGED <<settlement, total, queue, session, staffed>>
        /\ \A x \in Runs : x.row = r => ~OpenRun(x)'
        /\ \A x \in Runs : x.row # r => (OpenRun(x)' <=> OpenRun(x))
    BY DEF Delete, Chain!Cancel, OpenRun
  <1>2. /\ status'[r] = "deleted" /\ lines'[r] = {}
        /\ \A q \in Reqs : q # r => status'[q] = status[q] /\ lines'[q] = lines[q]
    BY DEF Delete, TypeOK
  <1>3. RunsInStep'
    BY <1>1, <1>2 DEF InStep, RunsInStep, Runs
  <1>4. \A q \in Reqs : q # r => (InSettlement(q)' <=> InSettlement(q))
    BY <1>1 DEF InSettlement, RunsOf, OpenRun
  <1>5. ~InSettlement(r) /\ ~Settling(r)
    BY <1>1 DEF InStep, RunsInStep, SessionInStep, InSettlement, Settling, RunsOf, OpenRun, At
  <1>6. \A q \in Reqs : Settling(q)' <=> Settling(q)
    BY <1>1 DEF Settling
  <1>7. \A q \in Reqs : Blocking(q)' => Blocking(q)
    BY <1>1, <1>2 DEF Blocking
  <1>8. RowsInStep'
    BY <1>1, <1>2, <1>4, <1>5, <1>6, <1>7 DEF InStep, RowsInStep
  <1>9. ASSUME NEW h \in Sessions
        PROVE  SessionInStep(h)'
    <2>1. SessionInStep(h)
      BY DEF InStep
    <2>2. CASE session[h].row = r
      <3>1. ~At(h, "saving") /\ ~At(h, "saved") /\ ~At(h, "checked")
        BY <1>1, <2>1, <2>2 DEF SessionInStep, Filable
      <3>2. QED
        BY <1>1, <1>2, <1>7, <2>1, <2>2, <3>1 DEF SessionInStep, At
    <2>3. CASE session[h].row # r
      BY <1>1, <1>2, <1>4, <1>7, <2>1, <2>3 DEF SessionInStep, At, Filable
    <2>4. QED
      BY <2>2, <2>3
  <1>10. QED
    BY <1>1, <1>3, <1>8, <1>9 DEF InStep, ServedAlone, At

(* In the calm the invariant holds throughout.                              *)
THEOREM CalmInvariant == Spec => []CalmInv
  <1>1. Init => (Calm => InStep)
    BY DEF Init, Idle, InStep, ServedAlone, RunsInStep, RowsInStep, SessionInStep, OpenRun, At,
           Blocking
  <1>2. CalmInv /\ [Next]_vars => (Calm => InStep)'
    <2> SUFFICES ASSUME TypeOK, ChainsOK, Calm => InStep, [Next]_vars, Calm'
                 PROVE  InStep'
      BY DEF CalmInv
    <2>1. Calm /\ InStep
      BY NextMovesChains DEF Calm, TypeOK
    <2>2. CASE UNCHANGED vars
      BY <2>1, <2>2
         DEF vars, row, expenses, chains, InStep, ServedAlone, RunsInStep, RowsInStep,
             SessionInStep, OpenRun, At, InSettlement, Settling, RunsOf, Blocking, Filable
    <2>3. ~Restaff /\ \A m \in queue : ~Consume(m)
      BY <2>1 DEF Restaff, Calm, InStep
    <2>4. QED
      BY <2>1, <2>2, <2>3, DecisionsKeepInStep, HandlersKeepInStep, DeletionKeepsInStep DEF Next
  <1>3. TypeOK /\ ChainsOK /\ (Calm => InStep) <=> CalmInv
    BY DEF CalmInv
  <1>4. QED
    BY <1>1, <1>2, <1>3, PettyCashTypeOK, PTL DEF Spec

(* What the employee is told of one petty cash after the other is so, in the *)
(* calm: one is open at a time, expenses under approval are with somebody,  *)
(* and the total is that of the stored lines.                               *)
THEOREM PettyCashToldInTheCalm == Spec => []ToldInTheCalm
  <1>1. CalmInv => ToldInTheCalm
    <2> SUFFICES ASSUME TypeOK, Calm, InStep PROVE ToldInTheCalm
      BY DEF CalmInv, ToldInTheCalm, OneOpenRequest, UnderApprovalHasRun, TotalIsOfLines
    <2>1. OneOpenRequest
      BY DEF OneOpenRequest, InStep, RowsInStep, Blocking
    <2>2. UnderApprovalHasRun
      BY DEF UnderApprovalHasRun, InStep, RowsInStep, Settling
    <2>3. TotalIsOfLines
      BY DEF TotalIsOfLines, InStep, RowsInStep
    <2>4. QED
      BY <2>1, <2>2, <2>3 DEF ToldInTheCalm
  <1>2. QED
    BY <1>1, CalmInvariant, PTL

(* A settled petty cash stays settled, and those who approve its expenses   *)
(* approve the same lines, in the calm.                                     *)
THEOREM PettyCashKeptInTheCalm == Spec => KeptInTheCalm
  <1> DEFINE Keeps == \A r \in Reqs :
                /\ settlement[r] = "SETTLED" => settlement'[r] = "SETTLED"
                /\ InSettlement(r) => lines'[r] = lines[r]
  <1>1. CalmInv /\ [Next]_vars => [Calm => Keeps]_vars
    <2> SUFFICES ASSUME TypeOK, ChainsOK, Calm, InStep, Next PROVE Keeps
      BY DEF CalmInv
    <2>1. ASSUME NEW x \in Runs, Approve(x) \/ Reject(x)
          PROVE  Keeps
      <3>1. OpenRun(x) /\ UNCHANGED lines
        BY <2>1, DecisionInTheCalm
      <3>2. UNCHANGED row \/ \E verdict \in {"approved", "rejected"} : RowHears(x, verdict)
        BY <2>1, DecisionInTheCalm
      <3>3. CASE UNCHANGED row
        BY <3>1, <3>3 DEF row
      <3>4. ASSUME NEW verdict \in {"approved", "rejected"}, RowHears(x, verdict)
            PROVE  Keeps
        BY <3>1, <3>4, RowHearsInTheCalm DEF InStep, Blocking
      <3>5. QED
        BY <3>2, <3>3, <3>4
    <2>2. ASSUME NEW h \in Sessions, Handler(h)
          PROVE  Keeps
      <3>1. CASE CommitLines(h)
        <4>1. session[h].row \in Reqs /\ Filable(session[h].row)
          BY <3>1 DEF CommitLines, InStep, SessionInStep
        <4>2. ~InSettlement(session[h].row)
          BY <4>1 DEF InStep, RunsInStep, InSettlement, RunsOf, OpenRun, Filable
        <4>3. QED
          BY <3>1, <4>1, <4>2 DEF CommitLines, Filable, TypeOK
      <3>2. CASE UNCHANGED <<settlement, lines>>
        BY <3>2
      <3>3. QED
        BY <2>2, <3>1, <3>2
           DEF Handler, BeginCreate, CommitCreate, StartCreated, BeginFiling, CheckReady,
               StartSettlement, CanStart, Crash, Calm, InStep, row, expenses
    <2>3. ASSUME NEW r \in Reqs, Delete(r)
          PROVE  Keeps
      <3>1. ~InSettlement(r)
        BY <2>3 DEF Delete, InStep, RunsInStep, InSettlement, RunsOf, OpenRun
      <3>2. QED
        BY <2>3, <3>1 DEF Delete, TypeOK
    <2>4. ~Restaff /\ \A m \in queue : ~Consume(m)
      BY DEF Restaff, Calm, InStep
    <2>5. QED
      BY <2>1, <2>2, <2>3, <2>4 DEF Next
  <1>2. QED
    BY <1>1, CalmInvariant, PTL DEF Spec, KeptInTheCalm
=============================================================================
