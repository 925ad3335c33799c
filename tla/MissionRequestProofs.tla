------------------------ MODULE MissionRequestProofs ------------------------
(***************************************************************************)
(* Proofs about MissionRequest for every number of steps, instances, reports *)
(* and concurrent requests.  Two invariants are needed: one for any          *)
(* surroundings, of what the events in the queue and the requests under way  *)
(* still say truly, and one for the calm, of what the mission's status tells *)
(* of its chains at every point of a request.                                *)
(***************************************************************************)
EXTENDS MissionRequest, TLAPS

-----------------------------------------------------------------------------
(* The chains.                                                              *)

(* An approved instance has a step that stands approved, which is what      *)
(* keeps the mission from being deleted.                                    *)
ChainsOK ==
    /\ outcome \in [Runs -> Chain!Outcomes]
    /\ todo \in [Runs -> SUBSET Steps] /\ passed \in [Runs -> SUBSET Steps]
    /\ \A x \in Runs : outcome[x] = "approved" => passed[x] # {}

(* What the handlers do to the chains, a step at most.                      *)
ChainMoves ==
    \/ \E x \in Runs : Chain!Open(x, 1..setting.steps) \/ Chain!Advance(x) \/ Chain!SendBack(x)
    \/ \E R \in SUBSET Runs : Chain!Cancel(R)
    \/ UNCHANGED chains

(* The surroundings are of their type, and the steps in use are steps.      *)
LEMMA SettingFacts ==
    ASSUME setting \in Settings
    PROVE  setting \in Setting /\ 1..setting.steps \subseteq Steps
  <1>1. setting \in Setting
    BY MissionAssumption
  <1>2. setting.steps \in Steps
    BY <1>1 DEF Setting
  <1>3. QED
    BY <1>1, <1>2, MissionAssumption DEF Steps

(* The chains keep their types, and an approved instance stays approved.    *)
LEMMA ChainsKept ==
    ASSUME ChainsOK, setting \in Settings, ChainMoves
    PROVE  ChainsOK' /\ \A x \in Runs : outcome[x] = "approved" => outcome'[x] = "approved"
  <1>1. 1..setting.steps \in SUBSET Steps
    BY SettingFacts
  <1>2. ASSUME NEW x \in Runs, Chain!Open(x, 1..setting.steps)
        PROVE  ChainsOK' /\ \A y \in Runs : outcome[y] = "approved" => outcome'[y] = "approved"
    BY <1>1, <1>2 DEF Chain!Open, ChainsOK, Chain!Outcomes
  <1>3. ASSUME NEW x \in Runs, Chain!Advance(x)
        PROVE  ChainsOK' /\ \A y \in Runs : outcome[y] = "approved" => outcome'[y] = "approved"
    <2>1. PICK done \in SUBSET todo[x] :
            /\ done # {}
            /\ outcome' = IF todo[x] = done THEN [outcome EXCEPT ![x] = "approved"] ELSE outcome
            /\ todo' = [todo EXCEPT ![x] = @ \ done]
            /\ passed' = [passed EXCEPT ![x] = @ \cup done]
      BY <1>3 DEF Chain!Advance
    <2>2. done \in SUBSET Steps /\ todo[x] \ done \in SUBSET Steps
          /\ passed[x] \cup done \in SUBSET Steps /\ passed[x] \cup done # {}
      BY <2>1 DEF ChainsOK
    <2>3. outcome' \in [Runs -> Chain!Outcomes]
      BY <2>1 DEF ChainsOK, Chain!Outcomes
    <2>4. todo' \in [Runs -> SUBSET Steps] /\ passed' \in [Runs -> SUBSET Steps]
      BY <2>1, <2>2 DEF ChainsOK
    <2>5. \A y \in Runs : outcome[y] = "approved" => outcome'[y] = "approved"
      BY <2>1 DEF ChainsOK
    <2>6. \A y \in Runs : outcome'[y] = "approved" => passed'[y] # {}
      BY <2>1, <2>2 DEF ChainsOK
    <2>7. QED
      BY <2>3, <2>4, <2>5, <2>6 DEF ChainsOK
  <1>4. ASSUME NEW x \in Runs, Chain!SendBack(x)
        PROVE  ChainsOK' /\ \A y \in Runs : outcome[y] = "approved" => outcome'[y] = "approved"
    <2>1. PICK s \in todo[x] :
            /\ outcome' = [outcome EXCEPT ![x] = IF Chain!Before(x, s) = {} THEN "returned" ELSE "open"]
            /\ todo' = [todo EXCEPT ![x] = (@ \ {s}) \cup Chain!Before(x, s)]
            /\ passed' = [passed EXCEPT ![x] = @ \ Chain!Before(x, s)]
      BY <1>4 DEF Chain!SendBack
    <2>2. outcome[x] \in {"open", "returned"}
      BY <1>4 DEF Chain!SendBack
    <2>3. Chain!Before(x, s) \subseteq Steps
      BY <1>1 DEF Chain!Before
    <2> DEFINE before == Chain!Before(x, s)
    <2>4. /\ (todo[x] \ {s}) \cup before \in SUBSET Steps
          /\ passed[x] \ before \in SUBSET Steps
      BY <2>3 DEF ChainsOK
    <2> HIDE DEF before
    <2>5. outcome' \in [Runs -> Chain!Outcomes]
      BY <2>1 DEF ChainsOK, Chain!Outcomes
    <2>6. todo' \in [Runs -> SUBSET Steps] /\ passed' \in [Runs -> SUBSET Steps]
      BY <2>1, <2>4 DEF ChainsOK, before
    <2>7. \A y \in Runs : outcome[y] = "approved" => outcome'[y] = "approved"
      BY <2>1, <2>2 DEF ChainsOK
    <2>8. \A y \in Runs : outcome'[y] = "approved" => passed'[y] # {}
      BY <2>1, <2>2 DEF ChainsOK
    <2>9. QED
      BY <2>5, <2>6, <2>7, <2>8 DEF ChainsOK
  <1>5. ASSUME NEW R \in SUBSET Runs, Chain!Cancel(R)
        PROVE  ChainsOK' /\ \A y \in Runs : outcome[y] = "approved" => outcome'[y] = "approved"
    BY <1>5 DEF Chain!Cancel, ChainsOK, Chain!Outcomes
  <1>6. CASE UNCHANGED chains
    BY <1>6 DEF chains, ChainsOK
  <1>7. QED
    BY <1>2, <1>3, <1>4, <1>5, <1>6 DEF ChainMoves

(* An instance that was begun stays begun, whatever becomes of it.          *)
LEMMA BegunStays ==
    ASSUME ChainsOK, ChainMoves
    PROVE  \A x \in Runs : outcome[x] # "none" => outcome'[x] # "none"
  <1>1. ASSUME NEW x \in Runs, Chain!Open(x, 1..setting.steps) \/ Chain!Advance(x) \/ Chain!SendBack(x)
        PROVE  \A y \in Runs : outcome[y] # "none" => outcome'[y] # "none"
    <2>1. \/ \E v \in Chain!Outcomes \ {"none"} : outcome' = [outcome EXCEPT ![x] = v]
          \/ outcome' = outcome
      BY <1>1 DEF Chain!Open, Chain!Advance, Chain!SendBack, Chain!Outcomes
    <2>2. QED
      BY <2>1 DEF ChainsOK
  <1>2. ASSUME NEW R \in SUBSET Runs, Chain!Cancel(R)
        PROVE  \A y \in Runs : outcome[y] # "none" => outcome'[y] # "none"
    BY <1>2 DEF Chain!Cancel
  <1>3. QED
    BY <1>1, <1>2 DEF ChainMoves, chains

(* Beginning a chain is a step of its lifecycle, or none.                   *)
LEMMA StartMovesChains ==
    ASSUME NEW kind, Start(kind)
    PROVE  ChainMoves
  BY DEF Start, ChainMoves, RunsOf

(* Every action moves the chains by one step of the lifecycle at most, and  *)
(* none changes the surroundings.                                           *)
LEMMA NextMovesChains ==
    ASSUME queue \subseteq Messages, [Next]_vars
    PROVE  ChainMoves /\ UNCHANGED setting
  <1>1. ASSUME NEW x \in Runs, Approve(x) \/ Reject(x)
        PROVE  ChainMoves /\ UNCHANGED setting
    BY <1>1 DEF Approve, Reject, ChainMoves
  <1>2. ASSUME NEW m \in queue, Consume(m)
        PROVE  ChainMoves /\ UNCHANGED setting
    <2>1. UNCHANGED chains \/ Start(m.kind)
      BY <1>2 DEF Consume, Messages
    <2>2. QED
      BY <1>2, <2>1, StartMovesChains DEF Consume, ChainMoves
  <1>3. ASSUME NEW h \in Sessions, Handler(h)
        PROVE  ChainMoves /\ UNCHANGED setting
    BY <1>3, StartMovesChains
       DEF Handler, BeginCreate, CommitCreate, StartCreated, BeginReport, CommitReport,
           CheckReady, StartReport, Crash, ChainMoves
  <1>4. CASE Delete
    BY <1>4 DEF Delete, ChainMoves
  <1>5. CASE Restaff
    BY <1>5 DEF Restaff, ChainMoves
  <1>6. CASE UNCHANGED vars
    BY <1>6 DEF vars, ChainMoves
  <1>7. QED
    BY <1>1, <1>2, <1>3, <1>4, <1>5, <1>6 DEF Next

-----------------------------------------------------------------------------
(* Types.                                                                   *)

Statuses == {"absent", "PENDING", "APPROVED", "REJECTED",
             "REPORT_PENDING_APPROVAL", "COMPLETED", "deleted"}

(* The events the handlers publish are of the queue's type.                 *)
LEMMA MessageTypes ==
    /\ \A kind \in Kinds : [event |-> "workflow.start", kind |-> kind] \in Messages
    /\ \A x \in Runs, event \in {"workflow.approved", "workflow.rejected"} :
          [event |-> event, run |-> x] \in Messages
  BY DEF Messages

(* Whatever a bridge is told of, the status it sets is one of the row's.    *)
LEMMA RowHearsType ==
    ASSUME TypeOK, NEW x, NEW verdict, RowHears(x, verdict)
    PROVE  status' \in Statuses /\ UNCHANGED <<report, filed>>
  BY DEF RowHears, StatusOn, MissionVerdict, ReportVerdict, TypeOK, Statuses

(* The parts of TypeOK that do not follow from the chains keeping theirs.   *)
RowOK ==
    /\ status \in Statuses
    /\ filed \in 0..MaxReport /\ report \in 0..filed
    /\ queue \subseteq Messages
    /\ session \in [Sessions -> {"idle", "creating", "created", "filing", "filed", "checked"}]
    /\ staffed \in BOOLEAN

(* Every handler keeps the columns inside their domains.                    *)
THEOREM MissionTypeOK == Spec => [](TypeOK /\ ChainsOK)
  <1>1. Init => TypeOK /\ ChainsOK
    <2> SUFFICES ASSUME Init PROVE TypeOK /\ ChainsOK
      OBVIOUS
    <2>1. ChainsOK
      BY DEF Init, Chain!Init, ChainsOK, Chain!Outcomes
    <2>2. QED
      BY <2>1, MissionAssumption DEF Init, ChainsOK, TypeOK
  <1>2. TypeOK /\ ChainsOK /\ [Next]_vars => TypeOK' /\ ChainsOK'
    <2> SUFFICES ASSUME TypeOK, ChainsOK, [Next]_vars PROVE RowOK'
      BY NextMovesChains, ChainsKept DEF TypeOK, RowOK, ChainsOK, Statuses
    <2>1. RowOK
      BY DEF TypeOK, RowOK, Statuses
    <2>2. ASSUME NEW x \in Runs, Approve(x) \/ Reject(x)
          PROVE  RowOK'
      <3>1. queue' \subseteq Messages
        <4>1. \E m \in Messages : queue' \subseteq queue \cup {m}
          BY <2>2, MessageTypes DEF Approve, Reject, Publish
        <4>2. QED
          BY <2>1, <4>1 DEF RowOK
      <3>2. status' \in Statuses /\ UNCHANGED <<report, filed>>
        <4>1. UNCHANGED row \/ \E verdict : RowHears(x, verdict)
          BY <2>2 DEF Approve, Reject
        <4>2. QED
          BY <2>1, <4>1, RowHearsType DEF RowOK, row
      <3>3. UNCHANGED <<session, staffed>>
        BY <2>2 DEF Approve, Reject
      <3>4. QED
        BY <2>1, <3>1, <3>2, <3>3 DEF RowOK
    <2>3. ASSUME NEW m \in queue, Consume(m)
          PROVE  RowOK'
      <3>1. queue' \subseteq Messages
        BY <2>1, <2>3 DEF Consume, RowOK
      <3>2. status' \in Statuses /\ UNCHANGED <<report, filed>>
        BY <2>1, <2>3, RowHearsType DEF Consume, RowOK, Messages, row
      <3>3. UNCHANGED <<session, staffed>>
        BY <2>3 DEF Consume
      <3>4. QED
        BY <2>1, <3>1, <3>2, <3>3 DEF RowOK
    <2>4. ASSUME NEW h \in Sessions, Handler(h)
          PROVE  RowOK'
      <3>1. queue' \subseteq Messages
        BY <2>1, <2>4, MessageTypes
           DEF Handler, BeginCreate, CommitCreate, StartCreated, BeginReport, CommitReport,
               CheckReady, StartReport, Crash, Publish, RowOK, Kinds
      <3>2. session' \in [Sessions -> {"idle", "creating", "created", "filing", "filed", "checked"}]
            /\ UNCHANGED staffed
        BY <2>1, <2>4
           DEF Handler, BeginCreate, CommitCreate, StartCreated, BeginReport, CommitReport,
               CheckReady, StartReport, Crash, Goto, RowOK
      <3>3. status' \in Statuses /\ filed' \in 0..MaxReport /\ report' \in 0..filed'
        BY <2>1, <2>4, MissionAssumption
           DEF Handler, BeginCreate, CommitCreate, StartCreated, BeginReport, CommitReport,
               CheckReady, StartReport, Crash, row, RowOK, Statuses
      <3>4. QED
        BY <2>1, <3>1, <3>2, <3>3 DEF RowOK
    <2>5. CASE Delete
      BY <2>1, <2>5 DEF Delete, RowOK, Statuses
    <2>6. CASE Restaff \/ UNCHANGED vars
      BY <2>1, <2>6 DEF Restaff, vars, row, RowOK
    <2>7. QED
      BY <2>2, <2>3, <2>4, <2>5, <2>6 DEF Next
  <1>3. QED
    BY <1>1, <1>2, PTL DEF Spec

-----------------------------------------------------------------------------
(* Whatever happens.                                                        *)

(* What an event said when it was published is so when it is delivered, and *)
(* when it is delivered again.                                              *)
EventsTrue ==
    \A m \in queue :
        /\ m.event = "workflow.start" /\ m.kind = "mission_report" => report # 0
        /\ m.event # "workflow.start" => outcome[m.run] # "none"
        /\ m.event = "workflow.approved" => outcome[m.run] = "approved"

(* A request under way stands on what its earlier transactions found.       *)
SessionsTrue ==
    \A h \in Sessions :
        /\ session[h] \in {"filing", "filed", "checked"} => Approved("mission_request")
        /\ session[h] \in {"filed", "checked"} => report # 0

(* The chain of the report is only begun for a report.                      *)
ReportsFiled ==
    \A x \in Runs : x.kind = "mission_report" /\ outcome[x] # "none" => report # 0

(* NothingUnapproved, without the types.                                    *)
StatusEarned ==
    /\ status \in {"APPROVED", "REPORT_PENDING_APPROVAL", "COMPLETED"} \/ report # 0
         => Approved("mission_request")
    /\ status = "COMPLETED" => report # 0 /\ Approved("mission_report")

EarnedInv == TypeOK /\ ChainsOK /\ EventsTrue /\ SessionsTrue /\ ReportsFiled /\ StatusEarned
EarnedKept == EventsTrue /\ SessionsTrue /\ ReportsFiled /\ StatusEarned

(* Nothing of what the invariant relies on is taken back: approvals, begun  *)
(* instances, a filed report.                                               *)
NothingTakenBack ==
    /\ \A x \in Runs : outcome[x] = "approved" => outcome'[x] = "approved"
    /\ \A x \in Runs : outcome[x] # "none" => outcome'[x] # "none"
    /\ \A kind \in Kinds : Approved(kind) => Approved(kind)'
    /\ report # 0 => report' # 0

(* No action takes back a chain, an approval or a report.                   *)
LEMMA StepTakesNothingBack ==
    ASSUME TypeOK, ChainsOK, [Next]_vars
    PROVE  NothingTakenBack
  <1>1. ChainMoves
    BY NextMovesChains DEF TypeOK
  <1>2. /\ \A x \in Runs : outcome[x] = "approved" => outcome'[x] = "approved"
        /\ \A x \in Runs : outcome[x] # "none" => outcome'[x] # "none"
    BY <1>1, ChainsKept, BegunStays DEF TypeOK
  <1>3. \A kind \in Kinds : Approved(kind) => Approved(kind)'
    BY <1>2 DEF Approved, RunsOf
  <1>4. report # 0 => report' # 0
    <2>1. ASSUME NEW h \in Sessions, Handler(h)
          PROVE  report' \in {report, filed + 1}
      BY <2>1 DEF Handler, BeginCreate, CommitCreate, StartCreated, BeginReport, CommitReport,
                  CheckReady, StartReport, Crash, row
    <2>2. ASSUME NEW x \in Runs, Approve(x) \/ Reject(x)
          PROVE  report' = report
      BY <2>2 DEF Approve, Reject, RowHears, row
    <2>3. ASSUME NEW m \in queue, Consume(m)
          PROVE  report' = report
      BY <2>3 DEF Consume, RowHears, row, TypeOK, Messages
    <2>4. CASE Delete \/ Restaff \/ UNCHANGED vars
      BY <2>4 DEF Delete, Restaff, row, vars
    <2>5. QED
      BY <2>1, <2>2, <2>3, <2>4 DEF Next, TypeOK
  <1>5. QED
    BY <1>2, <1>3, <1>4 DEF NothingTakenBack

(* Events stay true, whichever are acknowledged and whichever are added.    *)
LEMMA EventsStayTrue ==
    ASSUME TypeOK, EventsTrue, NothingTakenBack, NEW m \in Messages,
           queue' \subseteq queue \cup {m},
           m.event = "workflow.start" /\ m.kind = "mission_report" => report' # 0,
           m.event # "workflow.start" => outcome'[m.run] # "none",
           m.event = "workflow.approved" => outcome'[m.run] = "approved"
    PROVE  EventsTrue'
  <1>1. \A n \in queue : n.event # "workflow.start" => n.run \in Runs
    BY DEF TypeOK, Messages
  <1>2. QED
    BY <1>1 DEF EventsTrue, NothingTakenBack

(* A step that publishes nothing leaves the messages as true as they were.  *)
LEMMA QuietQueueStaysTrue ==
    ASSUME TypeOK, EventsTrue, NothingTakenBack, queue' \subseteq queue
    PROVE  EventsTrue'
  <1>1. \A n \in queue : n.event # "workflow.start" => n.run \in Runs
    BY DEF TypeOK, Messages
  <1>2. QED
    BY <1>1 DEF EventsTrue, NothingTakenBack

(* A chain that is begun is begun once, of the kind that is asked for.      *)
LEMMA StartBegins ==
    ASSUME ChainsOK, NEW kind, Start(kind)
    PROVE  \A x \in Runs : outcome'[x] # "none" => outcome[x] # "none" \/ x.kind = kind
  BY DEF Start, RunsOf, Chain!Open, ChainsOK, chains

(* What the row is told by a bridge it has earned, whatever it was before.  *)
LEMMA RowHearsEarned ==
    ASSUME StatusEarned, ReportsFiled, NothingTakenBack,
           NEW x \in Runs, NEW verdict \in {"approved", "rejected"}, RowHears(x, verdict),
           outcome[x] # "none", verdict = "approved" => outcome'[x] = "approved"
    PROVE  StatusEarned'
  <1>1. verdict = "approved" => Approved(x.kind)'
    BY DEF Approved, RunsOf
  <1>2. x.kind = "mission_report" => report # 0
    BY DEF ReportsFiled
  <1>3. report' = report /\ status' = StatusOn(x.kind, verdict)
    BY DEF RowHears
  <1>4. CASE x.kind = "mission_request"
    BY <1>1, <1>3, <1>4
       DEF StatusOn, MissionVerdict, StatusEarned, NothingTakenBack, Kinds, Stored
  <1>5. CASE x.kind = "mission_report"
    BY <1>1, <1>2, <1>3, <1>5
       DEF StatusOn, ReportVerdict, StatusEarned, NothingTakenBack, Kinds, Stored
  <1>6. QED
    BY <1>4, <1>5 DEF Runs, Kinds

(* Where the row is not written, what it says stays earned.                 *)
LEMMA QuietRowEarned ==
    ASSUME StatusEarned, NothingTakenBack, UNCHANGED <<status, report>>
    PROVE  StatusEarned'
  BY DEF StatusEarned, NothingTakenBack, Kinds

(* An approver's decision begins no chain.                                  *)
LEMMA DecisionsKeepEarned ==
    ASSUME EarnedInv, NothingTakenBack, NEW x \in Runs, Approve(x) \/ Reject(x)
    PROVE  EarnedKept'
  <1> USE DEF EarnedInv
  <1>1. outcome[x] # "none" /\ \A y \in Runs : outcome'[y] # "none" => outcome[y] # "none"
    BY DEF Approve, Reject, Chain!Advance, Chain!SendBack, ChainsOK
  <1>2. UNCHANGED session /\ UNCHANGED report
    BY DEF Approve, Reject, RowHears, row
  <1>3. SessionsTrue' /\ ReportsFiled'
    BY <1>1, <1>2 DEF SessionsTrue, ReportsFiled, NothingTakenBack, Kinds
  <1>4. CASE Approve(x) /\ outcome'[x] = "approved"
    <2>1. /\ queue' \subseteq queue \cup {[event |-> "workflow.approved", run |-> x]}
          /\ UNCHANGED row \/ RowHears(x, "approved")
      BY <1>4 DEF Approve, Publish
    <2>2. EventsTrue'
      BY <1>4, <2>1, MessageTypes, EventsStayTrue
    <2>3. StatusEarned'
      BY <1>1, <1>4, <2>1, RowHearsEarned, QuietRowEarned DEF row
    <2>4. QED
      BY <1>3, <2>2, <2>3 DEF EarnedKept
  <1>5. CASE Reject(x) /\ outcome'[x] = "returned"
    <2>1. /\ queue' \subseteq queue \cup {[event |-> "workflow.rejected", run |-> x]}
          /\ RowHears(x, "rejected")
      BY <1>5 DEF Reject, Publish
    <2>2. EventsTrue'
      BY <1>5, <2>1, MessageTypes, EventsStayTrue
    <2>3. StatusEarned'
      BY <1>1, <2>1, RowHearsEarned
    <2>4. QED
      BY <1>3, <2>2, <2>3 DEF EarnedKept
  <1>6. CASE UNCHANGED <<row, queue>>
    BY <1>3, <1>6, QuietQueueStaysTrue, QuietRowEarned DEF EarnedKept, row
  <1>7. QED
    BY <1>4, <1>5, <1>6 DEF Approve, Reject

(* However late or often an event arrives, what it says is still so.        *)
LEMMA ConsumeKeepsEarned ==
    ASSUME EarnedInv, NothingTakenBack, NEW m \in queue, Consume(m)
    PROVE  EarnedKept'
  <1> USE DEF EarnedInv
  <1>1. m \in Messages
    BY DEF TypeOK
  <1>2. UNCHANGED session /\ queue' \subseteq queue
    BY DEF Consume
  <1>3. CASE m.event = "workflow.start"
    <2>1. Start(m.kind) /\ UNCHANGED row
      BY <1>3 DEF Consume
    <2>2. ReportsFiled'
      BY <1>3, <2>1, StartBegins DEF ReportsFiled, EventsTrue, row
    <2>3. SessionsTrue'
      BY <1>2 DEF SessionsTrue, NothingTakenBack, Kinds
    <2>4. QED
      BY <1>2, <2>1, <2>2, <2>3, QuietQueueStaysTrue, QuietRowEarned DEF EarnedKept, row
  <1>4. CASE m.event # "workflow.start"
    <2>1. PICK verdict \in {"approved", "rejected"} :
            /\ RowHears(m.run, verdict) /\ UNCHANGED chains
            /\ verdict = "approved" => m.event = "workflow.approved"
      BY <1>1, <1>4 DEF Consume, Messages
    <2>2. m.run \in Runs /\ outcome[m.run] # "none"
      BY <1>1, <1>4 DEF Messages, EventsTrue
    <2>3. verdict = "approved" => outcome'[m.run] = "approved"
      BY <2>1 DEF EventsTrue, chains
    <2>4. StatusEarned'
      BY <2>1, <2>2, <2>3, RowHearsEarned
    <2>5. ReportsFiled' /\ SessionsTrue'
      BY <1>2, <2>1 DEF RowHears, ReportsFiled, SessionsTrue, NothingTakenBack, Kinds, chains
    <2>6. QED
      BY <1>2, <2>4, <2>5, QuietQueueStaysTrue DEF EarnedKept
  <1>5. QED
    BY <1>3, <1>4

(* The employee's requests: a report is stored, and its chain begun, only by *)
(* one that found the mission approved, however long ago.                   *)
LEMMA HandlersKeepEarned ==
    ASSUME EarnedInv, NothingTakenBack, NEW h \in Sessions, Handler(h)
    PROVE  EarnedKept'
  <1> USE DEF EarnedInv
  <1>1. EventsTrue' /\ ReportsFiled'
    <2>1. CASE UNCHANGED <<chains, queue>>
      BY <2>1, QuietQueueStaysTrue DEF ReportsFiled, NothingTakenBack, chains
    <2>2. ASSUME NEW kind \in Kinds, Start(kind), kind = "mission_report" => report' # 0,
                 queue' \subseteq queue \cup {[event |-> "workflow.start", kind |-> kind]}
          PROVE  EventsTrue' /\ ReportsFiled'
      <3>1. EventsTrue'
        BY <2>2, MessageTypes, EventsStayTrue
      <3>2. ReportsFiled'
        BY <2>2, StartBegins DEF ReportsFiled, NothingTakenBack
      <3>3. QED
        BY <3>1, <3>2
    <2>3. CASE StartCreated(h)
      BY <2>1, <2>2, <2>3 DEF StartCreated, Publish, Kinds
    <2>4. CASE StartReport(h)
      BY <2>1, <2>2, <2>4 DEF StartReport, Publish, Kinds, SessionsTrue, row
    <2>5. QED
      BY <2>1, <2>3, <2>4
         DEF Handler, BeginCreate, CommitCreate, BeginReport, CommitReport, CheckReady, Crash
  <1>2. SessionsTrue'
    <2>1. ASSUME NEW g \in Sessions, g # h
          PROVE  session'[g] = session[g]
      BY <2>1 DEF Handler, BeginCreate, CommitCreate, StartCreated, BeginReport, CommitReport,
                  CheckReady, StartReport, Crash, Goto, TypeOK
    <2>2. /\ session'[h] \in {"filing", "filed", "checked"} => Approved("mission_request")
          /\ session'[h] \in {"filed", "checked"} => report' # 0
      <3>1. CASE BeginReport(h)
        BY <3>1 DEF BeginReport, Reportable, Goto, TypeOK, StatusEarned
      <3>2. CASE CommitReport(h)
        BY <3>2 DEF CommitReport, Goto, TypeOK, SessionsTrue
      <3>3. CASE CheckReady(h)
        BY <3>3 DEF CheckReady, Goto, TypeOK, SessionsTrue, row
      <3>4. CASE BeginCreate(h) \/ CommitCreate(h) \/ StartCreated(h) \/ StartReport(h) \/ Crash(h)
        BY <3>4 DEF BeginCreate, CommitCreate, StartCreated, StartReport, Crash, Goto, TypeOK
      <3>5. QED
        BY <3>1, <3>2, <3>3, <3>4 DEF Handler
    <2>3. QED
      BY <2>1, <2>2 DEF SessionsTrue, NothingTakenBack, Kinds
  <1>3. StatusEarned'
    <2>1. CASE CommitCreate(h)
      BY <2>1 DEF CommitCreate, StatusEarned, NothingTakenBack, Kinds
    <2>2. CASE CommitReport(h)
      BY <2>2 DEF CommitReport, StatusEarned, SessionsTrue, NothingTakenBack, Kinds
    <2>3. CASE StartReport(h)
      BY <2>3, QuietRowEarned
         DEF StartReport, StatusEarned, SessionsTrue, NothingTakenBack, Kinds, row
    <2>4. CASE UNCHANGED row
      BY <2>4, QuietRowEarned DEF row
    <2>5. QED
      BY <2>1, <2>2, <2>3, <2>4
         DEF Handler, BeginCreate, StartCreated, BeginReport, CheckReady, Crash
  <1>4. QED
    BY <1>1, <1>2, <1>3 DEF EarnedKept

(* The invariant: at any time, the mission, the requests under way and the  *)
(* events in the queue say of the chains only what the chains bear out.     *)
THEOREM EarnedInvariant == Spec => []EarnedInv
  <1>1. Init => EarnedKept
    BY DEF Init, EarnedKept, EventsTrue, SessionsTrue, ReportsFiled, StatusEarned
  <1>2. EarnedInv /\ [Next]_vars => EarnedKept'
    <2> SUFFICES ASSUME EarnedInv, [Next]_vars PROVE EarnedKept'
      OBVIOUS
    <2>1. NothingTakenBack
      BY StepTakesNothingBack DEF EarnedInv
    <2>2. ASSUME Delete \/ Restaff \/ UNCHANGED vars
          PROVE  EarnedKept'
      <3>1. UNCHANGED <<queue, session, report>> /\ status' \in {status, "deleted"}
        BY <2>2 DEF Delete, Restaff, row, vars
      <3>2. \A x \in Runs : outcome'[x] # "none" => outcome[x] # "none"
        BY <2>2 DEF Delete, Restaff, chains, vars, Chain!Cancel
      <3>3. EventsTrue'
        BY <2>1, <3>1, QuietQueueStaysTrue DEF EarnedInv
      <3>4. SessionsTrue' /\ ReportsFiled' /\ StatusEarned'
        BY <2>1, <3>1, <3>2
           DEF EarnedInv, SessionsTrue, ReportsFiled, StatusEarned, NothingTakenBack, Kinds
      <3>5. QED
        BY <3>3, <3>4 DEF EarnedKept
    <2>3. QED
      BY <2>1, <2>2, DecisionsKeepEarned, ConsumeKeepsEarned, HandlersKeepEarned DEF Next
  <1>3. TypeOK /\ ChainsOK /\ EarnedKept <=> EarnedInv
    BY DEF EarnedInv, EarnedKept
  <1>4. QED
    BY <1>1, <1>2, <1>3, MissionTypeOK, PTL DEF Spec

(* A mission is approved, or reported on, only after its chain approved it, *)
(* and complete only after the report's chain approved a report, whatever   *)
(* the queue delays or repeats, whoever dies and whatever overlaps.         *)
THEOREM MissionNothingUnapproved == Spec => []NothingUnapproved
  <1>1. EarnedInv => NothingUnapproved
    BY DEF EarnedInv, StatusEarned, NothingUnapproved
  <1>2. QED
    BY <1>1, EarnedInvariant, PTL

-----------------------------------------------------------------------------
(* In the calm.                                                             *)

Busy == \E h \in Sessions : session[h] # "idle"

(* One request is under way at a time, and the status says how far it is.   *)
RequestsInStep ==
    /\ \A g, h \in Sessions : session[g] # "idle" /\ session[h] # "idle" => g = h
    /\ \A h \in Sessions :
          /\ session[h] = "creating" => status = "absent"
          /\ session[h] = "created" => status = "PENDING"
          /\ session[h] = "filing" => status = "APPROVED"
          /\ session[h] \in {"filed", "checked"} => status = "REPORT_PENDING_APPROVAL"

NoneBegun(kind) == \A x \in RunsOf(kind) : outcome[x] = "none"

(* The status and the chains, when no request is half done and in the middle *)
(* of one: at most one instance is open, and the status says which.         *)
ChainsInStep ==
    /\ \A x, y \in Runs : outcome[x] = "open" /\ outcome[y] = "open" => x = y
    /\ status = "absent" => NoneBegun("mission_request")
    /\ status \in {"absent", "PENDING", "REJECTED"} => NoneBegun("mission_report")
    /\ status = "deleted" => \A x \in Runs : outcome[x] \in {"none", "cancelled"}
    /\ status = "REJECTED" => \E x \in RunsOf("mission_request") : outcome[x] = "returned"
    /\ Open("mission_request") <=> status = "PENDING" /\ ~Busy
    /\ Open("mission_report") <=> status = "REPORT_PENDING_APPROVAL" /\ ~Busy
    /\ Approved("mission_report") => status = "COMPLETED"

InStep == queue = {} /\ staffed /\ RequestsInStep /\ ChainsInStep
CalmInv == TypeOK /\ ChainsOK /\ (Calm => InStep)

(* Only an open instance is decided, so that the status says which; its end *)
(* reaches the row in the same step.                                        *)
LEMMA DecisionsKeepInStep ==
    ASSUME TypeOK, ChainsOK, Calm, InStep, NEW x \in Runs, Approve(x) \/ Reject(x)
    PROVE  InStep'
  <1>1. outcome[x] = "open"
    BY DEF Approve, Reject, MayDecide, Calm
  <1>2. ~Busy /\ x.kind \in Kinds
        /\ status = IF x.kind = "mission_request" THEN "PENDING" ELSE "REPORT_PENDING_APPROVAL"
    BY <1>1 DEF InStep, ChainsInStep, Open, RunsOf, Runs, Kinds
  <1>3. UNCHANGED <<session, staffed, queue>>
    BY DEF Approve, Reject, Publish, Calm
  <1>4. PICK v \in {"open", "approved", "returned"} :
          /\ outcome' = [outcome EXCEPT ![x] = v]
          /\ v = "open" => UNCHANGED row
          /\ v = "approved" => RowHears(x, "approved")
          /\ v = "returned" => RowHears(x, "rejected")
    <2>1. CASE Approve(x)
      <3>1. \/ outcome' = [outcome EXCEPT ![x] = "approved"]
            \/ outcome' = outcome
        BY <2>1 DEF Approve, Chain!Advance
      <3>2. outcome = [outcome EXCEPT ![x] = "open"]
        BY <1>1 DEF ChainsOK
      <3>3. QED
        BY <1>1, <2>1, <3>1, <3>2 DEF Approve, Calm, ChainsOK
    <2>2. CASE Reject(x)
      <3>1. \/ outcome' = [outcome EXCEPT ![x] = "returned"]
            \/ outcome' = [outcome EXCEPT ![x] = "open"]
        BY <2>2 DEF Reject, Chain!SendBack
      <3>2. QED
        BY <2>2, <3>1 DEF Reject, ChainsOK
    <2>3. QED
      BY <2>1, <2>2
  <1>5. /\ outcome'[x] = v /\ \A y \in Runs : y # x => outcome'[y] = outcome[y]
        /\ \A y \in Runs : y # x => outcome[y] # "open"
    BY <1>1, <1>4 DEF ChainsOK, InStep, ChainsInStep
  <1>6. CASE v = "open"
    <2>1. outcome' = outcome /\ UNCHANGED row
      BY <1>1, <1>4, <1>6 DEF ChainsOK
    <2>2. QED
      BY <1>3, <2>1
         DEF InStep, RequestsInStep, ChainsInStep, Open, Approved, RunsOf, NoneBegun, Busy, row
  <1>7. CASE v \in {"approved", "returned"}
    <2>1. status' = CASE x.kind = "mission_request" /\ v = "approved" -> "APPROVED"
                      [] x.kind = "mission_request" /\ v = "returned" -> "REJECTED"
                      [] x.kind = "mission_report" /\ v = "approved" -> "COMPLETED"
                      [] x.kind = "mission_report" /\ v = "returned" -> "APPROVED"
      BY <1>2, <1>4, <1>7 DEF RowHears, StatusOn, Stored, MissionVerdict, ReportVerdict, Kinds
    <2>2. \A y \in Runs : outcome'[y] # "open"
      BY <1>5, <1>7
    <2>3. RequestsInStep'
      BY <1>2, <1>3 DEF RequestsInStep, Busy
    <2>4. ChainsInStep'
      <3>1. CASE x.kind = "mission_request"
        <4>1. status' \in {"APPROVED", "REJECTED"} /\ (status' = "REJECTED" => v = "returned")
          BY <1>7, <2>1, <3>1
        <4>2. \A y \in RunsOf("mission_report") : outcome'[y] = "none"
          BY <1>2, <1>5, <3>1 DEF InStep, ChainsInStep, NoneBegun, RunsOf
        <4>3. QED
          BY <1>5, <2>2, <3>1, <4>1, <4>2 DEF ChainsInStep, Open, Approved, RunsOf, NoneBegun
      <3>2. CASE x.kind = "mission_report"
        <4>1. status' \in {"APPROVED", "COMPLETED"} /\ (v = "approved" => status' = "COMPLETED")
          BY <1>7, <2>1, <3>2
        <4>2. \A y \in RunsOf("mission_report") : y # x => outcome'[y] # "approved"
          BY <1>2, <1>5, <3>2 DEF InStep, ChainsInStep, Approved, RunsOf
        <4>3. QED
          BY <1>5, <1>7, <2>2, <3>2, <4>1, <4>2
             DEF ChainsInStep, Open, Approved, RunsOf, NoneBegun
      <3>3. QED
        BY <1>2, <3>1, <3>2 DEF Kinds
    <2>5. QED
      BY <1>3, <2>3, <2>4 DEF InStep
  <1>8. QED
    BY <1>6, <1>7

(* A chain that can be begun is begun, and is the only one open.            *)
LEMMA StartOpens ==
    ASSUME ChainsOK, NEW kind \in Kinds, Start(kind), \A y \in Runs : outcome[y] # "open"
    PROVE  \E x \in RunsOf(kind) : /\ outcome[x] = "none" /\ outcome'[x] = "open"
                                   /\ \A y \in Runs : y # x => outcome'[y] = outcome[y]
  BY DEF Start, Open, RunsOf, Chain!Open, ChainsOK

(* The requests: while one is half done nothing else moves, and each of its *)
(* transactions leaves the status that the next one finds.                  *)
LEMMA HandlersKeepInStep ==
    ASSUME TypeOK, ChainsOK, Calm, InStep, NEW h \in Sessions, Handler(h)
    PROVE  InStep'
  <1>1. UNCHANGED <<queue, staffed>>
    BY DEF Handler, BeginCreate, CommitCreate, StartCreated, BeginReport, CommitReport,
           CheckReady, StartReport, Crash, Publish, Calm
  <1>2. /\ \A g \in Sessions : g # h => session[g] = "idle"
        /\ \A g \in Sessions : g # h => session'[g] = session[g]
    BY DEF Handler, BeginCreate, CommitCreate, StartCreated, BeginReport, CommitReport,
           CheckReady, StartReport, Crash, Goto, Served, Alone, TypeOK, Calm, InStep,
           RequestsInStep
  <1>3. Busy <=> session[h] # "idle"
    BY <1>2 DEF Busy
  <1>4. Busy' <=> session'[h] # "idle"
    BY <1>2 DEF Busy
  <1> DEFINE pc == session'[h]
  <1>5. SUFFICES /\ pc = "creating" => status' = "absent"
                 /\ pc = "created" => status' = "PENDING"
                 /\ pc = "filing" => status' = "APPROVED"
                 /\ pc \in {"filed", "checked"} => status' = "REPORT_PENDING_APPROVAL"
                 /\ ChainsInStep'
    BY <1>1, <1>2 DEF InStep, RequestsInStep
  <1>6. CASE BeginCreate(h) \/ BeginReport(h) \/ CheckReady(h)
    <2>1. UNCHANGED <<status, outcome>> /\ pc # "idle"
      BY <1>6 DEF BeginCreate, BeginReport, CheckReady, Goto, TypeOK, InStep, chains, row
    <2>2. /\ pc = "creating" => status = "absent"
          /\ pc = "filing" => status = "APPROVED"
          /\ pc = "checked" => status = "REPORT_PENDING_APPROVAL" /\ session[h] # "idle"
          /\ pc \in {"creating", "filing", "checked"}
      BY <1>6 DEF BeginCreate, BeginReport, CheckReady, Goto, TypeOK, InStep, RequestsInStep, Reportable
    <2>3. ~Open("mission_request") /\ ~Open("mission_report")
      BY <1>3, <2>2 DEF InStep, ChainsInStep
    <2>4. QED
      BY <1>4, <2>1, <2>2, <2>3 DEF InStep, ChainsInStep, Open, Approved, RunsOf, NoneBegun
  <1>7. CASE CommitCreate(h)
    <2>1. status = "absent" /\ status' = "PENDING" /\ pc = "created" /\ UNCHANGED outcome
      BY <1>7 DEF CommitCreate, Goto, TypeOK, InStep, RequestsInStep, chains
    <2>2. QED
      BY <1>4, <2>1 DEF InStep, ChainsInStep, Open, Approved, RunsOf, NoneBegun
  <1>8. CASE CommitReport(h)
    <2>1. status = "APPROVED" /\ status' = "REPORT_PENDING_APPROVAL" /\ pc = "filed" /\ UNCHANGED outcome
      BY <1>8 DEF CommitReport, Goto, TypeOK, InStep, RequestsInStep, chains
    <2>2. QED
      BY <1>4, <2>1 DEF InStep, ChainsInStep, Open, Approved, RunsOf, NoneBegun
  <1>9. ASSUME NEW kind \in Kinds, Start(kind), UNCHANGED status, pc = "idle", session[h] # "idle",
               status = IF kind = "mission_request" THEN "PENDING" ELSE "REPORT_PENDING_APPROVAL"
        PROVE  ChainsInStep'
    <2>1. \A y \in Runs : outcome[y] # "open"
      BY <1>3, <1>9 DEF InStep, ChainsInStep, Open, RunsOf, Runs, Kinds
    <2>2. PICK x \in RunsOf(kind) : /\ outcome'[x] = "open"
                                    /\ \A y \in Runs : y # x => outcome'[y] = outcome[y]
      BY <1>9, <2>1, StartOpens
    <2>3. x \in Runs /\ x.kind = kind
      BY DEF RunsOf
    <2>4. \A k \in Kinds : Open(k)' <=> k = kind
      BY <2>1, <2>2, <2>3 DEF Open, RunsOf
    <2>5. Approved("mission_report")' => Approved("mission_report")
      BY <2>2, <2>3 DEF Approved, RunsOf
    <2>6. status = "PENDING" => NoneBegun("mission_report")'
      BY <1>9, <2>2, <2>3 DEF InStep, ChainsInStep, NoneBegun, RunsOf
    <2>7. \A y, z \in Runs : outcome'[y] = "open" /\ outcome'[z] = "open" => y = z
      BY <2>1, <2>2
    <2>8. QED
      BY <1>4, <1>9, <2>4, <2>5, <2>6, <2>7 DEF InStep, ChainsInStep, Kinds
  <1>10. CASE StartCreated(h)
    <2>1. session[h] = "created" /\ pc = "idle" /\ UNCHANGED status /\ Start("mission_request")
      BY <1>10 DEF StartCreated, CanStart, InStep, Goto, TypeOK, row
    <2>2. QED
      BY <1>9, <2>1 DEF InStep, RequestsInStep, Kinds
  <1>11. CASE StartReport(h)
    <2>1. session[h] = "checked" /\ pc = "idle" /\ UNCHANGED status /\ Start("mission_report")
      BY <1>11 DEF StartReport, CanStart, InStep, Goto, TypeOK, row
    <2>2. QED
      BY <1>9, <2>1 DEF InStep, RequestsInStep, Kinds
  <1>12. QED
    BY <1>6, <1>7, <1>8, <1>10, <1>11 DEF Handler, Crash, Calm

(* In the calm the invariant holds throughout.                              *)
THEOREM CalmInvariant == Spec => []CalmInv
  <1>1. Init => (Calm => InStep)
    BY DEF Init, Chain!Init, InStep, RequestsInStep, ChainsInStep, Open, Approved, RunsOf,
           NoneBegun, Busy
  <1>2. CalmInv /\ [Next]_vars => (Calm => InStep)'
    <2> SUFFICES ASSUME TypeOK, ChainsOK, Calm => InStep, [Next]_vars, Calm'
                 PROVE  InStep'
      BY DEF CalmInv
    <2>1. Calm /\ InStep
      BY NextMovesChains DEF Calm, TypeOK
    <2>2. CASE Delete
      <3>1. status' = "deleted" /\ UNCHANGED <<queue, staffed, session>> /\ ~Busy
        BY <2>1, <2>2 DEF Delete, Alone, Calm, Busy
      <3>2. \A x \in Runs : outcome'[x] \in {"none", "cancelled"}
        BY <2>2 DEF Delete, Chain!Cancel
      <3>3. RequestsInStep' /\ ChainsInStep'
        BY <3>1, <3>2 DEF RequestsInStep, ChainsInStep, Open, Approved, RunsOf, NoneBegun, Busy
      <3>4. QED
        BY <2>1, <3>1, <3>3 DEF InStep
    <2>3. CASE UNCHANGED vars
      BY <2>1, <2>3
         DEF vars, row, chains, InStep, RequestsInStep, ChainsInStep, Open, Approved, RunsOf,
             NoneBegun, Busy
    <2>4. ~Restaff /\ \A m \in queue : ~Consume(m)
      BY <2>1 DEF Restaff, Calm, InStep
    <2>5. QED
      BY <2>1, <2>2, <2>3, <2>4, DecisionsKeepInStep, HandlersKeepInStep DEF Next
  <1>3. TypeOK /\ ChainsOK /\ (Calm => InStep) <=> CalmInv
    BY DEF CalmInv
  <1>4. QED
    BY <1>1, <1>2, <1>3, MissionTypeOK, PTL DEF Spec

(* The status, kept by other transactions than the chains, tells of them    *)
(* what the messages of the code say, and is earned in any surroundings.    *)
THEOREM MissionAlwaysAddsUp == Spec => []MissionAddsUp
  <1>1. CalmInv => StatusTellsTheRun
    BY DEF CalmInv, StatusTellsTheRun, InStep, ChainsInStep, Under, Busy, Open, RunsOf
  <1>2. CalmInv /\ NothingUnapproved => MissionAddsUp
    BY <1>1 DEF MissionAddsUp
  <1>3. QED
    BY <1>2, CalmInvariant, MissionNothingUnapproved, PTL

(* A report that is being approved, and a complete mission, are not written *)
(* any more: what was approved is what was read.                            *)
THEOREM MissionReportFrozen == Spec => ReportFrozen
  <1>1. CalmInv /\ [Next]_vars =>
          [Calm /\ (Open("mission_report") \/ status = "COMPLETED")
             => report' = report /\ (status = "COMPLETED" => status' = status)]_vars
    <2> SUFFICES ASSUME TypeOK, ChainsOK, Calm, InStep, Next,
                        Open("mission_report") \/ status = "COMPLETED"
                 PROVE  report' = report /\ (status = "COMPLETED" => status' = status)
      BY DEF CalmInv
    <2>1. status \in {"REPORT_PENDING_APPROVAL", "COMPLETED"}
      BY DEF InStep, ChainsInStep
    <2>2. ASSUME NEW x \in Runs, Approve(x) \/ Reject(x)
          PROVE  report' = report /\ status # "COMPLETED"
      <3>1. outcome[x] = "open"
        BY <2>2 DEF Approve, Reject, MayDecide, Calm
      <3>2. report' = report
        BY <2>2 DEF Approve, Reject, RowHears, row
      <3>3. QED
        BY <3>1, <3>2 DEF InStep, ChainsInStep, Open, RunsOf, Runs, Kinds
    <2>3. ASSUME NEW h \in Sessions, Handler(h)
          PROVE  report' = report /\ (status = "COMPLETED" => status' = status)
      BY <2>1, <2>3
         DEF Handler, BeginCreate, CommitCreate, StartCreated, BeginReport, CommitReport,
             CheckReady, StartReport, Crash, InStep, RequestsInStep, row
    <2>4. ~Delete /\ ~Restaff /\ \A m \in queue : ~Consume(m)
      BY <2>1 DEF Delete, Deletable, Restaff, Calm, InStep
    <2>5. QED
      BY <2>2, <2>3, <2>4 DEF Next
  <1>2. QED
    BY <1>1, CalmInvariant, PTL DEF Spec, ReportFrozen
=============================================================================
