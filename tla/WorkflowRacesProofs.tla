------------------------ MODULE WorkflowRacesProofs ------------------------
(***************************************************************************)
(* Proofs about WorkflowRaces for every number of concurrent requests and    *)
(* steps, every assignment of them and every set of steps that are never     *)
(* skipped, under each of the loads of MCWorkflowRaces.                      *)
(***************************************************************************)
EXTENDS MCWorkflowRaces, TLAPS

-----------------------------------------------------------------------------
(* Any load.                                                                *)

(* A deletion writes only cancellations.                                    *)
DeletesCancel ==
    \A h \in Sessions : txn[h].op = "delete" =>
        \A o \in Steps : txn[h].mine[o] \in {"cancelled", "untouched"}

(* Every way a transaction goes on.                                         *)
RacesStep(h) ==
    \/ Load(h, "approve") \/ Load(h, "reject")
    \/ Mark(h) \/ SkipNext(h) \/ Look(h)
    \/ CommitApprove(h) \/ CommitReject(h)
    \/ LoadDelete(h) \/ CancelSteps(h) \/ CommitDelete(h)
    \/ Rollback(h)

Txn == [op : {"none", "approve", "reject", "delete"},
        pc : {"idle", "loaded", "marked", "ready"},
        at : Steps \cup {0}, prev : Steps \cup {0}, seen : InstStatus,
        last : BOOLEAN, mine : [Steps -> StepStatus \cup {"untouched"}]]

(* A session with nothing open is in a state of its type.                   *)
LEMMA NoneTyped == None \in Txn
  BY DEF None, Txn, Untouched, InstStatus

(* What a session sees are statuses of steps.                               *)
LEMMA ViewTyped ==
    ASSUME TypeOK, NEW h \in Sessions
    PROVE  View(h) \in [Steps -> StepStatus]
  <1>1. /\ step \in [Steps -> StepStatus]
        /\ txn[h].mine \in [Steps -> StepStatus \cup {"untouched"}]
    BY DEF TypeOK
  <1>2. \A o \in Steps : (IF txn[h].mine[o] = "untouched" THEN step[o] ELSE txn[h].mine[o]) \in StepStatus
    BY <1>1
  <1>3. QED
    BY <1>2 DEF View

(* The step below a step is a step, or 0.                                   *)
LEMMA PreviousTyped ==
    ASSUME NEW s \in Steps
    PROVE  Previous(s) \in Steps \cup {0}
  BY RacesAssumption DEF Previous, Steps

(* Every transaction keeps the columns inside their domains.                *)
LEMMA StepTypes ==
    ASSUME TypeOK, NEW h \in Sessions, RacesStep(h)
    PROVE  TypeOK'
  <1>1. txn \in [Sessions -> Txn] /\ txn[h] \in Txn
    BY DEF TypeOK, Txn
  <1>2. ASSUME txn' \in [Sessions -> Txn],
               entity' \in {"live", "deleted"}, inst' \in InstStatus,
               step' \in [Steps -> StepStatus],
               decisions' \in [Steps -> 0..2], announced' \in 0..2
        PROVE  TypeOK'
    BY <1>2 DEF TypeOK, Txn
  <1>3. /\ entity \in {"live", "deleted"} /\ inst \in InstStatus
        /\ step \in [Steps -> StepStatus]
        /\ decisions \in [Steps -> 0..2] /\ announced \in 0..2
    BY DEF TypeOK
  <1>4. ASSUME UNCHANGED committed, NEW t \in Txn, txn' = [txn EXCEPT ![h] = t]
        PROVE  TypeOK'
    BY <1>1, <1>2, <1>3, <1>4 DEF committed
  <1>5. ASSUME NEW op \in {"approve", "reject"}, Load(h, op)
        PROVE  TypeOK'
    <2>1. PICK s \in Steps :
            txn' = [txn EXCEPT ![h] = [None EXCEPT !.op = op, !.pc = "loaded", !.at = s,
                                                   !.prev = Previous(s), !.seen = inst]]
      BY <1>5 DEF Load, Lowest, PendingIn
    <2>2. [None EXCEPT !.op = op, !.pc = "loaded", !.at = s, !.prev = Previous(s), !.seen = inst] \in Txn
      BY <1>3, NoneTyped, PreviousTyped DEF Txn, None
    <2>3. QED
      BY <1>4, <1>5, <2>1, <2>2 DEF Load
  <1>6. CASE Mark(h)
    <2> DEFINE s == txn[h].at
               t == [txn[h] EXCEPT !.mine = [txn[h].mine EXCEPT ![s] = Verdict(h)],
                                   !.pc = IF txn[h].op = "approve" THEN "marked" ELSE "ready"]
    <2>1. t \in Txn
      <3>1. [txn[h].mine EXCEPT ![s] = Verdict(h)] \in [Steps -> StepStatus \cup {"untouched"}]
        BY <1>1 DEF Txn, Verdict, StepStatus
      <3>2. QED
        BY <1>1, <3>1 DEF Txn
    <2>2. txn' = [txn EXCEPT ![h] = t]
      BY <1>1, <1>6 DEF Mark, Txn
    <2>3. QED
      BY <1>4, <1>6, <2>1, <2>2 DEF Mark
  <1>7. CASE SkipNext(h)
    <2>1. PICK o \in Steps : txn' = [txn EXCEPT ![h].mine[o] = "approved"]
      BY <1>7 DEF SkipNext, Lowest, PendingIn
    <2> DEFINE t == [txn[h] EXCEPT !.mine = [txn[h].mine EXCEPT ![o] = "approved"]]
    <2>2. t \in Txn
      <3>1. [txn[h].mine EXCEPT ![o] = "approved"] \in [Steps -> StepStatus \cup {"untouched"}]
        BY <1>1 DEF Txn, StepStatus
      <3>2. QED
        BY <1>1, <3>1 DEF Txn
    <2>3. txn' = [txn EXCEPT ![h] = t]
      BY <1>1, <2>1 DEF Txn
    <2>4. QED
      BY <1>4, <1>7, <2>2, <2>3 DEF SkipNext
  <1>8. CASE Look(h)
    <2> DEFINE t == [txn[h] EXCEPT !.pc = "ready", !.last = NoneLeft(h)]
    <2>1. t \in Txn
      <3>1. NoneLeft(h) \in BOOLEAN
        BY DEF NoneLeft
      <3>2. QED
        BY <1>1, <3>1 DEF Txn
    <2>2. txn' = [txn EXCEPT ![h] = t]
      BY <1>1, <1>8 DEF Look, Txn
    <2>3. QED
      BY <1>4, <1>8, <2>1, <2>2 DEF Look
  <1>9. ASSUME txn' = [txn EXCEPT ![h] = None]
        PROVE  txn' \in [Sessions -> Txn]
    BY <1>1, <1>9, NoneTyped
  <1>10. \A n \in 0..2 : Bump(n) \in 0..2
    BY DEF Bump
  <1>11. CASE CommitApprove(h)
    <2>1. step' \in [Steps -> StepStatus]
      BY <1>11, ViewTyped DEF CommitApprove
    <2>2. decisions' \in [Steps -> 0..2] /\ announced' \in 0..2
      BY <1>3, <1>10, <1>11 DEF CommitApprove
    <2>3. inst' \in InstStatus /\ entity' = entity
      BY <1>3, <1>11 DEF CommitApprove, Written, InstStatus
    <2>4. QED
      BY <1>2, <1>3, <1>9, <1>11, <2>1, <2>2, <2>3 DEF CommitApprove
  <1>12. CASE CommitReject(h)
    <2>1. step' \in [Steps -> StepStatus]
      BY <1>12, ViewTyped DEF CommitReject, StepStatus
    <2>2. decisions' \in [Steps -> 0..2] /\ announced' = announced
      <3>1. ASSUME NEW o \in Steps
            PROVE  (CASE o \in Reopened(h) -> 0
                      [] o \in Decided(h) -> Bump(decisions[o])
                      [] OTHER -> decisions[o]) \in 0..2
        <4>1. decisions[o] \in 0..2 /\ Bump(decisions[o]) \in 0..2
          BY <1>3, <1>10
        <4> HIDE DEF Bump
        <4>2. CASE o \in Reopened(h) /\ o \in Decided(h)
          BY <4>1, <4>2
        <4>3. CASE o \in Reopened(h) /\ o \notin Decided(h)
          BY <4>1, <4>3
        <4>4. CASE o \notin Reopened(h)
          BY <4>1, <4>4
        <4>5. QED
          BY <4>2, <4>3, <4>4
      <3>2. QED
        BY <1>12, <3>1 DEF CommitReject
    <2>3. inst' \in InstStatus /\ entity' = entity
      BY <1>3, <1>12 DEF CommitReject, Written, InstStatus
    <2>4. QED
      BY <1>2, <1>3, <1>9, <1>12, <2>1, <2>2, <2>3 DEF CommitReject
  <1>13. CASE LoadDelete(h)
    <2>1. [None EXCEPT !.op = "delete", !.pc = "loaded"] \in Txn
      BY NoneTyped DEF Txn, None
    <2>2. QED
      BY <1>4, <1>13, <2>1 DEF LoadDelete
  <1>14. CASE CancelSteps(h)
    <2> DEFINE m == [o \in Steps |-> IF step[o] = "pending" THEN "cancelled" ELSE "untouched"]
               t == [txn[h] EXCEPT !.pc = "ready", !.mine = m]
    <2>1. t \in Txn
      <3>1. m \in [Steps -> StepStatus \cup {"untouched"}]
        BY DEF StepStatus
      <3>2. QED
        BY <1>1, <3>1 DEF Txn
    <2>2. txn' = [txn EXCEPT ![h] = t]
      BY <1>1, <1>14 DEF CancelSteps, Txn
    <2>3. QED
      BY <1>4, <1>14, <2>1, <2>2 DEF CancelSteps
  <1>15. CASE CommitDelete(h)
    <2>1. step' \in [Steps -> StepStatus]
      BY <1>15, ViewTyped DEF CommitDelete
    <2>2. QED
      BY <1>2, <1>3, <1>9, <1>15, <2>1 DEF CommitDelete, InstStatus
  <1>16. CASE Rollback(h)
    BY <1>2, <1>3, <1>9, <1>16 DEF Rollback, committed
  <1>17. QED
    BY <1>5, <1>6, <1>7, <1>8, <1>11, <1>12, <1>13, <1>14, <1>15, <1>16 DEF RacesStep

(* DecidedIsLogged, without the types.                                      *)
Logged == \A o \in Steps : step[o] \in {"approved", "rejected"} => decisions[o] > 0

RacesInv == TypeOK /\ DeletesCancel /\ Logged

(* Whatever a transaction loaded, it writes a decision with each status.    *)
LEMMA StepLogs ==
    ASSUME RacesInv, NEW h \in Sessions, RacesStep(h)
    PROVE  DeletesCancel' /\ Logged'
  <1> USE DEF RacesInv
  <1>1. txn \in [Sessions -> Txn] /\ txn[h].mine \in [Steps -> StepStatus \cup {"untouched"}]
        /\ decisions \in [Steps -> 0..2]
    BY DEF TypeOK, Txn
  <1>2. \A n \in 0..2 : Bump(n) > 0
    BY DEF Bump
  <1>3. DeletesCancel'
    <2>1. \A g \in Sessions : g # h => txn'[g] = txn[g]
      BY <1>1 DEF RacesStep, Load, Mark, SkipNext, Look, CommitApprove, CommitReject, LoadDelete,
                  CancelSteps, CommitDelete, Rollback
    <2>2. CASE txn'[h].op # "delete"
      BY <2>1, <2>2 DEF DeletesCancel
    <2>3. CASE LoadDelete(h)
      <3>1. txn'[h].mine = Untouched
        BY <1>1, <2>3 DEF LoadDelete, None
      <3>2. QED
        BY <2>1, <3>1 DEF DeletesCancel, Untouched
    <2>4. CASE CancelSteps(h)
      <3>1. txn'[h].mine = [o \in Steps |-> IF step[o] = "pending" THEN "cancelled" ELSE "untouched"]
        BY <1>1, <2>4 DEF CancelSteps, Txn
      <3>2. QED
        BY <2>1, <3>1 DEF DeletesCancel
    <2>5. CASE Mark(h) \/ SkipNext(h) \/ Look(h)
      <3>1. txn'[h].op = txn[h].op /\ txn[h].op \in {"approve", "reject"}
        BY <1>1, <2>5 DEF Mark, SkipNext, Look, Is, Txn
      <3>2. QED
        BY <2>2, <3>1
    <2>6. CASE CommitApprove(h) \/ CommitReject(h) \/ CommitDelete(h) \/ Rollback(h)
      <3>1. txn'[h] = None
        BY <1>1, <2>6 DEF CommitApprove, CommitReject, CommitDelete, Rollback
      <3>2. QED
        BY <2>2, <3>1 DEF None
    <2>7. ASSUME NEW op \in {"approve", "reject"}, Load(h, op)
          PROVE  DeletesCancel'
      <3>1. txn'[h].op = op
        BY <1>1, <2>7 DEF Load, None
      <3>2. QED
        BY <2>2, <3>1
    <2>8. QED
      BY <2>3, <2>4, <2>5, <2>6, <2>7 DEF RacesStep
  <1>4. Logged'
    <2>1. CASE UNCHANGED committed
      BY <2>1 DEF Logged, committed
    <2>2. CASE CommitApprove(h)
      <3> SUFFICES ASSUME NEW o \in Steps, step'[o] \in {"approved", "rejected"}
                   PROVE  decisions'[o] > 0
        BY DEF Logged
      <3>1. CASE txn[h].mine[o] = "untouched"
        BY <1>1, <1>2, <2>2, <3>1 DEF CommitApprove, View, Decided, Logged
      <3>2. CASE txn[h].mine[o] # "untouched"
        BY <1>1, <1>2, <2>2, <3>2 DEF CommitApprove, Decided
      <3>3. QED
        BY <3>1, <3>2
    <2>3. CASE CommitReject(h)
      <3> SUFFICES ASSUME NEW o \in Steps, step'[o] \in {"approved", "rejected"}
                   PROVE  decisions'[o] > 0
        BY DEF Logged
      <3>1. o \notin Reopened(h) /\ View(h)[o] \in {"approved", "rejected"}
        BY <2>3 DEF CommitReject
      <3>2. decisions'[o] = IF o \in Decided(h) THEN Bump(decisions[o]) ELSE decisions[o]
        BY <2>3, <3>1 DEF CommitReject
      <3>3. QED
        BY <1>1, <1>2, <3>1, <3>2 DEF View, Decided, Logged
    <2>4. CASE CommitDelete(h)
      BY <1>1, <2>4 DEF CommitDelete, View, Is, DeletesCancel, Logged
    <2>5. QED
      BY <2>1, <2>2, <2>3, <2>4
         DEF RacesStep, Load, Mark, SkipNext, Look, LoadDelete, CancelSteps, Rollback
  <1>5. QED
    BY <1>3, <1>4

(* The types and the log, in every behaviour of the transactions.           *)
THEOREM RacesInvariant == Spec => []RacesInv
  <1>1. Init => RacesInv
    <2> SUFFICES ASSUME Init PROVE RacesInv
      OBVIOUS
    <2>1. TypeOK
      BY NoneTyped DEF Init, TypeOK, Txn, InstStatus, StepStatus
    <2>2. DeletesCancel /\ Logged
      BY DEF Init, DeletesCancel, Logged, None
    <2>3. QED
      BY <2>1, <2>2 DEF RacesInv
  <1>2. RacesInv /\ [Next]_vars => RacesInv'
    <2> SUFFICES ASSUME RacesInv, [Next]_vars PROVE RacesInv'
      OBVIOUS
    <2>1. CASE UNCHANGED vars
      BY <2>1 DEF vars, RacesInv, TypeOK, DeletesCancel, Logged
    <2>2. ASSUME NEW h \in Sessions, RacesStep(h)
          PROVE  RacesInv'
      BY <2>2, StepTypes, StepLogs DEF RacesInv
    <2>3. QED
      BY <2>1, <2>2 DEF Next, RacesStep
  <1>3. QED
    BY <1>1, <1>2, PTL DEF Spec

(* However many decisions and deletions meet on one instance, no step counts *)
(* as decided without a decision in the log.                                *)
THEOREM RacesDecidedIsLogged == Spec => []DecidedIsLogged
  <1>1. RacesInv => DecidedIsLogged
    BY DEF RacesInv, Logged, DecidedIsLogged
  <1>2. QED
    BY <1>1, RacesInvariant, PTL

-----------------------------------------------------------------------------
(* Approvals only.                                                          *)

Holds(h, o) == txn[h].mine[o] # "untouched"

(* The pending steps one session has marked.                                *)
HeldPending(h) == {o \in PendingIn(step) : Holds(h, o)}

(* A step is marked by one session at a time.                               *)
LocksExclude == \A g, h \in Sessions, o \in Steps : Holds(g, o) /\ Holds(h, o) => g = h

(* Who has marked a pending step has marked those below it: two sessions    *)
(* never complete different parts of what is left.                          *)
HeldFromBelow ==
    \A h \in Sessions : \A o \in HeldPending(h), q \in PendingIn(step) : q < o => Holds(h, q)

(* A session that is ready to leave the instance under way leaves a step to *)
(* be decided, or changes nothing of what is left.                          *)
ReadyLeavesAPending ==
    \A h \in Sessions : Is(h, "approve", "ready") /\ ~txn[h].last =>
        HeldPending(h) = {} \/ PendingIn(View(h)) # {}

ApprovalsOnly ==
    /\ inst \in {"pending", "approved"}
    /\ \A o \in Steps : step[o] \in {"pending", "approved"}
    /\ \A h \in Sessions :
          /\ txn[h].op \in {"none", "approve"}
          /\ \A o \in Steps : txn[h].mine[o] \in {"approved", "untouched"}
          /\ txn[h].op = "none" => \A o \in Steps : ~Holds(h, o)
          /\ txn[h].op = "approve" =>
                /\ txn[h].at \in Steps /\ \A o \in PendingIn(step) : txn[h].at <= o
                /\ txn[h].seen = "approved" => inst = "approved"

ApprovalsInv ==
    ApprovalsOnly /\ LocksExclude /\ HeldFromBelow /\ ReadyLeavesAPending /\ UnderWayHasPending

(* A transaction concerns its own session.                                  *)
LEMMA OwnTransaction ==
    ASSUME TypeOK, NEW h \in Sessions, RacesStep(h)
    PROVE  \A g \in Sessions : g # h => txn'[g] = txn[g]
  BY DEF RacesStep, Load, Mark, SkipNext, Look, CommitApprove, CommitReject, LoadDelete,
         CancelSteps, CommitDelete, Rollback, TypeOK

(* A step is marked only while nobody else has marked it.                   *)
LEMMA MarkKeepsLocks ==
    ASSUME LocksExclude, NEW h \in Sessions, NEW s \in Steps, StepFree(h, s),
           \A g \in Sessions : g # h => txn'[g] = txn[g],
           \A o \in Steps : Holds(h, o)' => Holds(h, o) \/ o = s
    PROVE  LocksExclude'
  BY DEF LocksExclude, Holds, StepFree

(* Two sessions do not both hold pending steps.                             *)
LEMMA OneHoldsPending ==
    ASSUME LocksExclude, HeldFromBelow, NEW g \in Sessions, NEW h \in Sessions, g # h,
           HeldPending(g) # {}
    PROVE  HeldPending(h) = {}
  <1> SUFFICES ASSUME HeldPending(h) # {} PROVE FALSE
    OBVIOUS
  <1>1. PICK a \in HeldPending(g) : TRUE
    OBVIOUS
  <1>2. PICK b \in HeldPending(h) : TRUE
    OBVIOUS
  <1>3. a \in PendingIn(step) /\ b \in PendingIn(step) /\ a \in Steps /\ b \in Steps
        /\ Holds(g, a) /\ Holds(h, b)
    BY DEF HeldPending, PendingIn
  <1>4. a < b \/ b < a \/ a = b
    BY <1>3 DEF Steps
  <1>5. QED
    BY <1>3, <1>4 DEF HeldFromBelow, LocksExclude

(* What is pending for a session is pending, and not marked by it.          *)
LEMMA PendingSeen ==
    ASSUME TypeOK, ApprovalsOnly, NEW h \in Sessions
    PROVE  PendingIn(View(h)) = PendingIn(step) \ HeldPending(h)
  BY DEF PendingIn, View, HeldPending, Holds, ApprovalsOnly

(* Loading an approval finds the lowest pending step.                       *)
LEMMA LoadKeepsApprovals ==
    ASSUME TypeOK, ApprovalsInv, NEW h \in Sessions, Load(h, "approve")
    PROVE  ApprovalsInv'
  <1>1. PICK s \in Lowest(PendingIn(step)) :
          txn' = [txn EXCEPT ![h] = [None EXCEPT !.op = "approve", !.pc = "loaded", !.at = s,
                                                 !.prev = Previous(s), !.seen = inst]]
    BY DEF Load
  <1>2. /\ txn'[h].op = "approve" /\ txn'[h].pc = "loaded" /\ txn'[h].at = s
        /\ txn'[h].seen = inst /\ txn'[h].mine = Untouched
        /\ \A g \in Sessions : g # h => txn'[g] = txn[g]
    BY <1>1 DEF TypeOK, None
  <1>3. UNCHANGED <<inst, step>> /\ s \in Steps /\ \A o \in PendingIn(step) : s <= o
    BY DEF Load, committed, Lowest, PendingIn
  <1>4. \A o \in Steps : ~Holds(h, o)'
    BY <1>2 DEF Holds, Untouched
  <1>5. ApprovalsOnly'
    BY <1>2, <1>3, <1>4 DEF ApprovalsInv, ApprovalsOnly, PendingIn, Holds, Untouched
  <1>6. LocksExclude' /\ HeldFromBelow'
    BY <1>2, <1>3, <1>4 DEF ApprovalsInv, LocksExclude, HeldFromBelow, HeldPending, PendingIn, Holds
  <1>7. ReadyLeavesAPending' /\ UnderWayHasPending'
    <2>1. \A g \in Sessions : g # h => /\ PendingIn(View(g))' = PendingIn(View(g))
                                      /\ HeldPending(g)' = HeldPending(g)
      BY <1>2, <1>3 DEF HeldPending, PendingIn, View, Holds
    <2>2. QED
      BY <1>2, <1>3, <2>1 DEF ApprovalsInv, ReadyLeavesAPending, UnderWayHasPending, PendingIn, Is
  <1>8. QED
    BY <1>5, <1>6, <1>7 DEF ApprovalsInv

(* Marking a step, the one that was loaded or the next in line: there is    *)
(* none pending below it that the session has not marked.                   *)
LEMMA MarkKeepsApprovals ==
    ASSUME TypeOK, ApprovalsInv, NEW h \in Sessions, NEW s \in Steps,
           txn[h].op = "approve", StepFree(h, s), UNCHANGED committed,
           \A q \in PendingIn(step) : q < s => Holds(h, q),
           txn' = [txn EXCEPT ![h] = [txn[h] EXCEPT
                      !.mine = [txn[h].mine EXCEPT ![s] = "approved"], !.pc = "marked"]]
    PROVE  ApprovalsInv'
  <1>1. /\ txn'[h].op = "approve" /\ txn'[h].pc = "marked" /\ txn'[h].at = txn[h].at
        /\ txn'[h].seen = txn[h].seen
        /\ txn'[h].mine[s] = "approved"
        /\ \A o \in Steps : o # s => txn'[h].mine[o] = txn[h].mine[o]
        /\ \A g \in Sessions : g # h => txn'[g] = txn[g]
    BY DEF TypeOK
  <1>2. UNCHANGED <<inst, step>>
    BY DEF committed
  <1>3. \A o \in Steps : Holds(h, o)' <=> Holds(h, o) \/ o = s
    BY <1>1 DEF Holds
  <1>4. ApprovalsOnly'
    BY <1>1, <1>2 DEF ApprovalsInv, ApprovalsOnly, PendingIn, Holds
  <1>5. LocksExclude'
    BY <1>1, <1>3, MarkKeepsLocks DEF ApprovalsInv
  <1>6. HeldFromBelow'
    <2> SUFFICES ASSUME NEW g \in Sessions, NEW o \in PendingIn(step), Holds(g, o)',
                        NEW q \in PendingIn(step), q < o
                 PROVE  Holds(g, q)'
      BY <1>2 DEF HeldFromBelow, HeldPending, PendingIn
    <2>1. o \in Steps /\ q \in Steps
      BY DEF PendingIn
    <2>2. Holds(g, o) => Holds(g, q)
      BY DEF ApprovalsInv, HeldFromBelow, HeldPending
    <2>3. CASE g = h
      BY <1>3, <2>1, <2>2, <2>3
    <2>4. CASE g # h
      BY <1>1, <2>1, <2>2, <2>4 DEF Holds
    <2>5. QED
      BY <2>3, <2>4
  <1>7. ReadyLeavesAPending' /\ UnderWayHasPending'
    <2>1. \A g \in Sessions : g # h => /\ PendingIn(View(g))' = PendingIn(View(g))
                                      /\ HeldPending(g)' = HeldPending(g)
      BY <1>1, <1>2 DEF HeldPending, PendingIn, View, Holds
    <2>2. QED
      BY <1>1, <1>2, <2>1 DEF ApprovalsInv, ReadyLeavesAPending, UnderWayHasPending, PendingIn, Is
  <1>8. QED
    BY <1>4, <1>5, <1>6, <1>7 DEF ApprovalsInv

(* Looking whether a step is left.                                          *)
LEMMA LookKeepsApprovals ==
    ASSUME TypeOK, ApprovalsInv, NEW h \in Sessions, Look(h)
    PROVE  ApprovalsInv'
  <1>1. /\ txn'[h].op = "approve" /\ txn'[h].pc = "ready" /\ txn'[h].at = txn[h].at
        /\ txn'[h].seen = txn[h].seen /\ txn'[h].mine = txn[h].mine
        /\ txn'[h].last = NoneLeft(h) /\ txn[h].op = "approve"
        /\ \A g \in Sessions : g # h => txn'[g] = txn[g]
    BY DEF Look, Is, TypeOK
  <1>2. UNCHANGED <<inst, step>>
    BY DEF Look, committed
  <1>3. \A g \in Sessions, o \in Steps : Holds(g, o)' <=> Holds(g, o)
    BY <1>1 DEF Holds
  <1>4. ApprovalsOnly' /\ LocksExclude' /\ HeldFromBelow' /\ UnderWayHasPending'
    BY <1>1, <1>2, <1>3
       DEF ApprovalsInv, ApprovalsOnly, LocksExclude, HeldFromBelow, UnderWayHasPending,
           HeldPending, PendingIn
  <1>5. ReadyLeavesAPending'
    <2>1. PendingIn(View(h))' = PendingIn(View(h))
      BY <1>1, <1>2 DEF PendingIn, View
    <2>2. \A g \in Sessions : g # h => PendingIn(View(g))' = PendingIn(View(g))
      BY <1>1, <1>2 DEF PendingIn, View
    <2>3. \A g \in Sessions : HeldPending(g)' = HeldPending(g)
      BY <1>2, <1>3 DEF HeldPending, PendingIn
    <2>4. QED
      BY <1>1, <2>1, <2>2, <2>3 DEF ApprovalsInv, ReadyLeavesAPending, NoneLeft, Is
  <1>6. QED
    BY <1>4, <1>5 DEF ApprovalsInv

(* A commit takes from what is left only what its session had marked; where *)
(* another session has marked some of it, this one takes nothing.           *)
LEMMA CommitKeepsApprovals ==
    ASSUME TypeOK, ApprovalsInv, NEW h \in Sessions, CommitApprove(h)
    PROVE  ApprovalsInv'
  <1>1. txn'[h] = None /\ \A g \in Sessions : g # h => txn'[g] = txn[g]
    BY DEF CommitApprove, TypeOK
  <1>2. step' = View(h) /\ txn[h].op = "approve" /\ Is(h, "approve", "ready")
        /\ inst' = IF txn[h].last THEN Written(h, "approved") ELSE inst
    BY DEF CommitApprove, Is
  <1>3. PendingIn(step') = PendingIn(step) \ HeldPending(h)
    BY <1>2, PendingSeen DEF ApprovalsInv
  <1>4. /\ txn[h].last => inst' = "approved"
        /\ inst = "approved" => inst' = "approved"
        /\ inst' \in {"pending", "approved"}
    BY <1>2 DEF ApprovalsInv, ApprovalsOnly, Written
  <1>5. /\ txn'[h].op = "none" /\ \A o \in Steps : ~Holds(h, o)'
        /\ \A g \in Sessions, o \in Steps : g # h => (Holds(g, o)' <=> Holds(g, o))
    BY <1>1 DEF None, Holds, Untouched
  <1>6. ApprovalsOnly'
    <2>1. \A o \in Steps : step'[o] \in {"pending", "approved"}
      BY <1>2 DEF View, ApprovalsInv, ApprovalsOnly
    <2>2. PendingIn(step)' \subseteq PendingIn(step)
      BY <1>3
    <2>3. ASSUME NEW g \in Sessions
          PROVE  /\ txn'[g].op \in {"none", "approve"}
                 /\ \A o \in Steps : txn'[g].mine[o] \in {"approved", "untouched"}
                 /\ txn'[g].op = "none" => \A o \in Steps : ~Holds(g, o)'
                 /\ txn'[g].op = "approve" =>
                       /\ txn'[g].at \in Steps /\ \A o \in PendingIn(step)' : txn'[g].at <= o
                       /\ txn'[g].seen = "approved" => inst' = "approved"
      <3>1. CASE g = h
        BY <1>1, <1>5, <3>1 DEF None, Untouched
      <3>2. CASE g # h
        BY <1>1, <1>4, <1>5, <2>2, <3>2 DEF ApprovalsInv, ApprovalsOnly
      <3>3. QED
        BY <3>1, <3>2
    <2>4. QED
      BY <1>4, <2>1, <2>3 DEF ApprovalsOnly
  <1>7. LocksExclude'
    BY <1>5 DEF ApprovalsInv, LocksExclude
  <1>8. HeldFromBelow'
    BY <1>3, <1>5 DEF ApprovalsInv, HeldFromBelow, HeldPending, PendingIn
  <1>9. ReadyLeavesAPending'
    <2> SUFFICES ASSUME NEW g \in Sessions, g # h, Is(g, "approve", "ready")', ~txn'[g].last
                 PROVE  HeldPending(g)' = {} \/ PendingIn(View(g))' # {}
      BY <1>1 DEF ReadyLeavesAPending, Is, None
    <2>1. HeldPending(g) = {} \/ PendingIn(View(g)) # {}
      BY <1>1 DEF ApprovalsInv, ReadyLeavesAPending, Is
    <2>2. HeldPending(g)' \subseteq HeldPending(g)
      BY <1>3, <1>5 DEF HeldPending, PendingIn
    <2>3. CASE HeldPending(h) # {}
      BY <2>2, <2>3, OneHoldsPending DEF ApprovalsInv
    <2>4. CASE HeldPending(h) = {}
      <3>1. \A o \in Steps : step'[o] = "pending" <=> step[o] = "pending"
        BY <1>3, <2>4 DEF PendingIn
      <3>2. PendingIn(View(g))' = PendingIn(View(g))
        BY <1>1, <3>1 DEF PendingIn, View
      <3>3. QED
        BY <2>1, <2>2, <3>2
    <2>5. QED
      BY <2>3, <2>4
  <1>10. UnderWayHasPending'
    <2>1. CASE txn[h].last
      BY <1>4, <2>1 DEF UnderWayHasPending
    <2>2. CASE ~txn[h].last
      <3>1. HeldPending(h) = {} \/ PendingIn(View(h)) # {}
        BY <1>2, <2>2 DEF ApprovalsInv, ReadyLeavesAPending
      <3>2. CASE HeldPending(h) = {}
        BY <1>2, <1>3, <2>2, <3>2 DEF ApprovalsInv, UnderWayHasPending
      <3>3. CASE PendingIn(View(h)) # {}
        BY <1>2, <3>3 DEF UnderWayHasPending
      <3>4. QED
        BY <3>1, <3>2, <3>3
    <2>3. QED
      BY <2>1, <2>2
  <1>11. QED
    BY <1>6, <1>7, <1>8, <1>9, <1>10 DEF ApprovalsInv

(* A transaction that is rolled back leaves no mark.                        *)
LEMMA RollbackKeepsApprovals ==
    ASSUME TypeOK, ApprovalsInv, NEW h \in Sessions, Rollback(h)
    PROVE  ApprovalsInv'
  <1>1. txn'[h] = None /\ \A g \in Sessions : g # h => txn'[g] = txn[g]
    BY DEF Rollback, TypeOK
  <1>2. UNCHANGED <<inst, step>>
    BY DEF Rollback, committed
  <1>3. /\ txn'[h].op = "none" /\ \A o \in Steps : ~Holds(h, o)'
        /\ \A g \in Sessions, o \in Steps : g # h => (Holds(g, o)' <=> Holds(g, o))
    BY <1>1 DEF None, Holds, Untouched
  <1>4. ApprovalsOnly'
    BY <1>1, <1>2, <1>3 DEF ApprovalsInv, ApprovalsOnly, PendingIn, None, Untouched
  <1>5. LocksExclude' /\ HeldFromBelow'
    BY <1>2, <1>3 DEF ApprovalsInv, LocksExclude, HeldFromBelow, HeldPending, PendingIn
  <1>6. ReadyLeavesAPending' /\ UnderWayHasPending'
    <2>1. \A g \in Sessions : g # h => /\ PendingIn(View(g))' = PendingIn(View(g))
                                      /\ HeldPending(g)' = HeldPending(g)
      BY <1>1, <1>2 DEF HeldPending, PendingIn, View, Holds
    <2>2. QED
      BY <1>1, <1>2, <2>1
         DEF ApprovalsInv, ReadyLeavesAPending, UnderWayHasPending, PendingIn, Is, None
  <1>7. QED
    BY <1>4, <1>5, <1>6 DEF ApprovalsInv

(* Whatever a session does, as long as all it does is approve.              *)
LEMMA StepKeepsApprovals ==
    ASSUME TypeOK, ApprovalsInv, NEW h \in Sessions, RacesStep(h), txn'[h].op \in {"none", "approve"}
    PROVE  ApprovalsInv'
  <1>1. txn[h].op \in {"none", "approve"}
    BY DEF ApprovalsInv, ApprovalsOnly
  <1>2. CASE Mark(h)
    <2> DEFINE s == txn[h].at
    <2>1. txn[h].op = "approve" /\ s \in Steps /\ \A q \in PendingIn(step) : s <= q
      BY <1>1, <1>2 DEF Mark, Is, ApprovalsInv, ApprovalsOnly
    <2>2. txn' = [txn EXCEPT ![h] = [txn[h] EXCEPT
                      !.mine = [txn[h].mine EXCEPT ![s] = "approved"], !.pc = "marked"]]
      BY <1>2, <2>1 DEF Mark, Verdict, TypeOK
    <2>3. \A q \in PendingIn(step) : q < s => Holds(h, q)
      BY <2>1 DEF PendingIn, Steps
    <2>4. QED
      BY <1>2, <2>1, <2>2, <2>3, MarkKeepsApprovals DEF Mark
  <1>3. CASE SkipNext(h)
    <2>1. PICK s \in Lowest(PendingIn(View(h))) :
            StepFree(h, s) /\ txn' = [txn EXCEPT ![h].mine[s] = "approved"]
      BY <1>3 DEF SkipNext
    <2>2. s \in Steps /\ \A q \in PendingIn(View(h)) : s <= q
      BY DEF Lowest, PendingIn
    <2>3. txn[h].op = "approve" /\ txn[h].pc = "marked"
      BY <1>3 DEF SkipNext, Is
    <2>4. txn' = [txn EXCEPT ![h] = [txn[h] EXCEPT
                      !.mine = [txn[h].mine EXCEPT ![s] = "approved"], !.pc = "marked"]]
      BY <2>1, <2>3 DEF TypeOK
    <2>5. \A q \in PendingIn(step) : q < s => Holds(h, q)
      <3>1. \A q \in PendingIn(step) : Holds(h, q) \/ q \in PendingIn(View(h))
        BY PendingSeen DEF ApprovalsInv, HeldPending
      <3>2. QED
        BY <2>2, <3>1 DEF PendingIn, Steps
    <2>6. QED
      BY <1>3, <2>1, <2>2, <2>3, <2>4, <2>5, MarkKeepsApprovals DEF SkipNext
  <1>4. ~Load(h, "reject") /\ ~LoadDelete(h)
    <2>1. Load(h, "reject") => txn'[h].op = "reject"
      BY DEF Load, None, TypeOK
    <2>2. LoadDelete(h) => txn'[h].op = "delete"
      BY DEF LoadDelete, None, TypeOK
    <2>3. QED
      BY <2>1, <2>2
  <1>5. ~CommitReject(h) /\ ~CancelSteps(h) /\ ~CommitDelete(h)
    BY <1>1 DEF CommitReject, CancelSteps, CommitDelete, Is
  <1>6. QED
    BY <1>2, <1>3, <1>4, <1>5, LoadKeepsApprovals, LookKeepsApprovals, CommitKeepsApprovals,
       RollbackKeepsApprovals DEF RacesStep

(* The loads restrict the transactions and change nothing of them.          *)
LEMMA LoadsAreSteps ==
    ASSUME [MCNext]_<<vars, load>>
    PROVE  /\ [Next]_vars /\ UNCHANGED load
           /\ (\E h \in Sessions : RacesStep(h) /\ InLoad') \/ UNCHANGED vars
  BY DEF MCNext, Next, Kept, RacesStep

(* A behaviour under a load is a behaviour of the transactions.             *)
LEMMA LoadsAreBehaviours == MCSpec => Spec
  <1>1. MCInit => Init
    BY DEF MCInit
  <1>2. [MCNext]_<<vars, load>> => [Next]_vars
    BY LoadsAreSteps
  <1>3. QED
    BY <1>1, <1>2, PTL DEF MCSpec, Spec

(* However many approvals of one instance run at once, and however they are *)
(* interleaved, they keep to their parts of what is left.                   *)
THEOREM ApprovalsInvariant == MCSpec => [](load = "approvals" => ApprovalsInv)
  <1>1. MCInit => (load = "approvals" => ApprovalsInv)
    <2> SUFFICES ASSUME Init PROVE ApprovalsInv
      BY DEF MCInit
    <2>1. \A h \in Sessions : /\ txn[h].op = "none" /\ ~Is(h, "approve", "ready")
                               /\ \A o \in Steps : txn[h].mine[o] = "untouched"
      BY DEF Init, None, Is, Untouched
    <2>2. 1 \in PendingIn(step)
      BY RacesAssumption DEF Init, PendingIn, Steps
    <2>3. inst = "pending" /\ \A o \in Steps : step[o] = "pending"
      BY DEF Init
    <2>4. \A h \in Sessions, o \in Steps : ~Holds(h, o)
      BY <2>1 DEF Holds
    <2>5. ApprovalsOnly
      BY <2>1, <2>3 DEF ApprovalsOnly, Holds
    <2>6. LocksExclude /\ HeldFromBelow
      BY <2>4 DEF LocksExclude, HeldFromBelow, HeldPending, PendingIn
    <2>7. ReadyLeavesAPending /\ UnderWayHasPending
      BY <2>1, <2>2 DEF ReadyLeavesAPending, UnderWayHasPending
    <2>8. QED
      BY <2>5, <2>6, <2>7 DEF ApprovalsInv
  <1>2. RacesInv /\ (load = "approvals" => ApprovalsInv) /\ [MCNext]_<<vars, load>>
          => (load = "approvals" => ApprovalsInv)'
    <2> SUFFICES ASSUME TypeOK, load = "approvals", ApprovalsInv, [MCNext]_<<vars, load>>
                 PROVE  ApprovalsInv'
      BY LoadsAreSteps DEF RacesInv
    <2>1. CASE UNCHANGED vars
      BY <2>1
         DEF vars, ApprovalsInv, ApprovalsOnly, LocksExclude, HeldFromBelow, ReadyLeavesAPending,
             UnderWayHasPending, HeldPending, PendingIn, Holds, Is, View
    <2>2. ASSUME NEW h \in Sessions, RacesStep(h), InLoad'
          PROVE  ApprovalsInv'
      <3>1. txn'[h].op \in {"none", "approve"}
        BY <2>2, LoadsAreSteps DEF InLoad
      <3>2. QED
        BY <2>2, <3>1, StepKeepsApprovals
    <2>3. QED
      BY <2>1, <2>2, LoadsAreSteps
  <1>3. MCSpec => []RacesInv
    BY LoadsAreBehaviours, RacesInvariant, PTL
  <1>4. QED
    BY <1>1, <1>2, <1>3, PTL DEF MCSpec

-----------------------------------------------------------------------------
(* One request at a time.                                                   *)

OneAtATime == \A g, h \in Sessions : txn[g] # None /\ txn[h] # None => g = h

(* What a decision has loaded is still so when it commits.                  *)
DecisionFresh(h) ==
    /\ txn[h].at \in Steps /\ step[txn[h].at] = "pending" /\ txn[h].seen = inst
    /\ txn[h].prev = Previous(txn[h].at)
    /\ \A o \in Steps : Holds(h, o) => step[o] = "pending"
    /\ txn[h].op = "approve" => \A o \in Steps : txn[h].mine[o] \in {"approved", "untouched"}
    /\ txn[h].op = "reject" =>
          \A o \in Steps : /\ txn[h].mine[o] \in {"rejected", "untouched"}
                           /\ Holds(h, o) => o = txn[h].at
    /\ Is(h, "approve", "marked") \/ Is(h, "approve", "ready") => txn[h].mine[txn[h].at] = "approved"
    /\ Is(h, "approve", "ready") => (txn[h].last <=> PendingIn(View(h)) = {})

(* So is what a deletion has.                                               *)
DeletionFresh(h) ==
    /\ \A o \in Steps : step[o] # "approved"
    /\ Is(h, "delete", "ready") => PendingIn(View(h)) = {}

(* What is committed is what one request after the other leaves.            *)
CommittedClean ==
    /\ \A o \in Steps : decisions[o] <= 1 /\ (step[o] = "pending" => decisions[o] = 0)
    /\ announced > 0 => ApprovedIsOver /\ \E o \in Steps : step[o] = "approved"
    /\ entity = "deleted" => DeletedUnapproved /\ PendingIn(step) = {}
    /\ UnderWayHasPending

TxnFresh(h) == /\ txn[h].op \in {"approve", "reject"} => DecisionFresh(h)
               /\ txn[h].op = "delete" => DeletionFresh(h)

AloneInv == OneAtATime /\ CommittedClean /\ \A h \in Sessions : TxnFresh(h)

(* Nobody else has a transaction open, before the step or after it.         *)
LEMMA OthersHaveNone ==
    ASSUME TypeOK, OneAtATime, OneAtATime', NEW h \in Sessions, RacesStep(h)
    PROVE  \A g \in Sessions : g # h => txn[g] = None /\ txn'[g] = None
  <1>1. \A g \in Sessions : g # h => txn'[g] = txn[g]
    BY OwnTransaction
  <1>2. CASE txn[h] # None
    BY <1>1, <1>2 DEF OneAtATime
  <1>3. CASE txn[h] = None
    <2>1. txn[h].op = "none"
      BY <1>3 DEF None
    <2>2. Load(h, "approve") \/ Load(h, "reject") \/ LoadDelete(h)
      BY <1>3, <2>1
         DEF RacesStep, Mark, SkipNext, Look, CommitApprove, CommitReject, CancelSteps,
             CommitDelete, Rollback, Is
    <2>3. txn'[h].op \in {"approve", "reject", "delete"}
      <3>1. ASSUME NEW op \in {"approve", "reject"}, Load(h, op)
            PROVE  txn'[h].op = op
        BY <3>1 DEF Load, None, TypeOK
      <3>2. LoadDelete(h) => txn'[h].op = "delete"
        BY DEF LoadDelete, None, TypeOK
      <3>3. QED
        BY <2>2, <3>1, <3>2
    <2>4. txn'[h] # None
      BY <2>3 DEF None
    <2>5. QED
      BY <1>1, <2>4 DEF OneAtATime
  <1>4. QED
    BY <1>2, <1>3

(* A transaction goes on with what is committed as it was.                  *)
LEMMA WorkKeepsFresh ==
    ASSUME TypeOK, NEW h \in Sessions, TxnFresh(h), RacesStep(h), UNCHANGED committed
    PROVE  TxnFresh(h)'
  <1> USE DEF committed
  <1>1. ASSUME NEW op \in {"approve", "reject"}, Load(h, op)
        PROVE  TxnFresh(h)'
    <2>1. PICK s \in Lowest(PendingIn(step)) :
            txn' = [txn EXCEPT ![h] = [None EXCEPT !.op = op, !.pc = "loaded", !.at = s,
                                                   !.prev = Previous(s), !.seen = inst]]
      BY <1>1 DEF Load
    <2>2. s \in Steps /\ step[s] = "pending"
      BY DEF Lowest, PendingIn
    <2>3. /\ txn'[h].op = op /\ txn'[h].pc = "loaded" /\ txn'[h].at = s
          /\ txn'[h].prev = Previous(s) /\ txn'[h].seen = inst
          /\ \A o \in Steps : txn'[h].mine[o] = "untouched"
      BY <2>1 DEF TypeOK, None, Untouched
    <2>4. DecisionFresh(h)'
      BY <2>2, <2>3 DEF DecisionFresh, Holds, Is, Previous
    <2>5. QED
      BY <2>3, <2>4 DEF TxnFresh
  <1>2. CASE Mark(h)
    <2> DEFINE s == txn[h].at
    <2>1. /\ txn[h].op \in {"approve", "reject"} /\ DecisionFresh(h)
          /\ txn' = [txn EXCEPT ![h].mine[s] = Verdict(h),
                                ![h].pc = IF txn[h].op = "approve" THEN "marked" ELSE "ready"]
      BY <1>2 DEF Mark, Is, TxnFresh
    <2>2. s \in Steps /\ step[s] = "pending"
      BY <2>1 DEF DecisionFresh
    <2>3. /\ txn'[h].op = txn[h].op /\ txn'[h].at = txn[h].at /\ txn'[h].seen = txn[h].seen
          /\ txn'[h].prev = txn[h].prev
          /\ txn'[h].pc = IF txn[h].op = "approve" THEN "marked" ELSE "ready"
          /\ txn'[h].mine[s] = Verdict(h)
          /\ \A o \in Steps : o # s => txn'[h].mine[o] = txn[h].mine[o]
      BY <2>1, <2>2 DEF TypeOK
    <2>4. \A o \in Steps : o # s => (Holds(h, o)' <=> Holds(h, o))
      BY <2>3 DEF Holds
    <2>5. CASE txn[h].op = "approve"
      <3>1. Verdict(h) = "approved" /\ txn'[h].pc = "marked"
        BY <2>3, <2>5 DEF Verdict
      <3>2. \A o \in Steps : txn'[h].mine[o] \in {"approved", "untouched"}
        BY <2>1, <2>3, <2>5, <3>1 DEF DecisionFresh
      <3>3. \A o \in Steps : Holds(h, o)' => step'[o] = "pending"
        BY <1>2, <2>1, <2>2, <2>4 DEF DecisionFresh, Mark
      <3>4. DecisionFresh(h)'
        BY <1>2, <2>1, <2>2, <2>3, <2>5, <3>1, <3>2, <3>3 DEF DecisionFresh, Is, Previous, Mark
      <3>5. QED
        BY <2>3, <2>5, <3>4 DEF TxnFresh
    <2>6. CASE txn[h].op = "reject"
      <3>1. Verdict(h) = "rejected" /\ txn'[h].pc = "ready"
        BY <2>3, <2>6 DEF Verdict
      <3>2. \A o \in Steps : txn'[h].mine[o] \in {"rejected", "untouched"}
        BY <2>1, <2>3, <2>6, <3>1 DEF DecisionFresh
      <3>3. \A o \in Steps : Holds(h, o)' => step'[o] = "pending" /\ o = txn'[h].at
        BY <1>2, <2>1, <2>2, <2>3, <2>4, <2>6 DEF DecisionFresh, Mark
      <3>4. DecisionFresh(h)'
        BY <1>2, <2>1, <2>2, <2>3, <2>6, <3>1, <3>2, <3>3 DEF DecisionFresh, Is, Previous, Mark
      <3>5. QED
        BY <2>3, <2>6, <3>4 DEF TxnFresh
    <2>7. QED
      BY <2>1, <2>5, <2>6
  <1>3. CASE SkipNext(h)
    <2>1. PICK s \in Lowest(PendingIn(View(h))) : txn' = [txn EXCEPT ![h].mine[s] = "approved"]
      BY <1>3 DEF SkipNext
    <2>2. txn[h].op = "approve" /\ txn[h].pc = "marked" /\ DecisionFresh(h)
      BY <1>3 DEF SkipNext, Is, TxnFresh
    <2>3. s \in Steps /\ step[s] = "pending"
      BY <2>2 DEF Lowest, PendingIn, View, DecisionFresh
    <2>4. /\ txn'[h].op = txn[h].op /\ txn'[h].at = txn[h].at /\ txn'[h].seen = txn[h].seen
          /\ txn'[h].prev = txn[h].prev /\ txn'[h].pc = "marked"
          /\ txn'[h].mine[s] = "approved"
          /\ \A o \in Steps : o # s => txn'[h].mine[o] = txn[h].mine[o]
      BY <2>1, <2>2, <2>3 DEF TypeOK
    <2>5. DecisionFresh(h)'
      BY <2>2, <2>3, <2>4 DEF DecisionFresh, Holds, Is, Previous
    <2>6. QED
      BY <2>2, <2>4, <2>5 DEF TxnFresh
  <1>4. CASE Look(h)
    <2>1. txn[h].op = "approve" /\ txn[h].pc = "marked" /\ DecisionFresh(h)
      BY <1>4 DEF Look, Is, TxnFresh
    <2>2. /\ txn'[h].op = txn[h].op /\ txn'[h].at = txn[h].at /\ txn'[h].seen = txn[h].seen
          /\ txn'[h].prev = txn[h].prev /\ txn'[h].pc = "ready"
          /\ txn'[h].mine = txn[h].mine /\ txn'[h].last = NoneLeft(h)
      BY <1>4, <2>1 DEF Look, TypeOK
    <2>3. PendingIn(View(h))' = PendingIn(View(h))
      BY <1>4, <2>2 DEF PendingIn, View
    <2>4. txn'[h].last <=> PendingIn(View(h))' = {}
      BY <2>2, <2>3 DEF NoneLeft
    <2>5. \A o \in Steps : Holds(h, o)' <=> Holds(h, o)
      BY <2>2 DEF Holds
    <2>6. \A o \in Steps : Holds(h, o)' => step'[o] = "pending"
      BY <1>4, <2>1, <2>5 DEF DecisionFresh, Look
    <2>7. DecisionFresh(h)'
      BY <1>4, <2>1, <2>2, <2>4, <2>6 DEF DecisionFresh, Is, Previous, Look
    <2>8. QED
      BY <2>1, <2>2, <2>7 DEF TxnFresh
  <1>5. CASE LoadDelete(h)
    <2>1. txn'[h].op = "delete" /\ txn'[h].pc = "loaded"
      BY <1>5 DEF LoadDelete, TypeOK, None
    <2>2. QED
      BY <1>5, <2>1 DEF LoadDelete, TxnFresh, DeletionFresh, Deletable, Is
  <1>6. CASE CancelSteps(h)
    <2>1. txn[h].op = "delete" /\ DeletionFresh(h)
      BY <1>6 DEF CancelSteps, Is, TxnFresh
    <2>2. /\ txn'[h].op = "delete"
          /\ txn'[h].mine = [o \in Steps |-> IF step[o] = "pending" THEN "cancelled" ELSE "untouched"]
      BY <1>6, <2>1 DEF CancelSteps, TypeOK
    <2>3. PendingIn(View(h))' = {}
      BY <2>2 DEF PendingIn, View
    <2>4. QED
      BY <2>1, <2>2, <2>3 DEF TxnFresh, DeletionFresh
  <1>7. CASE txn'[h] = None
    BY <1>7 DEF None, TxnFresh
  <1>8. CASE CommitApprove(h) \/ CommitReject(h) \/ CommitDelete(h) \/ Rollback(h)
    BY <1>7, <1>8 DEF CommitApprove, CommitReject, CommitDelete, Rollback, TypeOK
  <1>9. QED
    BY <1>1, <1>2, <1>3, <1>4, <1>5, <1>6, <1>8 DEF RacesStep

(* The commit of an approval decides steps that nobody has decided.         *)
LEMMA ApproveKeepsClean ==
    ASSUME TypeOK, NEW h \in Sessions, TxnFresh(h), CommittedClean, CommitApprove(h)
    PROVE  CommittedClean'
  <1> DEFINE s == txn[h].at
  <1>1. DecisionFresh(h) /\ Is(h, "approve", "ready")
    BY DEF CommitApprove, Is, TxnFresh
  <1>2. s \in Steps /\ step[s] = "pending" /\ txn[h].mine[s] = "approved" /\ txn[h].seen = inst
        /\ (txn[h].last <=> PendingIn(View(h)) = {})
    BY <1>1 DEF DecisionFresh
  <1>3. announced = 0 /\ entity # "deleted"
    BY <1>2 DEF CommittedClean, ApprovedIsOver, PendingIn, TypeOK
  <1>4. /\ step' = View(h) /\ entity' = entity
        /\ inst' = IF txn[h].last THEN Written(h, "approved") ELSE inst
        /\ announced' = IF txn[h].last THEN Bump(announced) ELSE announced
        /\ decisions' = [o \in Steps |-> IF o \in Decided(h) THEN Bump(decisions[o])
                                                              ELSE decisions[o]]
    BY DEF CommitApprove
  <1>5. ASSUME NEW o \in Steps
        PROVE  decisions'[o] <= 1 /\ (step'[o] = "pending" => decisions'[o] = 0)
    <2>1. CASE Holds(h, o)
      <3>1. step[o] = "pending" /\ txn[h].mine[o] = "approved"
        BY <1>1, <2>1 DEF DecisionFresh, Holds, Is
      <3>2. decisions[o] = 0 /\ step'[o] = "approved"
        BY <1>4, <3>1 DEF CommittedClean, View
      <3>3. decisions'[o] = 1
        BY <1>4, <3>1, <3>2 DEF Decided, Bump
      <3>4. QED
        BY <3>2, <3>3
    <2>2. CASE ~Holds(h, o)
      <3>1. step'[o] = step[o] /\ decisions'[o] = decisions[o]
        BY <1>4, <2>2 DEF Decided, Holds, View
      <3>2. QED
        BY <3>1 DEF CommittedClean
    <2>3. QED
      BY <2>1, <2>2
  <1>6. announced' > 0 => ApprovedIsOver' /\ \E o \in Steps : step'[o] = "approved"
    <2> SUFFICES ASSUME announced' > 0
                 PROVE  ApprovedIsOver' /\ \E o \in Steps : step'[o] = "approved"
      OBVIOUS
    <2>1. txn[h].last
      <3>1. ~txn[h].last => announced' = 0
        BY <1>3, <1>4
      <3>2. QED
        BY <3>1
    <2>2. inst' = "approved"
      BY <1>2, <1>4, <2>1 DEF Written
    <2>3. PendingIn(step)' = {}
      BY <1>2, <1>4, <2>1
    <2>4. step'[s] = "approved"
      BY <1>2, <1>4 DEF View
    <2>5. QED
      BY <1>2, <2>2, <2>3, <2>4 DEF ApprovedIsOver
  <1>7. UnderWayHasPending'
    <2>1. txn[h].last => inst' = "approved"
      BY <1>2, <1>4 DEF Written
    <2>2. ~txn[h].last => PendingIn(step)' # {}
      BY <1>2, <1>4
    <2>3. QED
      BY <2>1, <2>2 DEF UnderWayHasPending
  <1>8. QED
    BY <1>3, <1>4, <1>5, <1>6, <1>7 DEF CommittedClean

(* The commit of a rejection makes the step before pending, or ends the     *)
(* instance.                                                                *)
LEMMA RejectKeepsClean ==
    ASSUME TypeOK, NEW h \in Sessions, TxnFresh(h), CommittedClean, CommitReject(h)
    PROVE  CommittedClean'
  <1> DEFINE s == txn[h].at
             p == txn[h].prev
  <1>1. DecisionFresh(h) /\ txn[h].op = "reject"
    BY DEF CommitReject, Is, TxnFresh
  <1>2. s \in Steps /\ step[s] = "pending" /\ txn[h].seen = inst /\ p = Previous(s)
        /\ \A o \in Steps : txn[h].mine[o] \in {"rejected", "untouched"} /\ (Holds(h, o) => o = s)
    BY <1>1 DEF DecisionFresh
  <1>3. announced = 0 /\ entity # "deleted"
    BY <1>2 DEF CommittedClean, ApprovedIsOver, PendingIn, TypeOK
  <1>4. p # s /\ (p = 0 \/ p \in Steps)
    BY <1>2, PreviousTyped DEF Previous, Steps
  <1>5. /\ entity' = entity /\ announced' = announced
        /\ inst' = Written(h, IF p = 0 THEN "returned" ELSE "in_progress")
        /\ step' = [o \in Steps |-> IF o \in Reopened(h) THEN "pending" ELSE View(h)[o]]
    BY DEF CommitReject
  <1>6. ASSUME NEW o \in Steps
        PROVE  decisions'[o] <= 1 /\ (step'[o] = "pending" => decisions'[o] = 0)
    <2>1. decisions'[o] = CASE o \in Reopened(h) -> 0
                            [] o \in Decided(h) -> Bump(decisions[o])
                            [] OTHER -> decisions[o]
      BY DEF CommitReject
    <2>2. CASE o \in Reopened(h)
      <3>1. o \notin Decided(h)
        BY <1>2, <1>4, <2>2 DEF Reopened, Decided, Holds
      <3>2. QED
        BY <2>1, <2>2, <3>1
    <2>3. CASE o \notin Reopened(h) /\ o \in Decided(h)
      <3>1. step'[o] = "rejected" /\ decisions[o] = 0
        BY <1>2, <1>5, <2>3 DEF Decided, View, Holds, CommittedClean
      <3>2. QED
        BY <2>1, <2>3, <3>1 DEF Bump
    <2>4. CASE o \notin Reopened(h) /\ o \notin Decided(h)
      BY <1>5, <2>1, <2>4 DEF Decided, View, CommittedClean
    <2>5. QED
      BY <2>2, <2>3, <2>4
  <1>7. UnderWayHasPending'
    <2>1. CASE p = 0
      BY <1>2, <1>5, <2>1 DEF Written, UnderWayHasPending
    <2>2. CASE p \in Steps
      <3>1. step'[p] = "pending"
        BY <1>4, <1>5, <2>2 DEF Reopened, Steps
      <3>2. QED
        BY <2>2, <3>1 DEF UnderWayHasPending, PendingIn
    <2>3. QED
      BY <1>4, <2>1, <2>2
  <1>8. QED
    BY <1>3, <1>5, <1>6, <1>7 DEF CommittedClean

(* The commit of a deletion finds nothing approved.                         *)
LEMMA DeleteKeepsClean ==
    ASSUME TypeOK, DeletesCancel, NEW h \in Sessions, TxnFresh(h), CommittedClean, CommitDelete(h)
    PROVE  CommittedClean'
  <1>1. DeletionFresh(h) /\ Is(h, "delete", "ready")
    BY DEF CommitDelete, Is, TxnFresh
  <1>2. /\ step' = View(h) /\ inst' = "cancelled" /\ UNCHANGED <<decisions, announced>>
    BY DEF CommitDelete
  <1>3. PendingIn(step)' = {} /\ \A o \in Steps : step'[o] \notin {"approved", "pending"}
    BY <1>1, <1>2 DEF DeletionFresh, DeletesCancel, View, PendingIn, Is
  <1>4. ~(announced > 0)
    BY <1>1 DEF DeletionFresh, CommittedClean
  <1>5. QED
    BY <1>2, <1>3, <1>4 DEF CommittedClean, DeletedUnapproved, UnderWayHasPending

(* One request at a time, every transaction commits on what it loaded.      *)
THEOREM AloneInvariant == MCSpec => [](load = "alone" => AloneInv)
  <1>1. MCInit => (load = "alone" => AloneInv)
    <2> SUFFICES ASSUME Init PROVE AloneInv
      BY DEF MCInit
    <2>1. \A h \in Sessions : txn[h] = None /\ txn[h].op = "none"
      BY DEF Init, None
    <2>2. 1 \in PendingIn(step)
      BY RacesAssumption DEF Init, PendingIn, Steps
    <2>3. CommittedClean
      BY <2>2 DEF Init, CommittedClean, UnderWayHasPending
    <2>4. OneAtATime
      BY <2>1 DEF OneAtATime
    <2>5. \A h \in Sessions : TxnFresh(h)
      BY <2>1 DEF TxnFresh
    <2>6. QED
      BY <2>3, <2>4, <2>5 DEF AloneInv
  <1>2. RacesInv /\ (load = "alone" => AloneInv) /\ [MCNext]_<<vars, load>>
          => (load = "alone" => AloneInv)'
    <2> SUFFICES ASSUME TypeOK, DeletesCancel, load = "alone", AloneInv, [MCNext]_<<vars, load>>
                 PROVE  AloneInv'
      BY LoadsAreSteps DEF RacesInv
    <2>1. CASE UNCHANGED vars
      BY <2>1
         DEF vars, AloneInv, OneAtATime, CommittedClean, TxnFresh, DecisionFresh, DeletionFresh,
             ApprovedIsOver, DeletedUnapproved, UnderWayHasPending, PendingIn, Holds, Is, View
    <2>2. ASSUME NEW h \in Sessions, RacesStep(h), InLoad'
          PROVE  AloneInv'
      <3>1. OneAtATime'
        BY <2>2, LoadsAreSteps DEF InLoad, OneAtATime
      <3>2. \A g \in Sessions : g # h => txn'[g] = None
        BY <2>2, <3>1, OthersHaveNone DEF AloneInv
      <3>3. \A g \in Sessions : g # h => TxnFresh(g)'
        BY <3>2 DEF TxnFresh, None
      <3>4. TxnFresh(h) /\ CommittedClean
        BY DEF AloneInv
      <3>5. CASE UNCHANGED committed
        <4>1. CommittedClean'
          BY <3>4, <3>5
             DEF committed, CommittedClean, ApprovedIsOver, DeletedUnapproved, UnderWayHasPending,
                 PendingIn
        <4>2. QED
          BY <2>2, <3>1, <3>3, <3>4, <3>5, <4>1, WorkKeepsFresh DEF AloneInv
      <3>6. CASE CommitApprove(h) \/ CommitReject(h) \/ CommitDelete(h)
        <4>1. TxnFresh(h)'
          BY <3>6 DEF CommitApprove, CommitReject, CommitDelete, TypeOK, TxnFresh, None
        <4>2. CommittedClean'
          BY <3>4, <3>6, ApproveKeepsClean, RejectKeepsClean, DeleteKeepsClean
        <4>3. QED
          BY <3>1, <3>3, <4>1, <4>2 DEF AloneInv
      <3>7. QED
        BY <2>2, <3>5, <3>6
           DEF RacesStep, Load, Mark, SkipNext, Look, LoadDelete, CancelSteps, Rollback
    <2>3. QED
      BY <2>1, <2>2, LoadsAreSteps
  <1>3. MCSpec => []RacesInv
    BY LoadsAreBehaviours, RacesInvariant, PTL
  <1>4. QED
    BY <1>1, <1>2, <1>3, PTL DEF MCSpec

(* Requests that only approve, or that come one at a time, never leave an   *)
(* instance under way with nobody to decide it.                             *)
THEOREM RacesApprovalsLeaveAPending == MCSpec => []ApprovalsLeaveAPending
  <1>1. MCInit => load \in {"any", "approvals", "alone"}
    BY DEF MCInit
  <1>2. load \in {"any", "approvals", "alone"} /\ [MCNext]_<<vars, load>>
          => (load \in {"any", "approvals", "alone"})'
    BY LoadsAreSteps
  <1>3. MCSpec => [](load \in {"any", "approvals", "alone"})
    BY <1>1, <1>2, PTL DEF MCSpec
  <1>4. load \in {"any", "approvals", "alone"} /\ (load = "approvals" => ApprovalsInv)
          /\ (load = "alone" => AloneInv)
          => ApprovalsLeaveAPending
    BY DEF ApprovalsLeaveAPending, ApprovalsInv, AloneInv, CommittedClean
  <1>5. QED
    BY <1>3, <1>4, ApprovalsInvariant, AloneInvariant, PTL

(* One request at a time, the engine does what its transactions promise.    *)
THEOREM RacesCleanAlone == MCSpec => []CleanAlone
  <1>1. (load = "alone" => AloneInv) => CleanAlone
    BY DEF CleanAlone, AloneInv, CommittedClean, DecidedOnce, ApprovedIsOver, DeletedUnapproved
  <1>2. QED
    BY <1>1, AloneInvariant, PTL
=============================================================================
