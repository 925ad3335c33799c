---------------------------- MODULE WorkflowRaces ----------------------------
(***************************************************************************)
(* The transactions of the approval engine, statement by statement, at the  *)
(* isolation level they run at: PostgreSQL's READ COMMITTED, no row locked  *)
(* by a read.  WorkflowEngine takes each of them as one step; here several  *)
(* sessions approve, reject and delete one instance at once.  A session     *)
(* loads what is committed, flushes its first update, which locks that row  *)
(* until its commit, and writes on commit what it set, whatever it loaded   *)
(* has become since.  An attribute set to the value it was loaded with is   *)
(* not written at all.                                                      *)
(***************************************************************************)
EXTENDS Integers

CONSTANTS Sessions,    \* concurrent HTTP requests
          NumSteps,    \* steps of the chain
          ManualSteps, \* those that are never auto-skipped
          Assignee,    \* Assignee[o]: who is to decide step o
          Ops          \* what they do: some of "approve", "reject", "delete"

Steps == 1..NumSteps

ASSUME RacesAssumption == /\ NumSteps \in Nat \ {0} /\ ManualSteps \subseteq Steps
                          /\ Ops \subseteq {"approve", "reject", "delete"}

VARIABLES entity,    \* the business row: "live" or "deleted"
          inst,      \* WorkflowInstance.status
          step,      \* step[o]: WorkflowStep.status
          decisions, \* decisions[o]: decisions recorded since o was last made
                     \* pending, up to 2
          announced, \* workflow.approved events published, up to 2
          txn        \* txn[h]: the open transaction of h

vars == <<entity, inst, step, decisions, announced, txn>>
committed == <<entity, inst, step, decisions, announced>>

Untouched == [o \in Steps |-> "untouched"]
None == [op |-> "none", pc |-> "idle", at |-> 0, prev |-> 0, seen |-> "pending",
         last |-> FALSE, mine |-> Untouched]

StepStatus == {"pending", "approved", "rejected", "cancelled"}
InstStatus == {"pending", "in_progress", "approved", "returned", "cancelled"}

TypeOK ==
    /\ entity \in {"live", "deleted"}
    /\ inst \in InstStatus
    /\ step \in [Steps -> StepStatus]
    /\ decisions \in [Steps -> 0..2] /\ announced \in 0..2
    /\ txn \in [Sessions ->
          [op : {"none", "approve", "reject", "delete"},
           pc : {"idle", "loaded", "marked", "ready"},
           at : Steps \cup {0}, prev : Steps \cup {0}, seen : InstStatus,
           last : BOOLEAN, mine : [Steps -> StepStatus \cup {"untouched"}]]]

(* start_workflow_instance has committed. *)
Init ==
    /\ entity = "live"
    /\ inst = "pending"
    /\ step = [o \in Steps |-> "pending"]
    /\ decisions = [o \in Steps |-> 0]
    /\ announced = 0
    /\ txn = [h \in Sessions |-> None]

-----------------------------------------------------------------------------
(* What a session sees, and what it has to wait for.                        *)

Is(h, op, pc) == txn[h].op = op /\ txn[h].pc = pc

(* A query sees what is committed and the session's own updates.            *)
View(h) == [o \in Steps |-> IF txn[h].mine[o] = "untouched" THEN step[o] ELSE txn[h].mine[o]]

Lowest(S) == {o \in S : \A p \in S : o <= p}
PendingIn(view) == {o \in Steps : view[o] = "pending"}

(* An update waits for the sessions that have updated the row.              *)
StepFree(h, o) == \A g \in Sessions \ {h} : txn[g].mine[o] = "untouched"
InstanceFree(h) == \A g \in Sessions \ {h} : ~Is(g, "delete", "ready")

Bump(n) == IF n = 2 THEN 2 ELSE n + 1

-----------------------------------------------------------------------------
(* approve_step and reject_step.                                            *)

(* The step below s that a rejection of s goes back to, 0 if there is none. *)
Previous(s) == s - 1

(* The pending step and the instance are loaded, for a rejection the        *)
(* previous step too.                                                       *)
Load(h, op) ==
    /\ op \in Ops
    /\ txn[h] = None
    /\ \E s \in Lowest(PendingIn(step)) :
         txn' = [txn EXCEPT ![h] =
                   [None EXCEPT !.op = op, !.pc = "loaded", !.at = s,
                                !.prev = Previous(s), !.seen = inst]]
    /\ UNCHANGED committed

VerdictAsInstance(h) == IF txn[h].op = "approve" THEN "approved"
                        ELSE IF txn[h].prev = 0 THEN "returned" ELSE "rejected"
Verdict(h) == IF txn[h].op = "approve" THEN "approved" ELSE "rejected"

(* record_workflow_decision flushes the new status of the step: the update  *)
(* names the row by its id, and does not ask whether it is still pending.   *)
Mark(h) ==
    LET s == txn[h].at IN
    /\ Is(h, "approve", "loaded") \/ Is(h, "reject", "loaded")
    /\ StepFree(h, s)
    /\ txn' = [txn EXCEPT
         ![h].mine[s] = Verdict(h),
         ![h].pc = IF txn[h].op = "approve" THEN "marked" ELSE "ready"]
    /\ UNCHANGED committed

Skippable(h, o) == Assignee[o] = Assignee[txn[h].at] /\ o \notin ManualSteps

(* The loop: a next step of the same approver is completed as well,         *)
SkipNext(h) ==
    /\ Is(h, "approve", "marked")
    /\ \E o \in Lowest(PendingIn(View(h))) :
         /\ Skippable(h, o) /\ StepFree(h, o)
         /\ txn' = [txn EXCEPT ![h].mine[o] = "approved"]
    /\ UNCHANGED committed

NoneCommitted(h) == PendingIn(step) = {}
NoneLeft(h) == PendingIn(View(h)) = {}

(* until another one is found, or none.                                     *)
Look(h) ==
    /\ Is(h, "approve", "marked")
    /\ \A o \in Lowest(PendingIn(View(h))) : ~Skippable(h, o)
    /\ txn' = [txn EXCEPT ![h].pc = "ready", ![h].last = NoneLeft(h)]
    /\ UNCHANGED committed

DecidedAsked(h) == {txn[h].at}
Decided(h) == {o \in Steps : txn[h].mine[o] # "untouched"}

(* The value an attribute has after a commit that set it to v.              *)
Written(h, v) == IF txn[h].seen = v THEN inst ELSE v

(* The commit of an approval; the last one is published.                    *)
CommitApprove(h) ==
    /\ Is(h, "approve", "ready")
    /\ txn[h].last => InstanceFree(h)
    /\ step' = View(h)
    /\ decisions' = [o \in Steps |-> IF o \in Decided(h) THEN Bump(decisions[o])
                                                         ELSE decisions[o]]
    /\ inst' = IF txn[h].last THEN Written(h, "approved") ELSE inst
    /\ announced' = IF txn[h].last THEN Bump(announced) ELSE announced
    /\ txn' = [txn EXCEPT ![h] = None]
    /\ UNCHANGED entity

(* The step a rejection makes pending again.                                *)
Reopened(h) == {txn[h].prev} \ {0}

(* The commit of a rejection.                                               *)
CommitReject(h) ==
    /\ Is(h, "reject", "ready")
    /\ InstanceFree(h)
    /\ \A p \in Reopened(h) : StepFree(h, p)
    /\ step' = [o \in Steps |-> IF o \in Reopened(h) THEN "pending" ELSE View(h)[o]]
    /\ decisions' = [o \in Steps |-> CASE o \in Reopened(h) -> 0
                                       [] o \in Decided(h) -> Bump(decisions[o])
                                       [] OTHER -> decisions[o]]
    /\ inst' = Written(h, IF txn[h].prev = 0 THEN "returned" ELSE "in_progress")
    /\ txn' = [txn EXCEPT ![h] = None]
    /\ UNCHANGED <<entity, announced>>

-----------------------------------------------------------------------------
(* Deleting the row.                                                        *)

DeletableAlways == TRUE

(* ensure_request_deletable *)
Deletable == \A o \in Steps : step[o] # "approved"

LoadDelete(h) ==
    /\ "delete" \in Ops
    /\ txn[h] = None
    /\ entity = "live"
    /\ Deletable
    /\ txn' = [txn EXCEPT ![h] = [None EXCEPT !.op = "delete", !.pc = "loaded"]]
    /\ UNCHANGED committed

(* cancel_workflow_instance: one UPDATE of the steps that are pending now,  *)
(* and the flush of the instance.                                           *)
CancelSteps(h) ==
    /\ Is(h, "delete", "loaded")
    /\ \A o \in PendingIn(step) : StepFree(h, o)
    /\ InstanceFree(h)
    /\ txn' = [txn EXCEPT
         ![h].pc = "ready",
         ![h].mine = [o \in Steps |-> IF step[o] = "pending" THEN "cancelled" ELSE "untouched"]]
    /\ UNCHANGED committed

CommitDelete(h) ==
    /\ Is(h, "delete", "ready")
    /\ entity = "live"
    /\ entity' = "deleted"
    /\ step' = View(h)
    /\ inst' = "cancelled"
    /\ txn' = [txn EXCEPT ![h] = None]
    /\ UNCHANGED <<decisions, announced>>

(* A transaction is rolled back: the process died, an exception, or the     *)
(* database broke a deadlock.                                               *)
Rollback(h) ==
    /\ txn[h] # None
    /\ txn' = [txn EXCEPT ![h] = None]
    /\ UNCHANGED committed

Next == \E h \in Sessions :
    \/ Load(h, "approve") \/ Load(h, "reject")
    \/ Mark(h) \/ SkipNext(h) \/ Look(h)
    \/ CommitApprove(h) \/ CommitReject(h)
    \/ LoadDelete(h) \/ CancelSteps(h) \/ CommitDelete(h)
    \/ Rollback(h)

Spec == Init /\ [][Next]_vars

-----------------------------------------------------------------------------
(* An instance that is under way has a step to be decided, whichever        *)
(* decisions and deletions met.                                             *)
UnderWayHasPending == inst \in {"pending", "in_progress"} => PendingIn(step) # {}

(* Types, and no approval or rejection exists without a decision in the log. *)
DecidedIsLogged ==
    /\ TypeOK
    /\ \A o \in Steps : step[o] \in {"approved", "rejected"} => decisions[o] > 0

(* A step is decided once each time it becomes pending.                     *)
DecidedOnce == \A o \in Steps : decisions[o] <= 1

(* What was announced as approved is approved, and nobody is asked again.   *)
ApprovedIsOver == announced > 0 => inst = "approved" /\ PendingIn(step) = {}

(* A row is only deleted before the first approval.                         *)
DeletedUnapproved == entity = "deleted" => \A o \in Steps : step[o] # "approved"
=============================================================================
