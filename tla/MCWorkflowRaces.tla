--------------------------- MODULE MCWorkflowRaces ---------------------------
(* WorkflowRaces with a chain whose first and second step belong to the same *)
(* approver, under three loads: any requests at once, approvals only, or one *)
(* request at a time.                                                       *)
EXTENDS WorkflowRaces, TLC

FirstTwo == [o \in Steps |-> IF o = 1 THEN 2 ELSE o]
SessionSymmetry == Permutations(Sessions)

VARIABLE load

InLoad ==
    CASE load = "any" -> TRUE
      [] load = "approvals" -> \A h \in Sessions : txn[h].op \in {"none", "approve"}
      [] load = "alone" -> \A g, h \in Sessions : txn[g] # None /\ txn[h] # None => g = h

MCInit == Init /\ load \in {"any", "approvals", "alone"}
Kept == UNCHANGED load /\ InLoad'
MCNext == \E h \in Sessions :
    \/ Load(h, "approve") /\ Kept
    \/ Load(h, "reject") /\ Kept
    \/ Mark(h) /\ Kept
    \/ SkipNext(h) /\ Kept
    \/ Look(h) /\ Kept
    \/ CommitApprove(h) /\ Kept
    \/ CommitReject(h) /\ Kept
    \/ LoadDelete(h) /\ Kept
    \/ CancelSteps(h) /\ Kept
    \/ CommitDelete(h) /\ Kept
    \/ Rollback(h) /\ Kept
MCSpec == MCInit /\ [][MCNext]_<<vars, load>>

(* However many approvals of one instance run at once, skipping the same    *)
(* steps, it is never left under way with nobody to decide.                 *)
ApprovalsLeaveAPending == load # "any" => UnderWayHasPending

(* One request at a time: a step is decided once each time it becomes       *)
(* pending; what was announced as approved is approved, and neither a       *)
(* rejection nor a deletion takes it back; a row that is deleted was        *)
(* approved by nobody.                                                      *)
CleanAlone == load = "alone" => DecidedOnce /\ ApprovedIsOver /\ DeletedUnapproved
=============================================================================
