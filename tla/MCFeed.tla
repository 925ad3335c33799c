------------------------------- MODULE MCFeed -------------------------------
(* The two things the inbox and the deadline worker serve: an approval      *)
(* chain of two steps, the second one the managing director's, or an ad-hoc *)
(* task.  They never share a row, so each initial state has one of them.    *)
(* Bounds: where transactions overlap, none fails, and steps have no policy *)
(* at first and get the default one.                                        *)
EXTENDS WorkflowFeed, AdHocTask, TLC

MCAssignee == <<"a", "c">>

VARIABLE part

all == <<feedVars, taskVars, part>>

MCInit ==
    /\ FeedInit /\ TaskInit
    /\ part \in {"chain", "task"}
    /\ part = "task" \/ ~alone => \A o \in Steps : policy[o] = "none"

InChain == /\ part = "chain" /\ UNCHANGED <<alone, task, steps, txn, scan, hops, told, away, part>>
           /\ InTurn'
           /\ ~alone => failures' = failures /\ edits' = edits
InTask == part = "task" /\ UNCHANGED <<alone, wfVars, part>> /\ OneAnswer'

MCNext ==
    \/ \E h \in Handlers : \/ \E o \in Steps : ApproveStep(h, o) /\ InChain
                           \/ \E o \in Steps : RejectStep(h, o) /\ InChain
                           \/ Publish(h) /\ InChain
    \/ \E o \in Steps : Take(o) /\ InChain
    \/ \E o \in Steps : Lapse(o) /\ InChain
    \/ \E o \in Steps : CreatePolicy(o) /\ InChain
    \/ \E o \in Steps : SwitchPolicy(o) /\ InChain
    \/ \E o \in Steps : DeletePolicy(o) /\ InChain
    \/ SyncPolicies /\ InChain
    \/ \E t \in Tellers : LookAround(t) /\ InChain
    \/ \E t \in Tellers : Write(t) /\ InChain
    \/ \E t \in Tellers : Break(t) /\ InChain
    \/ Cancel /\ InChain
    \/ Scan /\ InChain
    \/ CommitScan /\ InChain
    \/ FailScan /\ InChain
    \/ \E u \in People \ {Submitter} : LookAtDesk(u) /\ InChain
    \/ \E u \in People : CreateTask(u) /\ InTask
    \/ \E u \in People : LoadTask(u) /\ InTask
    \/ \E u \in People : CloseTask(u) /\ InTask
    \/ \E u \in People : DropTask(u) /\ InTask
    \/ \E u, v \in People : HandOn(u, v) /\ InTask
    \/ TaskLapse /\ InTask
    \/ ScanTask /\ InTask
    \/ AnnounceTask /\ InTask
    \/ \E u \in People : LookAtTask(u) /\ InTask

MCSpec == MCInit /\ [][MCNext]_all

(* One transaction at a time, and nobody has read anything.  A handler that *)
(* has committed goes on unless its process dies; the consumer and the      *)
(* worker are loops, and an answer to a task ends.                          *)
AloneSpec ==
    /\ MCInit /\ alone = TRUE /\ [][MCNext /\ UNCHANGED looked]_all
    /\ \A h \in Handlers : WF_all(Publish(h) /\ InChain)
    /\ \A t \in Tellers : WF_all(LookAround(t) /\ InChain) /\ WF_all((Write(t) \/ Break(t)) /\ InChain)
    /\ \A o \in Steps : SF_all(Take(o) /\ InChain)
    /\ SF_all(Scan /\ InChain) /\ WF_all(CommitScan /\ InChain)
    /\ SF_all(ScanTask /\ InTask) /\ WF_all(AnnounceTask /\ InTask)
    /\ \A u \in People : WF_all((CloseTask(u) \/ DropTask(u)) /\ InTask)

(* The deadline of a step that waits, and that of an open task, is announced *)
(* when it passes, and a published event reaches the assignee, also after   *)
(* transactions that failed.                                                *)
DeadlinesAreAnnounced ==
    /\ \A o \in Steps : (o \in Awaited /\ due[o].past > 0) ~> (o \in alarmed \/ o \notin Awaited)
    /\ (task.status = "open" /\ task.due = "past")
         ~> (told \/ task.status = "closed" \/ task.due = "running")
    /\ PublishedIsTold
=============================================================================
