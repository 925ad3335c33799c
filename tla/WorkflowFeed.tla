---------------------------- MODULE WorkflowFeed ----------------------------
(***************************************************************************)
(* Who is told that it is his turn, and who notices when nothing happens:   *)
(* the inbox items, notifications and deadlines of one workflow instance.   *)
(* approve_step and reject_step commit the decision first; what tells the   *)
(* next assignee is the tail of the handler, after that commit.  An         *)
(* approval publishes workflow.next_step as well, and the consumer does the *)
(* same work again, at any later time.  The deadline worker reads the       *)
(* records that are due and commits once at the end of its cycle.           *)
(***************************************************************************)
EXTENDS Inbox

CONSTANTS Length,       \* steps of the chain
          Assignee,     \* Assignee[o]: who is to decide step o
          Submitter,    \* who filed the request
          CEOs,         \* users with the role of the managing director
          Handlers,     \* HTTP requests that may be under way at once
          MaxFailures,  \* rolled back transactions, crashes and redeliveries
          MaxEdits      \* changes of the deadline policies

Steps == 1..Length

ASSUME FeedAssumption == /\ Length \in Nat \ {0} /\ MaxFailures \in Nat /\ MaxEdits \in Nat
                         /\ Assignee \in [Steps -> People]
                         /\ Submitter \in People /\ CEOs \subseteq People
                         /\ \A o \in Steps : Assignee[o] # Submitter
                         /\ "consumer" \notin Handlers

VARIABLES instance, \* WorkflowInstance.status
          stage,    \* stage[o]: WorkflowStep.status
          due,      \* due[o]: SLA records of o that are not triggered
          policy,   \* policy[o]: the row of sla_policies for this step
          queue,    \* steps with a workflow.next_step event that is not acknowledged
          tail,     \* tail[t]: what handler or consumer t still has to do
          cycle,    \* cycle[o]: what the worker has decided about o's records
          alarmed,  \* steps whose breach was announced since they became pending
          looked,   \* users who read or put away something since they were asked
          lost,     \* steps whose teller died between commit and publication
          failures, \* rolled back transactions, crashes and redeliveries so far
          edits     \* changes of the policies so far

wfVars == <<instance, stage, due, policy, queue, tail, cycle, alarmed, looked, lost, failures, edits>>
feedVars == <<desk, alone, wfVars>>

Consumer == "consumer"
Tellers == Handlers \cup {Consumer}
TailAt(pc, about, o) == [pc |-> pc, about |-> about, at |-> o,
                         item |-> FALSE, record |-> FALSE, default |-> FALSE]
NoTail == TailAt("idle", "nothing", 0)
Tails == [pc : {"idle", "publish", "look", "write"},
          about : {"nothing", "next", "previous", "approved", "returned"},
          at : Steps \cup {0}, item : BOOLEAN, record : BOOLEAN, default : BOOLEAN]

(* Records of one step: those running and those past their time, counted up *)
(* to two.                                                                  *)
RecordRows == [running : 0..2, past : 0..2]
NoRecords == [running |-> 0, past |-> 0]
Records(o) == due[o].running + due[o].past
More(n) == IF n < 2 THEN n + 1 ELSE n

FeedTypeOK ==
    /\ desk \in [People -> Desks]
    /\ instance \in {"in_progress", "approved", "returned", "cancelled"}
    /\ stage \in [Steps -> {"pending", "approved", "rejected", "cancelled"}]
    /\ due \in [Steps -> RecordRows]
    /\ policy \in [Steps -> {"none", "active", "inactive"}]
    /\ queue \subseteq Steps /\ alarmed \subseteq Steps /\ lost \subseteq Steps
    /\ looked \subseteq People
    /\ tail \in [Tellers -> Tails]
    /\ cycle \in [Steps -> {"skip", "close", "announce"}]
    /\ failures \in 0..MaxFailures /\ edits \in 0..MaxEdits /\ alone \in BOOLEAN

Waiting == {o \in Steps : stage[o] = "pending"}
FirstOf(S) == {o \in S : \A p \in S : o <= p}
LastOf(S) == {o \in S : \A p \in S : o >= p}

(* The steps that wait for a decision: one while the instance is under way. *)
Awaited == IF instance = "in_progress" THEN FirstOf(Waiting) ELSE {}

(* start_workflow_instance has committed, and its tail is still to come.    *)
FeedInit ==
    /\ desk = [u \in People |-> Clear]
    /\ instance = "in_progress"
    /\ stage = [o \in Steps |-> "pending"]
    /\ due = [o \in Steps |-> NoRecords]
    /\ policy \in [Steps -> {"none", "active"}]
    /\ queue = {}
    /\ \E h \in Handlers :
         tail = [t \in Tellers |-> IF t = h THEN TailAt("publish", "next", 1) ELSE NoTail]
    /\ cycle = [o \in Steps |-> "skip"]
    /\ alarmed = {} /\ looked = {} /\ lost = {}
    /\ failures = 0 /\ edits = 0 /\ alone \in BOOLEAN

-----------------------------------------------------------------------------
(* The decisions, up to their first commit.                                 *)

(* o becomes the awaited step: what was announced or read before is past.   *)
TurnOf(o) ==
    /\ alarmed' = alarmed \ {o}
    /\ looked' = looked \ {Assignee[o]}
    /\ lost' = lost \ {o}

StartTail(h, about, o) ==
    tail' = [tail EXCEPT ![h] = TailAt(IF about = "next" THEN "publish" ELSE "look", about, o)]

(* Step o and those after it that the same approver is to decide.           *)
PassedWith(o) == {p \in Waiting : p >= o /\ \A q \in Waiting : o <= q /\ q <= p => Assignee[q] = Assignee[o]}

WithoutRecords(S) == [p \in Steps |-> IF p \in S THEN NoRecords ELSE due[p]]

ApproveStep(h, o) ==
    LET left == Waiting \ PassedWith(o) IN
    /\ tail[h] = NoTail /\ o \in Awaited
    /\ stage' = [p \in Steps |-> IF p \in PassedWith(o) THEN "approved" ELSE stage[p]]
    /\ due' = WithoutRecords(PassedWith(o))
    /\ desk' = [desk EXCEPT ![Assignee[o]] = Finished(@)]
    /\ \/ /\ left = {}
          /\ instance' = "approved"
          /\ StartTail(h, "approved", 0)
          /\ UNCHANGED <<alarmed, looked, lost>>
       \/ \E n \in FirstOf(left) : StartTail(h, "next", n) /\ TurnOf(n) /\ UNCHANGED instance
    /\ UNCHANGED <<policy, queue, cycle, failures, edits>>

(* The step before goes to its assignee again, without an event; the first  *)
(* step returns the request, and all deadlines are closed.                  *)
RejectStep(h, o) ==
    LET before == LastOf({p \in Steps : p < o}) IN
    /\ tail[h] = NoTail /\ o \in Awaited
    /\ stage' = [p \in Steps |-> IF p = o THEN "rejected" ELSE IF p \in before THEN "pending" ELSE stage[p]]
    /\ desk' = [desk EXCEPT ![Assignee[o]] = Finished(@)]
    /\ \/ \E p \in before : /\ StartTail(h, "previous", p) /\ TurnOf(p)
                            /\ due' = WithoutRecords({o})
                            /\ UNCHANGED instance
       \/ /\ before = {}
          /\ instance' = "returned"
          /\ due' = WithoutRecords(Steps)
          /\ StartTail(h, "returned", 0)
          /\ UNCHANGED <<alarmed, looked, lost>>
    /\ UNCHANGED <<policy, queue, cycle, failures, edits>>

(* cancel_workflow_instance takes away what was told about the request; the *)
(* deadlines stay for the worker.                                           *)
Cancel ==
    /\ instance = "in_progress"
    /\ \A o \in Steps : stage[o] # "approved"
    /\ instance' = "cancelled"
    /\ stage' = [o \in Steps |-> IF stage[o] = "pending" THEN "cancelled" ELSE stage[o]]
    /\ desk' = [u \in People |-> Withdrawn(desk[u])]
    /\ UNCHANGED <<due, policy, queue, tail, cycle, alarmed, looked, lost, failures, edits>>

-----------------------------------------------------------------------------
(* The tails: publication, and notify_workflow_next_step in a transaction   *)
(* of its own, by the handler and by the consumer.                          *)

Publish(h) ==
    /\ tail[h].pc = "publish"
    /\ queue' = queue \cup {tail[h].at}
    /\ tail' = [tail EXCEPT ![h] = TailAt("look", @.about, @.at)]
    /\ UNCHANGED <<desk, instance, stage, due, policy, cycle, alarmed, looked, lost, failures, edits>>

Take(o) ==
    /\ o \in queue /\ tail[Consumer] = NoTail
    /\ tail' = [tail EXCEPT ![Consumer] = TailAt("look", "next", o)]
    /\ UNCHANGED <<desk, instance, stage, due, policy, queue, cycle, alarmed, looked, lost, failures, edits>>

Asks(t) == tail[t].about \in {"next", "previous"}

(* What the transaction finds: no open item of the assignee, and the step   *)
(* the lowest pending one, without an open record, perhaps without policy.  *)
LacksNote(u) == ~desk[u].note
LacksItem(u) == desk[u].open = 0
LacksRecordOfAny(o) == Records(o) = 0
LacksRecord(o) == o \in FirstOf(Waiting) /\ Records(o) = 0

LookAround(t) ==
    LET o == tail[t].at IN
    /\ tail[t].pc = "look"
    /\ tail' = [tail EXCEPT ![t] =
                   [pc |-> "write", about |-> @.about, at |-> o,
                    item |-> Asks(t) /\ LacksItem(Assignee[o]),
                    record |-> Asks(t) /\ LacksRecord(o),
                    default |-> Asks(t) /\ o \in FirstOf(Waiting) /\ policy[o] = "none"]]
    /\ UNCHANGED <<desk, instance, stage, due, policy, queue, cycle, alarmed, looked, lost, failures, edits>>

(* sla_policies has one row per step: the second of two default policies    *)
(* breaks the transaction that inserts it.                                  *)
Insertable(t) == tail[t].default => policy[tail[t].at] = "none"

ToldNext(t, d, u) == IF u # Assignee[tail[t].at] THEN d
                     ELSE WithNote(IF tail[t].item THEN WithItem(d) ELSE d)

(* The submitter, who decides no step here, hears of every decision; an     *)
(* event is told to the assignee alone.                                     *)
ToldSubmitter(t, d, u) ==
    IF u # Submitter \/ t = Consumer THEN d
    ELSE IF tail[t].about = "returned" THEN WithBoth(d) ELSE WithNote(d)

Told(t, u) ==
    LET d == IF tail[t].about = "returned" THEN Finished(desk[u]) ELSE desk[u]
    IN  ToldSubmitter(t, IF Asks(t) THEN ToldNext(t, d, u) ELSE d, u)

(* The commit, with which the event is acknowledged, or delivered again.    *)
Write(t) ==
    LET o == tail[t].at IN
    /\ tail[t].pc = "write" /\ Insertable(t)
    /\ desk' = [u \in People |-> Told(t, u)]
    /\ due' = IF tail[t].record THEN [due EXCEPT ![o] = [running |-> More(@.running), past |-> @.past]] ELSE due
    /\ policy' = IF tail[t].default THEN [policy EXCEPT ![o] = "active"] ELSE policy
    /\ tail' = [tail EXCEPT ![t] = NoTail]
    /\ IF t # Consumer THEN UNCHANGED <<queue, failures>>
       ELSE \/ queue' = queue \ {o} /\ UNCHANGED failures
            \/ failures < MaxFailures /\ failures' = failures + 1 /\ UNCHANGED queue
    /\ UNCHANGED <<instance, stage, cycle, alarmed, looked, lost, edits>>

(* The process dies, or the transaction breaks: an event comes again, what  *)
(* the handler had committed stays, and what it had not published is lost.  *)
Break(t) ==
    /\ tail[t] # NoTail
    /\ \/ ~Insertable(t) /\ UNCHANGED failures
       \/ failures < MaxFailures /\ failures' = failures + 1
    /\ lost' = IF Asks(t) /\ (tail[t].pc = "publish" \/ tail[t].about = "previous")
               THEN lost \cup {tail[t].at} ELSE lost
    /\ tail' = [tail EXCEPT ![t] = NoTail]
    /\ UNCHANGED <<desk, instance, stage, due, policy, queue, cycle, alarmed, looked, edits>>

-----------------------------------------------------------------------------
(* Deadlines.  A cycle of the worker takes moments: no record falls due     *)
(* between its query and its commit.                                        *)

Resting == \A o \in Steps : cycle[o] = "skip"

Lapse(o) ==
    /\ due[o].running > 0 /\ Resting
    /\ due' = [due EXCEPT ![o] = [running |-> @.running - 1, past |-> More(@.past)]]
    /\ UNCHANGED <<desk, instance, stage, policy, queue, tail, cycle, alarmed, looked, lost, failures, edits>>

(* process_workflow_sla: what it makes of the records it finds.             *)
Verdict(o) == IF due[o].past = 0 THEN "skip"
              ELSE IF o \notin FirstOf(Waiting) \/ instance \in {"approved", "cancelled"} THEN "close"
              ELSE "announce"

Scan ==
    /\ Resting
    /\ \E o \in Steps : due[o].past > 0
    /\ cycle' = [o \in Steps |-> Verdict(o)]
    /\ UNCHANGED <<desk, instance, stage, due, policy, queue, tail, alarmed, looked, lost, failures, edits>>

Announced == {o \in Steps : cycle[o] = "announce"}
AlarmedUsers == {Assignee[o] : o \in Announced} \cup (IF Announced = {} THEN {} ELSE CEOs)

CommitScan ==
    /\ ~Resting
    /\ due' = [o \in Steps |-> IF cycle[o] = "skip" THEN due[o] ELSE [running |-> due[o].running, past |-> 0]]
    /\ desk' = [u \in People |-> IF u \in AlarmedUsers THEN WithBoth(desk[u]) ELSE desk[u]]
    /\ alarmed' = alarmed \cup Announced
    /\ cycle' = [o \in Steps |-> "skip"]
    /\ UNCHANGED <<instance, stage, policy, queue, tail, looked, lost, failures, edits>>

FailScan ==
    /\ ~Resting
    /\ failures < MaxFailures /\ failures' = failures + 1
    /\ cycle' = [o \in Steps |-> "skip"]
    /\ UNCHANGED <<desk, instance, stage, due, policy, queue, tail, alarmed, looked, lost, edits>>

(* The administrator creates the policy of a step that has none, switches   *)
(* it, deletes it; a start of the service completes the missing ones and    *)
(* leaves those that are switched off.                                      *)
EditPolicies(new) ==
    /\ edits < MaxEdits /\ edits' = edits + 1
    /\ policy' = new /\ policy' # policy
    /\ UNCHANGED <<desk, instance, stage, due, queue, tail, cycle, alarmed, looked, lost, failures>>

CreatePolicy(o) == /\ policy[o] = "none"
                   /\ \E p \in {"active", "inactive"} : EditPolicies([policy EXCEPT ![o] = p])
SwitchPolicy(o) == /\ policy[o] # "none"
                   /\ \E p \in {"active", "inactive"} : EditPolicies([policy EXCEPT ![o] = p])
DeletePolicy(o) == EditPolicies([policy EXCEPT ![o] = "none"])
SyncPolicies == EditPolicies([o \in Steps |-> IF policy[o] = "none" THEN "active" ELSE policy[o]])

LookAtDesk(u) ==
    /\ Look(u)
    /\ looked' = looked \cup {u}
    /\ UNCHANGED <<instance, stage, due, policy, queue, tail, cycle, alarmed, lost, failures, edits>>

(* Handlers and consumer from the first commit to the last, and the worker  *)
(* from its query to its commit, take turns when transactions do.           *)
Busy == {t \in Tellers : tail[t] # NoTail}
InTurn == alone => (\A t, s \in Busy : t = s) /\ (Busy = {} \/ Resting)

FeedMoves ==
    \/ \E h \in Handlers : \/ \E o \in Steps : ApproveStep(h, o) \/ RejectStep(h, o)
                          \/ Publish(h)
    \/ \E o \in Steps : Take(o) \/ Lapse(o)
                      \/ CreatePolicy(o) \/ SwitchPolicy(o) \/ DeletePolicy(o)
    \/ \E t \in Tellers : LookAround(t) \/ Write(t) \/ Break(t)
    \/ Cancel \/ Scan \/ CommitScan \/ FailScan \/ SyncPolicies
    \/ \E u \in People : LookAtDesk(u)

FeedNext == FeedMoves /\ UNCHANGED alone /\ InTurn'

FeedSpec == FeedInit /\ [][FeedNext]_feedVars

-----------------------------------------------------------------------------
Quiet == Resting /\ Busy = {}
AllTold(o) == Quiet /\ o \in Awaited /\ o \notin lost \cup queue

(* Whoever has to decide finds it, however handlers, consumer and worker    *)
(* overlap or fail: once the handlers have finished and the events are      *)
(* consumed, he has an open item and the bell rings for him, unless he has  *)
(* looked at what he was told.                                              *)
AskedIsTold == \A o \in Steps :
    AllTold(o) => LET u == Assignee[o] IN u \in looked \/ (desk[u].open > 0 /\ Bell(desk[u]) > 0)

(* One transaction at a time, any of which may fail: a step that waits is   *)
(* watched, a deadline runs or its breach was announced; a step that does   *)
(* not wait has no deadline left; and no step has two.                      *)
WaitingIsWatched == alone => \A o \in Steps :
    /\ AllTold(o) => Records(o) > 0 \/ o \in alarmed
    /\ Quiet /\ instance \in {"in_progress", "approved", "returned"} /\ o \notin Awaited => Records(o) = 0
    /\ Records(o) <= 1

(* The types, and both.                                                     *)
FeedHolds == FeedTypeOK /\ AskedIsTold /\ WaitingIsWatched

(* What was published reaches the assignee in the end.                      *)
PublishedIsTold == \A o \in Steps :
    (o \in queue) ~> (o \notin Awaited \/ Assignee[o] \in looked \/ desk[Assignee[o]].open > 0)
=============================================================================
