------------------------------ MODULE AdHocTask ------------------------------
(***************************************************************************)
(* One ad-hoc task: somebody gives a piece of work and a deadline to a      *)
(* colleague, who closes it or hands it on with a new deadline.  A handler  *)
(* loads the row, and writes at its commit what it changed of it; the       *)
(* deadline worker does the same with sla_notified.                         *)
(***************************************************************************)
EXTENDS Inbox, Sessions

CONSTANTS Creator, Bosses, \* who files the task; the managing directors
          MaxHops          \* how often it is handed on

ASSUME TaskAssumption == Creator \in People /\ Bosses \subseteq People /\ MaxHops \in Nat

VARIABLES task,    \* the row of ad_hoc_tasks
          steps,   \* authors and assignees of its ad_hoc_task_steps
          txn,     \* txn[u]: what an answer of u has loaded
          scan,    \* what the worker has loaded
          hops,    \* how often it was handed on
          told,    \* the breach of the running deadline was announced
          away     \* the assignee put an item away, or kept the task himself

taskVars == <<desk, alone, task, steps, txn, scan, hops, told, away>>

NoTask == [status |-> "none", assignee |-> Creator, due |-> "running", notified |-> FALSE]
Tasks == [status : {"none", "open", "closed"}, assignee : People,
          due : {"running", "past"}, notified : BOOLEAN]

TaskTypeOK == /\ task \in Tasks /\ scan \in Tasks /\ txn \in [People -> Tasks]
              /\ steps \subseteq People /\ hops \in 0..MaxHops
              /\ told \in BOOLEAN /\ away \in BOOLEAN /\ alone \in BOOLEAN
              /\ desk \in [People -> Desks]

TaskInit == /\ task = NoTask /\ scan = NoTask /\ txn = [u \in People |-> NoTask]
            /\ steps = {} /\ hops = 0 /\ told = FALSE /\ away = FALSE
            /\ desk = [u \in People |-> Clear] /\ alone \in BOOLEAN

(* create_ad_hoc_task: the assignee is somebody else.                       *)
CreateTask(v) ==
    /\ task = NoTask /\ v # Creator
    /\ task' = [status |-> "open", assignee |-> v, due |-> "running", notified |-> FALSE]
    /\ steps' = {Creator, v}
    /\ desk' = [desk EXCEPT ![v] = WithBoth(@)]
    /\ UNCHANGED <<txn, scan, hops, told, away>>

(* add_ad_hoc_task_step, up to its checks: open, and the caller's turn.     *)
LoadTask(u) ==
    /\ txn[u] = NoTask
    /\ task.status = "open" /\ task.assignee = u
    /\ txn' = [txn EXCEPT ![u] = task]
    /\ UNCHANGED <<desk, task, steps, scan, hops, told, away>>

CloseTask(u) ==
    /\ txn[u] # NoTask
    /\ task' = [task EXCEPT !.status = "closed"]
    /\ desk' = [desk EXCEPT ![u] = Finished(@)]
    /\ txn' = [txn EXCEPT ![u] = NoTask]
    /\ UNCHANGED <<steps, scan, hops, told, away>>

(* sla_notified of the new hop; one that was loaded as FALSE is not written.*)
NotRenewed(seen, now) == now
Renewed(seen, now) == Kept(seen.notified, FALSE, now)

(* The assignee passes it on, perhaps to himself, with a new deadline.      *)
HandOn(u, v) ==
    LET seen == txn[u] IN
    /\ seen # NoTask /\ hops < MaxHops
    /\ hops' = hops + 1
    /\ task' = [task EXCEPT !.assignee = Kept(seen.assignee, v, @), !.due = "running",
                            !.notified = Renewed(seen, @)]
    /\ steps' = steps \cup {u, v}
    /\ desk' = [w \in People |->
                  IF w = u THEN Finished(desk[u]) ELSE IF w = v THEN WithBoth(desk[v]) ELSE desk[w]]
    /\ txn' = [txn EXCEPT ![u] = NoTask]
    /\ told' = FALSE /\ away' = (u = v)
    /\ UNCHANGED scan

DropTask(u) == /\ txn[u] # NoTask
               /\ txn' = [txn EXCEPT ![u] = NoTask]
               /\ UNCHANGED <<desk, task, steps, scan, hops, told, away>>

-----------------------------------------------------------------------------
(* process_ad_hoc_sla                                                       *)

TaskLapse == /\ task.status # "none" /\ task.due = "running" /\ scan = NoTask
             /\ task' = [task EXCEPT !.due = "past"]
             /\ UNCHANGED <<desk, steps, txn, scan, hops, told, away>>

Overdue == task.status = "open" /\ task.due = "past" /\ ~task.notified

ScanTask == /\ scan = NoTask /\ Overdue
            /\ scan' = task
            /\ UNCHANGED <<desk, task, steps, txn, hops, told, away>>

AnnounceTask ==
    /\ scan # NoTask
    /\ task' = [task EXCEPT !.notified = TRUE]
    /\ desk' = [u \in People |-> IF u \in {scan.assignee} \cup Bosses THEN WithBoth(desk[u]) ELSE desk[u]]
    /\ told' = (task.due = "past")
    /\ scan' = NoTask
    /\ UNCHANGED <<steps, txn, hops, away>>

LookAtTask(u) ==
    /\ Look(u)
    /\ away' = (away \/ (u = task.assignee /\ desk'[u].open < desk[u].open))
    /\ UNCHANGED <<task, steps, txn, scan, hops, told>>

(* An answer from its load to its commit, and the worker, take turns when    *)
(* transactions do.                                                         *)
Answering == {u \in People : txn[u] # NoTask}
OneAnswer == alone => (\A u, v \in Answering : u = v) /\ (Answering = {} \/ scan = NoTask)

TaskMoves ==
    \/ \E u \in People : \/ CreateTask(u) \/ LoadTask(u) \/ CloseTask(u) \/ DropTask(u)
                         \/ LookAtTask(u)
                         \/ \E v \in People : HandOn(u, v)
    \/ TaskLapse \/ ScanTask \/ AnnounceTask

TaskNext == TaskMoves /\ UNCHANGED alone /\ OneAnswer'

TaskSpec == TaskInit /\ [][TaskNext]_taskVars

-----------------------------------------------------------------------------
(* The types; and, one transaction at a time, the assignee of an open task  *)
(* has it in his inbox, unless he put it away or kept it; of those it went  *)
(* through, none has an item of a task that is closed, and none but the     *)
(* assignee of one that is open; the copies the managing directors get of a *)
(* breach stay.                                                             *)
TaskIsInInbox ==
    /\ TaskTypeOK
    /\ alone => /\ task.status = "open" => away \/ desk[task.assignee].open > 0
                /\ \A u \in steps \ Bosses :
                      desk[u].open > 0 => task.status = "open" /\ u = task.assignee
=============================================================================
