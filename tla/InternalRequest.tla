--------------------------- MODULE InternalRequest ---------------------------
(***************************************************************************)
(* Internal goods requests (services/procurement/request_service.py,        *)
(* request_handler.py and their bridge): when the chain of ApprovalLifecycle *)
(* is through, the items go out of the stock of Inventory, one commit each. *)
(* The last approve_step publishes the approval and hands it to the bridge  *)
(* itself as well, so that the API process and the consumer both issue it.  *)
(***************************************************************************)
EXTENDS Integers, Sequences, FiniteSets, Functions

CONSTANTS
    MaxReq,       \* bound: requests
    NumSteps,     \* steps of the chain
    MaxRuns,      \* bound: instances per request
    Keys,         \* items, all in the warehouse of the requests
    Opening,      \* the stock of Keys
    ItemLists,    \* what may be asked for: sequences of [key, qty]
    MaxEdits,     \* bound: updates of a request
    MaxRestock,   \* bound: quantity the stock keeper brings in
    MaxCrashes,   \* bound: deaths of the API process or the consumer
    Redelivery    \* an acknowledgement may be lost

Reqs  == 1..MaxReq
Steps == 1..NumSteps
Runs  == Reqs \X (1..MaxRuns)
Handlers == {"api", "consumer"}

ASSUME InternalRequestAssumption ==
    /\ MaxReq \in Nat /\ NumSteps \in Nat \ {0} /\ MaxRuns \in Nat
    /\ {MaxEdits, MaxRestock, MaxCrashes} \subseteq Nat /\ Redelivery \in BOOLEAN
    /\ Opening \in [Keys -> Nat]
    /\ ItemLists \subseteq Seq([key : Keys, qty : Nat \ {0}]) \ {<<>>}

VARIABLES
    status,     \* status[r]: Request.status
    items,      \* items[r]: its rows of request_items, a sequence
    edition,    \* edition[r]: how often they were replaced
    issuing,    \* issuing[h]: the request h takes items out for, the rows of
                \* request_items it has loaded, and the message it handles
    outcome, todo, passed,    \* the chains
    queue,      \* events published and not yet acknowledged
    crashes,    \* processes that died so far
    stock, ledger, work       \* the stock

chains == <<outcome, todo, passed>>
row == <<status, items, edition>>
shelves == <<stock, ledger, work>>
vars == <<row, issuing, chains, queue, crashes, shelves>>

Manual == [type |-> "manual", id |-> 0]
Ref(r) == [type |-> "request", id |-> r]

Chain == INSTANCE ApprovalLifecycle
            WITH chain <- [x \in Runs |-> IF outcome[x] = "none" THEN {} ELSE Steps]
Stock == INSTANCE Inventory WITH Refs <- {Manual} \cup {Ref(r) : r \in Reqs},
                                Quantities <- Nat \ {0}, Crashes <- MaxCrashes > 0

NoMessage == [event |-> "none"]
Messages == [event : {"workflow.start"}, row : Reqs]
            \cup [event : {"workflow.approved"}, row : Reqs, run : Runs]
NotIssuing == [row |-> 0, edition |-> 0, size |-> 0, message |-> NoMessage]

TypeOK ==
    /\ status \in [Reqs -> {"absent", "pending", "approved", "deleted"}]
    /\ items \in [Reqs -> ItemLists \cup {<<>>}]
    /\ edition \in [Reqs -> 0..MaxEdits]
    /\ issuing \in [Handlers -> [row : Reqs \cup {0}, edition : 0..MaxEdits,
                                 size : Nat, message : Messages \cup {NoMessage}]]
    /\ outcome \in [Runs -> Chain!Outcomes]
    /\ todo \in [Runs -> SUBSET Steps] /\ passed \in [Runs -> SUBSET Steps]
    /\ queue \subseteq Messages
    /\ crashes \in 0..MaxCrashes
    /\ Stock!TypeOK

Init ==
    /\ status = [r \in Reqs |-> "absent"]
    /\ items = [r \in Reqs |-> <<>>]
    /\ edition = [r \in Reqs |-> 0]
    /\ issuing = [h \in Handlers |-> NotIssuing]
    /\ Chain!Init
    /\ queue = {}
    /\ crashes = 0
    /\ Stock!Init

(* A process dies here. *)
Dies == crashes < MaxCrashes /\ crashes' = crashes + 1

Stored(r) == status[r] \in {"pending", "approved"}
RunsOf(r) == {x \in Runs : x[1] = r}

-----------------------------------------------------------------------------
(* The requester.                                                           *)

(* create_request: the row is committed, then the start is published.       *)
Create(r) ==
    /\ status[r] = "absent"
    /\ status' = [status EXCEPT ![r] = "pending"]
    /\ \E list \in ItemLists : items' = [items EXCEPT ![r] = list]
    /\ \/ queue' = queue \cup {[event |-> "workflow.start", row |-> r]} /\ UNCHANGED crashes
       \/ Dies /\ UNCHANGED queue
    /\ UNCHANGED <<edition, issuing, chains, shelves>>

Editable(r) == status[r] = "pending"

(* update_request: the rows of request_items are deleted and new ones made. *)
Update(r) ==
    /\ Editable(r)
    /\ edition[r] < MaxEdits
    /\ edition' = [edition EXCEPT ![r] = @ + 1]
    /\ \E list \in ItemLists : items' = [items EXCEPT ![r] = list]
    /\ UNCHANGED <<status, issuing, chains, queue, crashes, shelves>>

(* delete_request *)
Delete(r) ==
    /\ Editable(r)
    /\ Chain!Cancel(RunsOf(r))
    /\ status' = [status EXCEPT ![r] = "deleted"]
    /\ items' = [items EXCEPT ![r] = <<>>]
    /\ UNCHANGED <<edition, issuing, queue, crashes, shelves>>

-----------------------------------------------------------------------------
(* Issuing the items, by either process.                                    *)

Demand(r) == [i \in DOMAIN items[r] |-> Stock!Out(items[r][i].key, items[r][i].qty, Ref(r))]

(* handle_request_approved is entered: the items are loaded.                *)
BeginIssue(h, r, m) ==
    /\ Stock!Begin(h, Demand(r))
    /\ issuing' = [issuing EXCEPT ![h] =
         [row |-> r, edition |-> edition[r], size |-> Len(items[r]), message |-> m]]

(* A commit expires what was loaded; an item that was deleted by then, or   *)
(* whose request was, cannot be loaded again.                               *)
Vanished(h) ==
    /\ Len(work[h].moves) < issuing[h].size
    /\ \/ edition[issuing[h].row] # issuing[h].edition
       \/ ~Stored(issuing[h].row)

(* stock_out: the stock is read and tested,                                 *)
ReadStock(h) ==
    /\ issuing[h] # NotIssuing => ~Vanished(h)
    /\ Stock!Read(h)
    /\ UNCHANGED <<row, issuing, chains, queue, crashes>>

(* and the item taken out.                                                  *)
TakeOut(h) ==
    /\ Stock!Write(h)
    /\ UNCHANGED <<row, issuing, chains, queue, crashes>>

StatusUncommitted(h) == status
StatusUppercase(h) ==
    IF Stored(issuing[h].row)
    THEN [status EXCEPT ![issuing[h].row] = "APPROVED"] ELSE status
StatusIfIssued(h) ==
    IF Stored(issuing[h].row)
    THEN [status EXCEPT ![issuing[h].row] = "approved"] ELSE status

Acknowledged(h) == queue \ {issuing[h].message}

(* All items are out: the request is approved, and the message done with.   *)
Complete(h) ==
    /\ issuing[h] # NotIssuing
    /\ Stock!Is(h, "done")
    /\ status' = StatusIfIssued(h)
    /\ queue' \in {Acknowledged(h)} \cup IF Redelivery THEN {queue} ELSE {}
    /\ Stock!Finish(h)
    /\ issuing' = [issuing EXCEPT ![h] = NotIssuing]
    /\ UNCHANGED <<items, edition, chains, crashes>>

StatusOnFailure(h) == status

(* The stock does not suffice, an item is gone or the process dies: what    *)
(* was committed stays, and the message is put back to the queue.           *)
Abandon(h) ==
    /\ issuing[h] # NotIssuing
    /\ \/ /\ Stock!Is(h, "failed") \/ (Stock!Is(h, "reading") /\ Vanished(h))
          /\ UNCHANGED crashes
       \/ Dies
    /\ status' = StatusOnFailure(h)
    /\ work' = [work EXCEPT ![h] = Stock!Free]
    /\ issuing' = [issuing EXCEPT ![h] = NotIssuing]
    /\ UNCHANGED <<items, edition, chains, queue, stock, ledger>>

-----------------------------------------------------------------------------
(* The approvers, the consumer, and the stock keeper.                       *)

FinalAtOnce(x) == TRUE
Final(x) == outcome'[x] = "approved"

(* approve_step: the last approval commits, publishes, and calls            *)
(* on_pr_approved.                                                          *)
Approve(x) ==
    /\ Stock!Is("api", "idle")
    /\ Chain!Advance(x)
    /\ LET m == [event |-> "workflow.approved", row |-> x[1], run |-> x] IN
       \/ /\ Final(x) /\ queue' = queue \cup {m} /\ UNCHANGED crashes
          /\ IF Stored(x[1]) THEN BeginIssue("api", x[1], NoMessage)
                             ELSE UNCHANGED <<work, issuing, stock, ledger>>
       \/ /\ IF Final(x) THEN Dies ELSE UNCHANGED crashes
          /\ UNCHANGED <<queue, issuing, shelves>>
    /\ UNCHANGED row

(* reject_step: a request that goes back to its requester is pending again. *)
Reject(x) ==
    /\ Stock!Is("api", "idle")
    /\ Chain!SendBack(x)
    /\ status' = [status EXCEPT ![x[1]] =
         IF outcome'[x] = "returned" /\ Stored(x[1]) THEN "pending" ELSE @]
    /\ UNCHANGED <<items, edition, issuing, queue, crashes, shelves>>

ActiveRun(r) == \E x \in RunsOf(r) : outcome[x] = "open"

(* The consumer starts the chain, unless one is open.                       *)
ConsumeStart(r) ==
    LET m == [event |-> "workflow.start", row |-> r] IN
    /\ m \in queue
    /\ Stock!Is("consumer", "idle")
    /\ queue' \in {queue \ {m}} \cup IF Redelivery THEN {queue} ELSE {}
    /\ IF ActiveRun(r) THEN UNCHANGED chains
       ELSE \E x \in RunsOf(r) :
               /\ \A y \in RunsOf(r) : outcome[y] = "none" => x[2] <= y[2]
               /\ Chain!Open(x, Steps)
    /\ UNCHANGED <<row, issuing, crashes, shelves>>

(* The consumer issues an approved request; a deleted one is ignored.       *)
ConsumeApproved(m) ==
    /\ m \in queue /\ m.event = "workflow.approved"
    /\ Stock!Is("consumer", "idle")
    /\ IF Stored(m.row)
       THEN BeginIssue("consumer", m.row, m) /\ UNCHANGED queue
       ELSE queue' = queue \ {m} /\ UNCHANGED <<work, issuing, stock, ledger>>
    /\ UNCHANGED <<row, chains, crashes>>

(* stock_in by the stock keeper, seen as one step.                          *)
Restock(k) ==
    /\ ledger[Manual][k] < MaxRestock
    /\ stock[k] # <<>>
    /\ stock' = [stock EXCEPT ![k][1] = @ + 1]
    /\ ledger' = [ledger EXCEPT ![Manual][k] = @ + 1]
    /\ UNCHANGED <<row, issuing, chains, queue, crashes, work>>

Issue(h) == ReadStock(h) \/ TakeOut(h) \/ Complete(h) \/ Abandon(h)

Next ==
    \/ \E r \in Reqs : Create(r) \/ Update(r) \/ Delete(r) \/ ConsumeStart(r)
    \/ \E x \in Runs : Approve(x) \/ Reject(x)
    \/ \E m \in queue : ConsumeApproved(m)
    \/ \E h \in Handlers : Issue(h)
    \/ \E k \in Keys : Restock(k)

Spec == Init /\ [][Next]_vars

(* Both processes go on with what they have begun, dead ones are restarted, *)
(* and the consumer takes every message in turn.                            *)
Fairness == /\ \A h \in Handlers : WF_vars(Issue(h))
            /\ \A m \in Messages : SF_vars(ConsumeApproved(m))
FairSpec == Spec /\ Fairness

-----------------------------------------------------------------------------
Approved(r) == \E x \in RunsOf(r) : outcome[x] = "approved"
Issued(r, k) == -ledger[Ref(r)][k]
Wanted(list, k) == [i \in DOMAIN list |-> IF list[i].key = k THEN list[i].qty ELSE 0]
Requested(r, k) == SumFunction(Wanted(items[r], k))

(* Nothing leaves the stock for a request whose chain is not through, and   *)
(* no request counts as approved without it, however messages are repeated. *)
IssuedOnlyIfApproved ==
    \A r \in Reqs :
        (\E k \in Keys : Issued(r, k) # 0) \/ status[r] = "approved" => Approved(r)

(* Of an approved request everything was taken out, whatever crashed or was *)
(* refused on the way: nothing counts as issued that is still on the shelf. *)
(* A request edited while its items are loaded is excepted.                 *)
ApprovedIsIssued ==
    \A r \in Reqs : status[r] = "approved" /\ edition[r] = 0 =>
        \A k \in Keys : Issued(r, k) >= Requested(r, k)

(* What is out of the stock, and what the request is said to be, agree.     *)
IssuedAsApproved == TypeOK /\ IssuedOnlyIfApproved /\ ApprovedIsIssued

(* The shelves do not hold what the request asks for.                       *)
Short(r) == \E k \in Keys : Stock!OnHand(k) < Requested(r, k)

(* An approval that was published ends in the request being approved, also  *)
(* when processes die and items are edited meanwhile, unless it is deleted  *)
(* or the stock runs out.                                                   *)
ApprovalIsCarriedOut ==
    \A m \in Messages : m.event = "workflow.approved" =>
        (m \in queue ~> status[m.row] \in {"approved", "deleted"} \/ Short(m.row))

=============================================================================
