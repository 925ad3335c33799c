# A verification of the Mehregan back end

The repository is the back end of an ERP for one company: FastAPI handlers over
SQLAlchemy and PostgreSQL, a RabbitMQ queue with one consumer, a few background
workers.  Almost everything a user files in it (a mission, petty cash, a loan, a
purchase, a financial document) is a business row that travels along a chain of
approvals, and whose money or stock moves when the chain ends.  This project
models those chains, what they do to the rows, who is told and who is late, the
back office around them, and what happens when the queue, the users and the
handlers meet in an order nobody planned.

## 1. The system

| part (under `src/app/`) | state it keeps | operations | how it meets the others |
|---|---|---|---|
| approval engine: `services/workflow*.py`, `assignment.py` | `workflow_instances.status`, `workflow_steps.status/assigned_user_id`, `workflow_approvals` | start, approve (with auto-skip), reject, cancel | started by every row type and by the queue; tells the row through events and through direct calls |
| messaging: `infrastructure/messaging/` | the RabbitMQ queue | publish after commit (in-process fallback), consume, redeliver | carries `workflow.start`, `.next_step`, `.approved`, `.rejected` |
| bridges: `services/workflow_*_bridge.py` | none | `on_*_approved`, `on_*_rejected` | run by the consumer, and some of them by the engine as well |
| petty cash: `services/petty_cash.py` | request status, settlement status, expense lines, `is_settled` | create, save and submit a settlement, delete | two chains per row; one open request per employee |
| missions: `services/mission_request.py` | mission status, report | create, submit report, delete | two chains per row |
| internal requests and stock: `services/procurement/request_service.py`, `request_handler.py`, `services/inventory/` | request status, `stocks`, `inventory_transactions` | create, approve, stock in and out, transfer | stock leaves when the chain ends |
| financial documents: `services/financial_document.py` | document status, registration | create, upload, delete | one chain per row; hears the end of it through the queue |
| payment requests: `services/payment_request*.py` | status, financial terms, instalments | create, collect terms, delete | chain with data-entry steps |
| financial chains: `services/financial_workflow.py` | registration and confirmation columns of the rows | mark payment, confirm in Sepidar | called by the engine for the steps of money requests |
| purchase chains: `services/procurement/purchase_workflow.py` and the services beside it | request status along nine operational steps, proformas, invoices | one operation per step | the last step adds stock |
| orders and receipts: `procurement/purchase_order_service.py`, `supplier_service.py`, `grn_service.py`, `goods_receipt_service.py` | orders, suppliers, receipts with their lines | create, update, receive; draft, invoice, post, cancel | stock comes in |
| catalogue and accounts: `services/master_data/`, `counterparty*.py`, `company_bank_account.py` | groups, items, counterparties, accounts with a default | editing, items made by a purchase | read by orders, receipts and payments |
| inbox and notifications: `services/inbox.py`, `workflow_notifications.py` | `inbox_items.is_done`, notifications | create, done, delete | written by the handlers and again by `workflow.next_step` |
| deadlines: `services/sla*.py`, `workers/sla_worker.py` | `sla_trackings` | create, close, breach, escalate | follow the inbox; scanned once a minute |
| ad-hoc tasks: `services/ad_hoc_task_service.py` | the task, its steps, its deadline | create, answer, hand on, cancel | inbox, deadline worker |
| accounts, roles, permissions, departments: `services/rbac.py`, `user_list.py`, `department.py`, `auth.py`, `dependencies/auth.py` | accounts, memberships, permissions, managers, heads | administration, login, the check of each request | who a step may be assigned to, who may call and see what |
| definitions: `services/workflow_definition_service.py`, `workflow_step_config.py` | the steps of each ref_type | save, delete, preview, resolve | read when a chain starts and while it runs |
| lists and visibility: `services/query_utils.py`, `*_list_scope.py`, `workflow_instance_list.py`, `*_access.py` | none | list, count, open | read the steps and the organization |
| dashboards, reports, attachments, one-time codes, websockets, audit, schema patches, scripts, deployment | | output, pure I/O, administration | not part of a protocol |

**Transactions.**  `SessionLocal` (`core/database.py`) is a plain session at
PostgreSQL's default READ COMMITTED; no query in the repository takes
`FOR UPDATE`, there are no version columns, and no unique constraint covers
instances, stock rows or inbox items.

**Messages.**  `publish_event` runs after the commit of the handler that calls
it.  The consumer acknowledges after its handler and re-queues on an exception
(`consumer.py`), so every event arrives late, in any order relative to the next
HTTP request, and possibly more than once.  None of the event handlers asks
whether the instance it is about is still in the state that caused the event.

**What is hard, and what makes each part correct.**

| part | hard because | correct when |
|---|---|---|
| approval engine | steps are skipped, sent back, reassigned and deleted in any order; users and roles change meanwhile; a start arrives twice | no step is decided before an earlier one, an instance under way always waits for somebody, what has ended stays ended, the log explains every step |
| the same, concurrently | approve, reject and delete read without locks and write by id | a step is decided once, what was announced as approved stays so, a deletion never meets an approval |
| petty cash, missions | two chains, events of the first arrive while the second runs, handlers commit up to three times | nothing is paid, settled or completed without its approval; lines and reports do not move under their approvers |
| internal requests | the API process and the consumer both issue the items, one commit per item, a failed message is retried from the start | nothing leaves without an approval, an approved request got everything, once |
| stock | read, test and write without a lock, rows created on demand, a transfer in two commits | no row below zero but by a negative quantity, the rows are what the transactions say, nothing is sold twice |
| purchase chain | nine different operations, a status beside the chain, steps completed by whoever opens the page, three ways to post goods | evidence behind every completed step, payment as approved, goods from the chain once and at its end, something can always be done |
| orders and receipts | numbers that are counted, lines replaced by every edit, one commit per line received | what entered the stock is what the papers say, papers stay once goods are in |
| financial documents, payment requests, financial chains | data that is locked after registration, edited in two phases by two people | stages in order, numbers fixed once registered, changed by those who are asked |
| inbox and deadlines | written after the decision's commit, again by the event, and by a worker that commits once per cycle | whoever has to decide is told; the step that waits, and no other, has a deadline; a breach is announced |
| ad-hoc tasks | handed on by the assignee while the worker marks the deadline | one assignee has it in his inbox, its deadline is announced |
| administration | checks on what a request read before others committed; tokens that outlive what they say; words that name roles | one holder of a singleton role, access as the rows say, every step asks for the role it was made for |
| catalogue and accounts | trees and default flags maintained by read, test and write | one tree, one default, nothing refers to what is gone |
| lists | offsets while rows move; six scopes written six times | a page misses nothing that did not move; what a list shows may be opened |

## 2. Order of work, and what is left

Built in the order of what the rest depends on: the engine and its races, the
rows that move money and stock, the purchase chain, the money requests; then
inbox, deadlines and tasks, missions, the back office, the administration, lists
and visibility.  All modules of the plan exist.  Left, in this order:

1. the second chain of a purchase whose first one was returned;
2. deadlines per policy, and the wording and channels of notifications.

## 3. The modules

**`ApprovalLifecycle`** is what a chain promises, without users and messages: a
run is opened with a set of steps; an approval passes a lowest part of what is
left; a rejection drops the lowest step and asks the one before it again, or
returns the run; the last approval ends it; it is cancelled only while nothing
of it stands approved.  `WorkflowEngine` is checked to implement it, and
`PettyCash`, `MissionRequest`, `InternalRequest` and `PurchaseWorkflow` run
their chains with its actions through `INSTANCE`.

**`WorkflowEngine`** has one action per handler: `Create` and `ConsumeStart`
(`start_workflow_instance` from the request and from the queue), `Approve`
(`approve_step` with its loop over the steps that can be skipped), `Reject`,
`Delete`, and the administration of accounts and roles.  `inst`, `step` and
`assignee` are the columns, `log` the rows of `workflow_approvals` with a clock
for their order.  Steps are numbers and may have gaps, since a step of the
submitter's manager is left out when there is none.

**`Visibility`** extends the engine by what is read off its rows: `Listed`, the
list of each kind of request in each scope; `Traced`, the list of instances;
`MayOpen` and `MayOpenInstance`, the tests made when somebody opens one.  It has
no actions: the engine returns, restarts and reassigns the steps under it.
`Asked` says which instance a kind is judged by: all, the latest, or, for
documents, any, because the query has no order.

**`WorkflowRaces`** takes the handlers of the engine apart into what a session
loads, flushes and commits.  `txn[h].mine` holds the rows a session has updated,
which lock them; `View` is what its next query sees; `Written` is SQLAlchemy's
rule that an attribute set to its loaded value is not written.  `Rollback`
stands for an exception, a crash and a deadlock broken by the database.

**`PettyCash`** adds the row, its expense lines and the queue.  The employee's
handlers are split at their commits (`BeginCreate`, `CommitCreate`,
`StartCreated`, and four steps for the filing of expenses), `RowHears` is the
effect of an event, and `Consume` takes any event of the queue, perhaps leaving
it there.  What may happen around it is the `setting`: with `queued` false the
broker is down and `publish_event` handles the event in place, as `publisher.py`
does.

**`MissionRequest`** is built alike for a mission and its report.  `StatusOn` is
what each bridge function makes of the status, whatever it was; `CommitReport`,
`CheckReady` and `StartReport` are the handler that files a report, whose status
is committed before the assignees of its chain are looked up.

**`Inventory`** is the part both `StockKeeper` (the routes, transfers and master
data) and `InternalRequest` share: a handler is a list of moves, each read,
tested and written on its own.  A row of the stock is an element of a sequence,
because nothing keeps two handlers from creating one each.  The routes take any
dictionary, so `Quantities` may hold negative ones: `turned` remembers where one
was brought in, which nothing tests (a negative quantity taken out is tested, and
less than what is there).

**`InternalRequest`** composes `ApprovalLifecycle` with `Inventory`: when the
chain ends, the process that handled the last approval and the consumer both
issue the items of the request (`BeginIssue`, `ReadStock`, `TakeOut`,
`Complete`, `Abandon`).

**`PurchaseWorkflow`** has one request with its chain of nine steps.  `Complete`
is what every operation ends in: the step passes, `StatusOn` writes the status.
`Repair` is the completion of steps by `repair_stuck_purchase_operational_steps`
when the request is viewed, and by an approval in the inbox.  `OpenPosting` and
`Post` are the two halves of the last step, apart because a second click may
fall between them; a rejection or deletion that falls between them is left out.
`ReceiveOrder` (`receive_po`) and `PostReceipt` enter the same goods without
asking the chain; `beside` remembers them, and that clicks overlapped, while
`stocked` counts the chain's own postings.

**`FinancialChain`** has one row that is a loan, an advance, a payment order,
another payment or a financial document, and its chain with the two operational
steps: the registration in the accounting program Sepidar (`mark_payment`) and
its confirmation.  `Approve` is `approve_step` for these rows, from the terms
that an approver may have to send (`WithTerms`, the empty set when it raises) to
the steps that are passed over for him (`Skipped`).  `pay` is what the chain
reads of the row; a change of the amount or a date is only counted.  An update
is two actions, `BeginEdit` up to the last check and `CommitEdit`, because
nothing keeps other requests out between the two; `Free` says when they may come
in.  `Upload` models the call as it stands: it raises, and no image is stored.

**`Inbox`** is what a user has about one reference: open items, unread
notifications and the bell that counts both; `alone` says whether transactions
take turns.  **`WorkflowFeed`** is one instance seen from there: a handler commits
its decision (`ApproveStep`, `RejectStep`), then publishes and tells the next
assignee in a tail of its own (`Publish`, `LookAround`, `Write`, or `Break` when
a transaction fails); the consumer does the same work again for an event it
`Take`s; the worker reads what is due (`Scan`) and commits once at the end of its
cycle (`CommitScan`).  **`AdHocTask`** is one task with its inbox items and its
deadline; `Kept` is SQLAlchemy's rule again, so that the worker's mark and a new
deadline may both be written.  **`MCFeed`** puts the two side by side, one per
initial state, since they share no row: each of its steps is one of `FeedNext` or
of `TaskNext`, about which the theorems are.

**`Sessions`** holds `Kept` for the back office.  **`PurchaseOrders`** and
**`GoodsReceipts`** have the orders and receipts with their lines as rows, the
handlers split into what they read and what they commit, and the stock as the
number of times a line entered it.  **`Catalogue`** and **`BankAccounts`** are
the trees of item groups with their items, and the accounts with their default.
**`MCBackOffice`** composes them, one per initial state, since they share no row.

**`Directory`** is accounts, roles, their holders and permissions: the handlers
split into read and commit where they check something, `Login`, which copies
names and permissions into a token, and `Request`, which is what
`require_permission` lets through.  **`Organization`** is managers, departments
and heads; `ManagerChain` walks up past everybody, `Team` down past active
employees only, as `_collect_manager_descendants` does, and through departments
past everybody.  **`WorkflowDefinitions`** is
the stored steps of one ref_type with the words for their roles, which may be any
words, compared by what they read (`Folded`: stripped, in lower case): `Canonical` and
`RoleIdsFor` resolve them, `AssigneesReady` is the preview the forms ask,
`StepsMade` what the start makes, `StepConfigAtOrder` what a running step reads.
**`Listing`** is one list read page by page, as any of the lists of `Routes`,
which differ in what they search, count and sort by.  **`MCAdministration`** has
one of these per initial state.

In every model with a chain a rejection leads back to the step before, as
`reject_step` does whatever `return_to` says.

## 4. The runs

All runs pass.  Bounds, why they suffice, and what is shown:

| run | bounds | shows |
|---|---|---|
| `engine` | 2 users, a requester who is led by one of them, an overseer; 3 steps (one of the manager, one manual), 2 instances, 4 decisions | types, order of the steps, never stuck, ended is settled and final, returns, the log, manual steps; that the engine implements `ApprovalLifecycle`; that what a list shows, and what asks for a decision, may be opened. Deadlock is checked. Three steps are the least with a gap, a skip and a return; the second instance is the one a late start opens |
| `races` | 3 sessions, 3 steps, two of one approver, the last manual | any operations at once: no decided step without its log entry. Approvals only: nobody is left without a pending step before the end. One request at a time: a step is decided once, an announced approval stays, only unapproved rows are deleted. Every race seen needs two sessions; the third is there for a pair that meets a changed row |
| `petty` | rough: 1 row, 1 step, 2 sessions, 2 lists of expenses, late and repeated events, crashes, roles that lose their holders. Calm: 2 rows, 3 steps, no broker, one request at a time | rough: no money without an approval. Calm: all promises of the code's messages hold, on states (`ToldInTheCalm`) and on steps (`KeptInTheCalm`) |
| `missions` | 1 row, 2 sessions, 2 instances of either chain, 2 reports; chains of 2 steps in the calm setting, of 1 in the rough one | rough: nothing is approved or completed without its chain. Calm: the status tells which instance is under way, a report does not change under its approvers |
| `stock` | 2 handlers, an item in 2 places, one of them without a row, crashes; quantities -1, 0 and 1, brought in negative at one place at most (overlapping: by `increase_stock` only) | any requests: a row below zero only where a negative quantity was brought in, transfers of positive ones create nothing (`NothingFromNowhere`). One booked request at a time: the stock is what is booked, in one row, oversold by a negative quantity only. A negative quantity in one place shows whether the other is touched |
| `internal` | 1 request, 2 steps, 2 items, scarce stock, one each of: edit, restocking, crash; lost acknowledgements | nothing leaves without an approval, an approved request got everything, a published approval is carried out unless the stock runs out. Two items are the least that can be half issued |
| `purchase` | 2 proformas, 2 amounts, one retreat of any number of rejections, 1 edit of the lines, 2 clicks on the last step; receptions of the order and goods receipts while there is one proforma (`MCPurchase`) | evidence behind each completed step, lines fixed by the CEO's approval, the chain enters the goods when it is over, and once unless the two clicks overlapped; as long as nothing is rejected the status follows the chain, checks add up, payment comes as approved (`StraightAsPlanned`) and something can always be done (`CanProceed`). One retreat leads from any step back to any other, or to the requester |
| `financial` | 2 people holding all roles, in any distribution. Undisturbed: the code's five-step chain with and without a manager, three kinds of payment. Disturbed: a three-step chain an administrator may define, 2 rejections, a corrector, overlapping edits. Documents: the code's four-step chain and one of approvals only, 3 rejections. 2 changes of the numbers | the stages come in order, with what each needs; numbers are frozen once registered; the row is changed by those who are asked; whoever is waited for can decide (`NobodyIsStuck`; each of the four chains is `Orderly`). Two people are the least with a skip and a change of hands, two rejections lead from the last of the three steps back to the first |
| `feed` | 2 steps, the second the managing director's, who also gets copies of every breach; a submitter who decides no step; 1 HTTP request beside consumer and worker; 1 failed transaction or crash, 1 change of the policies; tasks handed on once; an open item stands for one or more | `FeedHolds`: overlapping, whoever has to decide has an open item and is rung for, unless he has looked; one at a time, with failures, the step that waits, and no other, has one deadline. `TaskIsInInbox`: an open task is in the inbox of its assignee and of no one it has left. One failure loses each of the messages in turn; where transactions overlap, none fails and the policies are at first not there |
| `feed_live` | the same, one transaction at a time, no change of policies | a deadline that passes is announced, a published event reaches the assignee |
| `backoffice` | 2 orders, 2 suppliers (the second while there is one line at most), 3 lines, 2 receipts, 3 groups, 1 item, 3 accounts; 2 requests. Overlapping: 1 line, 1 supplier, 2 accounts of one counterparty | overlapping: numbers are unique and the next is free while nothing was deleted, what is booked has an invoice, nothing dangles. One request at a time: the stock is what the papers say, once; one tree; one default; papers stay. Three groups are the least for a cycle through a third |
| `administration` | People: 2 accounts, 2 roles, 2 usernames (overlapping: singleton names only). Access: 1 account, 1 role, 2 permissions, 3 codes, that of everything without a second one. Departments: 3 (overlapping 2) with 2 employees, or 4 employees without departments; chains of managers listed up to the second; one of 3 employees inactive while there is one department at most and requests do not overlap. Definitions of 2 steps while 2 people change places, or of 1 step while 2 roles are named by 3 names, two of which read alike, and labelled by one of these names or by another word. Lists: 3 rows, pages of one, 1 move, searched or narrowed | names and references hold, teams agree with the departments and with the chains of managers, as far as everybody in between is active, also where a chain is longer than what is listed, one holder of a singleton role and the whole tree in sight one request at a time, access as the rows say, every stored step asks for the role it was made for, or for one that has come to read like it, a running one reads its own configuration unless the definition was edited, a chain that the preview calls ready starts, and a page misses nothing that did not move |

In `petty`, `missions` and `financial` the setting, in `stock`, `races`, `feed`,
`backoffice` and `administration` the load is a variable that is chosen in the
initial state and never changes, so that one run shows what holds whatever
happens and what holds under the milder conditions only; the properties of the
second kind name the condition (`Calm`, `alone`, `load`, `Straight`, `overlap`,
`rough`, `busy`, `crowded`, `rush`, `hurried`, `harried`).

Bounds beside those of the table: in `feed` accounts stay active and no deadline
lapses while the worker is in its cycle; in `backoffice`, where requests overlap,
only the first order names the request; in `administration` definitions are
saved, and people change places, while no chain runs (what happens otherwise is
listed below), and words and assignments are not varied together; four employees
have chains of managers that are longer than those that are listed, loops included.
The reader of a list stops at a page that is not full: that is the client's
doing, which is not in the repository.

Deadlock is checked for the engine.  The other systems may stop: every bound
used up, or a row settled with nothing left to do.

**Fairness.**  None is assumed of users: whether anybody approves is not the
program's business.  `internal` assumes that a process goes on with what it has
begun and is restarted when it dies (weak fairness of `Issue`; `start_consumer`
loops over one queue), and that a message that can be taken again and again is
taken in the end (strong fairness, since the consumer alternates between messages
and a message is disabled while another is handled).  `feed_live` assumes the
same of handlers and consumer, and strong fairness of the worker's scan: it runs
once a minute, and a cycle that finds another transaction under way comes again.

### What the models show beside the properties

These are the cases that the milder conditions of the properties leave out.
Each was seen in a trace or follows from a guard that the model has not got
because the code has not; where a comment or message says otherwise it is named.

- *Engine.*  A rejected step is never asked again: once the step before it
  approves anew the chain ends without it (`workflow_reject.py:131`); a purchase
  can so be posted unpaid, though `constants/purchase_workflow_steps.py:71` has
  the payment before the posting.  A start that is delivered after a return or a
  deletion opens another instance, beside the returned one or for no row.  The
  steps of a returned instance can still be decided; rejecting one makes it active
  again beside its successor.
- *Races.*  `reject_step` writes `in_progress` whatever the instance has become
  (`workflow_reject.py:153`), against the table of transitions in
  `workflow.py:33`, which lets nothing follow `approved`.  Two overlapping
  approvals decide one step twice; approvals that overlap rejections can leave an
  instance in progress in which nobody is to decide; a first approval can commit
  between the check and the commit of a deletion.
- *Petty cash.*  A redelivered approval of the first chain sets a settled row back
  to `PENDING_SETTLEMENT` (`petty_cash.py:284`; `:335` calls it already settled);
  a late event unlocks expenses under approval; expenses can be 'under approval'
  with no instance; `replace_existing=False` keeps earlier lines that the total no
  longer counts; two overlapping requests both pass the eligibility check.
- *Missions.*  A report whose chain finds no assignee is left
  `REPORT_PENDING_APPROVAL` without an instance; late events set the status back.
- *Internal requests.*  `approve_step` publishes `workflow.approved` and calls
  `on_pr_approved` itself (`workflow.py:296`; `consumer.py:57` calls the queue the
  only entry), so that the items leave the stock twice; they can be replaced
  between two approvals.
- *Stock.*  Two `stock_out` calls both pass the test of the same quantity and
  together take out more than there is.  The stock routes pass on any quantity: a
  negative one makes `stock_in` take out without a test, below zero if need be, and
  a transfer of one brings in first and takes out second.
- *Purchases.*  A request whose second step is rejected waits for a proforma that
  its status forbids; a CEO step that is asked again takes a check plan of any
  total; the requester can replace the lines after the first approval, because the
  lock is asked for another `ref_type`; lines outside the catalogue are passed over
  by the posting; two clicks on the last step post the goods twice, and
  every reception of the order made from the request and every posted receipt of
  it enters them once more.
- *Money requests.*  The upload for a financial document always raises
  (`routes/financial_document.py:154` passes by position and `uploader_id` to the
  keyword-only `save_entity_attachment`), so that its registration waits for ever.
  A corrector can change the kind of a payment after its registration, and the
  finance step that then has terms to collect cannot be approved; a requester who
  is his own finance approver cannot set his loan's terms; an update checked
  before a registration is committed after it; a payment that was registered can
  be deleted once rejections have left no step approved.
- *Inbox and deadlines.*  Overlapping, a deadline can be made after its step was
  decided, or closed by the worker's stale read after a rejection reopened the
  step; the worker's list of dead instances lacks `returned` (`sla_worker.py:39`);
  the copies of breaches for the managing director are never closed; a late
  `workflow.next_step` puts items back; a crash between commit and publish tells
  nobody.  A task handed on to oneself leaves no open item, and the new deadline
  of a task that is handed on may never be announced.
- *Back office.*  After a deletion the counted order number may be refused for
  ever; `receive_po` asks nothing and books twice; an update can set `received`
  without goods; any edit of an order made from a request collapses its lines into
  one, and overlapping edits leave two; a cancelled receipt leaves the request
  receiving.  A counterparty that is inactive and has legacy bank fields is
  committed before the request fails; a deleted account keeps its default flag.
- *Administration.*  `routes/rbac.py` calls `update_role` by position, which
  always fails; overlapping assignments give a singleton role two holders, and
  `update_role` may make a role of several holders a singleton; a deactivated
  holder keeps the slot; the last holder of `admin.manage` can be removed;
  overlapping updates leave two active roles or the union of two permission sets;
  a token names its user by username, so that renaming locks out and a reused name
  is honoured.  Managers may form cycles; a deactivated employee, and whoever is led
  through him, is in no team of his managers any more, though `get_manager_chain`
  names them, and the departments keep him; a parent department cannot be taken
  away; overlapping changes make loops that no tree shows.
- *Definitions.*  Saving one drops `allow_auto_skip`.  A role whose label, or
  whose name but for case, reads like the name of another one may take over the
  stored steps of that one: which of the two is asked depends on the order of the
  rows (`workflow_step_config.py:219`; the comment of `canonicalize_role_aliases`
  sees to the label of the chosen role only).  Definitions that name a renamed or
  deleted role do not resolve; a named first assignee replaces the user of a
  `fixed_user` step and can make a ready chain fail; editing a definition makes
  running steps read another step's configuration.
- *Lists.*  The count of warehouse forms does not search the title the list
  searches; the lists of items and users have no tie-break; `list_purchase_orders`
  joins suppliers twice when it filters and sorts by them.
- *Visibility.*  After a second instance began, a payment or a document found in
  a list may not open (`payment_request_access.py:15` looks at the latest
  instance, `financial_document.py:91` at any).  A leader sees purchases and forms
  of his team in the list of instances and cannot open their attachments, an
  overseer those of forms and deleted rows.  Neither the lists of petty cash and
  missions nor the test for attachments look at the chains of settlements and
  reports.

## 5. The proofs

Eight modules hold what TLAPS proves, for every value of the constants: every
property of every run but two of liveness and one of enabledness.  Each was first
checked by its run, and each inductive invariant by a run of TLC on the same
instance.  Assumed are only the named assumptions of the models, which say what the
constants are.  Most say that ids and bounds are numbers and that a setting is one
of the settings; beyond that

- `PurchaseAssumption`, `OrdersAssumption`, `ReceiptsAssumption`,
  `CatalogueAssumption`, `OrganizationAssumption`, `ListingAssumption` and
  `InventoryAssumption`: a table has finitely many rows, so that there is a latest
  proforma, a next number, a sum, and an end of every walk; the rows may be any
  number;
- `InternalRequest`: a goods request asks for a list of items that is not empty,
  each in a positive quantity, as `schemas/request.py` demands;
- `DefinitionsAssumption`: every word reads as something that is not blank.  Two
  words may read the same, and a label may be a name;
- `FeedAssumption`: no step of the chain is the submitter's, who therefore hears of
  a request as its submitter only.

**The engine** (`CoreProofs`): any number of
users, steps, instances and decisions.

- `EngineTypeOK`, by one step per handler; `EngineOrderDiscipline`,
  `EngineNeverStuck` and `EngineEndedIsFinal`, from `EngineInv`.  The properties
  are not inductive by themselves: that an approved instance is never touched
  again needs that nothing of it is pending, and that a rejection reopens a step
  below every approved one needs the order of the steps.
- `EngineDecisionsAddUp`, from `HistoryInv`, which adds to `EngineInv` that
  the log is in the order of its clock, that each step's status is that of its last
  decision, taken by the user the step is assigned to, that an instance that has
  not begun has no steps, and that what is returned was returned by its first step.
- `EngineImplementsLifecycle`: each handler is a step of `ApprovalLifecycle`, one
  lemma per handler (`BeginRefines`, `ApproveRefines`, `RejectRefines`,
  `DeleteRefines`).  `HistoryInv` is needed because the lifecycle says `passed` and
  `todo` where the engine has a status per step.
- `EngineShownMayBeOpened`: each scope of each list against the test for opening.
  A list reads who decided, the test whom a step is assigned to; the invariant ties
  the two through the log (`ManualStepsActedOn`).

**Its races** (`WorkflowRacesProofs`): any number of sessions and steps.

- `RacesDecidedIsLogged`, from `RacesInv`, in all interleavings.
- `RacesApprovalsLeaveAPending`: the sessions that overlap only approve.
  `ApprovalsInv` says that a step is held by one session, that who holds a
  pending step holds those below it, and that a session about to commit an instance
  in progress leaves a step to decide or changes nothing of what is left.
- `RacesCleanAlone`: `AloneInv` says that what the one open transaction loaded is
  still what is committed.

**Petty cash and missions** (`PettyCashProofs`, `MissionRequestProofs`): any number
of rows, sessions and chains, delayed and repeated messages, crashes.

- `PettyCashNothingWithoutApproval`, from `ApprovalInv`: an event in the queue,
  a filing that passed its check and a column that was written all have an approved
  chain behind them, and no approval is taken back.  `MissionNothingUnapproved`
  likewise, from `EarnedInv`.
- `PettyCashToldInTheCalm`, `PettyCashKeptInTheCalm`, `MissionAlwaysAddsUp`,
  `MissionReportFrozen`: the second invariant, `InStep`, relates row, chains, lines
  and the handler under way while requests come one at a time and events are
  handled in place: what a handler found still stands when its next transaction
  begins.  `CalmInv` has it under `Calm`, as the properties do.

**Purchases** (`ProcurementProofs`): any number of proformas, amounts,
clicks, rejections and edits.

- `PurchaseDoneHasEvidence`, from `ChainInv`: what is approved comes before what
  is to be decided, and no evidence is ever taken back.  A repair from the page of
  the request and an approval in the inbox complete the same steps (lemma
  `RunMoves`).
- `PurchaseLinesFixed`: needs `CeoDecidesOthers`, that the status is never
  `pending` again once the CEO has decided, rejections included, because the status
  is not what the lock asks for.
- `PurchaseDoneAsAsked`, which also says that the chain enters the goods when it is
  over, and once unless clicks of its last step overlapped.  `PostingAtTheEnd`: when
  the last step is loaded nothing else is left to decide.  `InOnce`: without an
  overlap the posting under way is the only one so far; and after a posting the
  chain is approved to its end, which no operation undoes (lemma `EndStays`).
- `PurchaseStraight`, of `StraightAsPlanned`: the status follows the chain, checks add up, payment comes as
  approved, while nothing is rejected.  `InOrder` says the chain is decided from
  below, `TermsByCeo` that no proforma is approved before the CEO's step;
  `PostingAtTheEnd` keeps late clicks on the last step from writing a status.

**Financial chains** (`FinancialChainProofs`): any chain, people and bounds.

- `FinancialTypeOK`, `ConfirmedIsRegistered`, `FinancialNumbersFrozen`, from
  `FInv`.  It has an edit that is between its checks and its write: if the row is
  registered, it leaves the numbers alone.  It is kept because a registration
  cannot happen while an edit is open (unless they overlap, which the property
  excludes), and because terms that touch the numbers are refused after the
  registration (lemma `TermsKeepRow`).
- `FinancialStagesInOrder` and `FinancialChangedByThoseAsked`, from `StageInv`: each
  planned step that was approved has done what it is for, an approved chain has
  nothing pending, an edit of the requester's was begun before the first approval,
  and once finance has approved there is nothing left to collect.
- `FinancialLocksHold`: the two locks together, `FinancialNumbersFrozen` and
  `FinancialChangedByThoseAsked`.
- `FinancialNobodyIsStuck`: in any chain that is `Orderly`, whoever is waited for has
  terms with which `MayApprove`, the guard of `Approve`, holds.  `AbleInv` adds
  that the registration was a step of the chain, that what is approved lies below
  what waits, and that a payment order with an approval says how it is paid.  So
  what a step may no longer ask for after the registration was collected before,
  and the approver sends either nothing (`NothingIsEnough`) or all that is missing
  (`EverythingIsEnough`).  `Orderly` says what the proof needs of the administrator,
  who may define any chain: a registration before its confirmation, finance before
  the registration, an approval before anything is carried out.  Without it
  the property is false: a request that is changed into a payment order, in a chain
  that begins with the registration, never learns how it is paid.

**Stock** (`InventoryProofs`): `StockNegativeWhereTurned` for any number of
handlers and places, any quantities, zero and negative ones included, and crashes.
No lock is needed: the invariant says that a handler about to write an outgoing
move has *seen* at least what it takes out, and it writes the difference of what it
saw, whatever the row holds by then.  So a row goes below zero only where a
negative quantity was brought in, and what a handler saw below zero it saw there.
The same reason is why the stock can be wrong without being negative.

- `StockTransfersCreateNothing`, from `TransferInv`: as long as no transfer was of a
  negative quantity (`NoneTurned`), what all transfers have booked
  and what the handlers owe, who took out and have yet to bring in, add up to at most
  nothing.  It is less than nothing once one of them has failed or died.
- `StockFromSomewhere` has both, as the run's `NothingFromNowhere`.
- `StockBookedAlone`, from `AloneInv`: what a lone handler saw (`FreshRead`) is
  still in the row when it writes, so that the row moves by what it books.

Both speak of sums over all items, references or handlers, which
`InventoryAssumption` says are finitely many.  What they need of
`SumFunction` (that any element may be split off, that changing one entry changes the
sum by the difference, that sums of naturals are not negative) is proved in the same module
without an induction theorem: of the sets for which a sum is wrong, one includes
no other (`SmallestPart`, from the well-foundedness of < on Nat), and its parts say
that it is not.

**Internal requests** (`InternalRequestProofs`): `InternalIssuedAsApproved`, for any
number of requests, lists, runs, edits and crashes, messages repeated or not.

- That nothing leaves without an approval goes back through the jobs (each is for
  an approved request, and moves only items out in its name) and the queue (each
  event that says approved names an approved run) to the chains, of which no
  approval is taken back.
- That an approved request got everything is not inductive: it needs to know what a
  job half done has seen to.  `InStep` says it: unless the request was edited since,
  what is left of the job is a last part of the list, and at least the sum of what
  comes before is out, whoever took it out.  When nothing is left, that sum is the
  list (`CompleteIInv`); a job that dies takes only its own claim with it.
- Every step of others keeps a job in step because the edition only grows, a list
  changes only with it, and what is out stays out (`Growing`, `JobKept`).

The sums over a list are those of `InventoryProofs`, taken by instance
(`SumsApply`), with the list of n + 1 items split into n and one (`ListSums`).

**The feed** (`CoreProofs`): chains of any length, any number of people, handlers
and failures.

- `FeedReachesAssignee`, from `FeedInv`.  That whoever has to decide finds it
  (`EachIsTold`) is kept because each awaited step that nobody was told of yet has a
  tail or an event that will tell it, or was lost; where the tails stand and what
  has been published is `FeedShape`.  That is so however tails overlap.  It is not
  of deadlines: `Deadlines` is kept only one transaction at a time, where what
  `LookAround` found is still so when `Write` comes.
- `TaskReachesInbox`, from `TaskInv`: an answer under way is the only one and
  nobody else's (`OneAnswer`, `InHand`), and who handed a task on has no item left.

**Orders, receipts, catalogue, accounts** (`ProcurementProofs`): any number of rows
and clerks.  Each theorem says in one invariant what holds however requests overlap
and what holds one at a time.

- `OrdersHoldTogether` and `ReceivedOrdersStay`, from `OrdersInv`: until an order is
  deleted their numbers are 1 to their count, and whoever is about to store one
  holds one of these or the next; a line belongs to one order (`LinesApart`), and
  an order half received has booked the lines that are not left.
- `ReceiptsHoldTogether` and `PostedReceiptsStay`, from `ReceiptsInv`: receipts are
  never deleted, so that their numbers are 1 to their count; what is about to be
  posted has an invoice, and no invoice is taken away.
- `CatalogueHoldsTogether`, from `CatalogueInv`, and likewise
  `OrganizationHoldsTogether` for departments, from `OrganizationInv`: that a change
  of parents makes no loop is what the walk upwards of the code decides, and what
  the walk downwards of the tree shows.  The two walks are recursive functions, and
  the lemmas about them say where they end: a set that grows at most as often as
  there are members to meet has met all that it leads to (`SpreadIs`), so that
  both walks reach the same groups.
- `OneDefaultAccount`, from `AccountsInv`: what a request will clear includes every
  default but the one it makes.

**Administration and lists** (`CoreProofs`): any number of rows and administrators.

- `NamesAndRolesHold`, `RolesAreByRows`, from `DirectoryInv`: a request that passed
  its check of a singleton role still finds it free.  A token is not believed:
  `AccessFollowsRows` needs nothing of it but the name.
- `TeamsAreBelow`: the two walks down by which a leader's team is collected and the
  two up by which an employee's superiors are listed agree, loops of managers and
  the cut after `Level` managers included, where the employee and all in between are
  active: the walk down sees nobody else and stops there, that up sees everybody.
  A chain that leads down through active ones is followed link by link
  (`ChainLeads`), and back up by what each walk has met (`LedHasChain`).
- `DefinitionsAreKept`, from `DefinitionsInv`: a stored step asks first for the
  *name* of the role that was chosen for it, and that role is among those who read
  like it, so that the dictionary always has one of them for the word.
  That a ready chain can be started builds the assignment from one choice per step.
- `PagesAreWhole`, from `ListingInv`: the rows that are owed and slipped into pages
  already read are no more than the rows moved.  It counts rows before a row
  (`Rank`), which the move of another row changes by one at most.

What a recursive function computes cannot be proved by the library's induction
theorems, which take an operator.  Where a proof needs it, it is by the least
counterexample instead: among the numbers for which the claim fails, `<` on Nat
has a least one, and the number before it refutes it (`SpreadIs`, `MinOf`, and
`SmallestPart` for sets).

The proofs corrected the models.  A CASE whose guards overlap is an
arbitrary choice in TLA+, though TLC takes the first that holds; `Visibility`,
`PettyCash`, `MissionRequest` and `Directory` had such cases where the code has an
order of its own (`if` ... `elif`), and now say it with IF.
`NobodyIsStuck` was stated of every chain and is true of the orderly ones.

**Only model-checked.**

- `ApprovalIsCarriedOut`, `DeadlinesAreAnnounced`: liveness under fairness, out of
  the prover's reach.
- `CanProceed`: it says ENABLED of nine operations that meet in `ApprovalLifecycle`.
  What the status must be for each of them is `StatusFollowsChain`, which is proved.
- That a run of `MCFeed`, `MCBackOffice` or `MCAdministration` takes only steps of
  the specification a theorem is about is by the shape of their next-state
  relations; those specifications are wider, without the bounds of the runs.

## 6. What is not modelled

- Deadlocks in the database, other than as a rollback.
- A broker that goes down and comes up: `PettyCash` and `MissionRequest` have it
  either up or down; the other modules have it up.
- The second chain of a purchase, started by a proforma that is submitted for a
  chain that was returned to the requester.
- A rejection or a deletion between the moment a purchase's last step is loaded and
  the moment its goods are entered.
- Procurement payments: they need the status `ready_for_payment`, which nothing
  sets.  `requisition_service.py`, which nothing calls.
- Which permission each administrative route asks for: `Request` has the check
  itself, the administrators of the models are let through.
- Dashboards, reports, related requests, wording, spreadsheets and files: output
  of rows that are modelled.  Passwords, one-time codes and rate limits.
- Browser events, the cache and the audit log, which no decision reads back; the
  schema patches and scripts, run by an operator.  See the components in
  `PROJECT.json` for each.
