# A TLA+ development for Zentuva MCOS

Zentuva is a multi-tenant Manufacturing and Commerce Operating System: a NestJS API
(`src/apps/api`) over PostgreSQL (Prisma), a web application that calls it, and
some twenty business domains. This directory models the parts of the API in
which several requests compete for the same rows, checks the models with TLC on
small instances, and proves their main safety properties with TLAPS for every
size of instance.

Contents: [1 the system](#1-the-system) ·
[2 structure](#2-structure) · [3 how the code becomes a model](#3-how-the-code-becomes-a-model) ·
[4 modules](#4-modules) · [5 runs and bounds](#5-runs-and-bounds) ·
[6 fairness](#6-fairness) · [7 proofs](#7-proofs) ·
[8 findings](#8-findings) · [9 not modelled](#9-not-modelled)

## 1 The system

Paths are relative to `src/apps/api/src`; the docs of a domain are in
`src/docs/domains/<domain>.md`.

Everything that happens is an HTTP request: there is no timer, queue or
background worker. Even the sweeps that process events, send e-mail or mark
invoices overdue are requests that something outside must keep sending
(`notifications/notifications.controller.ts:203,255,314`). The API may run in
several processes and a request holds no state between processes, so **all
state is in the database**, and what makes the system hard is

- that a request awaits between its reads and its writes, and others run there;
- that PostgreSQL runs at READ COMMITTED without `SELECT ... FOR UPDATE`: a read
  inside a transaction locks nothing and may be out of date when it is used;
- that some operations are chains of several transactions, and can stop between
  two of them;
- that clients repeat requests (idempotency keys) and sweeps take over the work
  of others (leases).

| Component | State | Operations | Interacts with | What makes it correct | Module |
|---|---|---|---|---|---|
| Approval engine (`workflow/`) | instances, steps, decisions, events | create, submit, approve (which also recovers an approval that failed half way), reject, return, cancel, expire, resubmit | calls a subject handler, which writes the domain's row; emits durable events | one active instance per subject; steps decided in order and once; APPROVED only by every step; one event per transition; a decided instance finishes | `Workflow` |
| Subjects (`workflow/handlers`, `procurement/purchase-order`) | status and approver of the order | callbacks of the engine, edits, cancel, receive | engine, goods receipts | approver took the last decision; a cancelled order stays so | `Workflow` |
| Notification processing (`notifications/notification-event-processor...`) | processing status, lease, attempts of an event; notification rows | sweep (read, claim, resolve, commit, fail), manual retry | consumes the engine's events | all rows or none; nobody told twice; PROCESSED final; every event ends | `Notifications` |
| Deliveries of messages (`notifications/email-*`, `whatsapp-*`) | delivery rows with leases | create, claim, send, record, retry | notification rows; providers | accepted at most once per licence; given up only when earned; SENT final | `Deliveries` |
| Customer receivables (`finance/invoice`, `payment`, `credit-note`) | amounts and status of invoices, documents, allocations | issue, pay, credit, void, overdue sweep | automatic posting to the ledger | amounts equal the documents; status tells the balance; journal matches | `Receivables` |
| Accounts payable (`finance/supplier-*`) | the same for suppliers, matched with receipts | record, match, pay, credit, void | goods receipts, ledger | as above; nothing paid twice | - |
| General ledger (`finance/accounting`) | entries, periods, accounts | draft, post, void, close | every posting document | balanced; nothing in a closed period; VOID final | - |
| Sales (`sales/`) | order status, filled quantities, fulfilment rows | confirm, cancel, fulfil | stock, ledger, invoices, distribution | nothing over-filled; status tells progress; a cancelled order ships nothing | `Fulfilment` |
| Goods receipts and supplier returns (`inventory/goods-receipt`, `supplier-return`) | receipts, payable, replaced and returned quantities, order status | receive, replace, return | purchase orders, stock | stock follows documents; nothing payable, replaced or returned beyond its bound | `Receiving` |
| Stock (`inventory/`, and what production, maintenance and customer returns do to it) | quantity per product and location | adjust, transfer, reverse, issue, complete, return | everything that ships or receives | never negative; every movement counted once | `Stock`, `Fulfilment`, `Receiving` |
| Distribution (`distribution/`) | dispatches, deliveries, cumulative columns | dispatch, deliver, cancel, fail | fulfilments | nothing dispatched or delivered twice; the end of a dispatch is final | `Distribution` |
| D2C (`d2c/`, `payments/`) | consumers, orders, payments, collection rows | order, pay, callback, assign, prepare, collect, cancel | payment providers, sales orders, stock | callback applied once; a row says COLLECTED or CANCELLED only with its order | `Collection` |
| Treasury and planning (`finance/cash`, `budgeting`, `debt`, ...) | documents, forecasts | calculations and status changes | ledger | arithmetic | - |
| D2C conversations, retail, promotions, suppliers, catalogue, HR, assets, maintenance plans | master data and forms | create, update, status | stock for parts used | field validation | - |
| Identity and access (`identity/`, `access-control/`) | users, sessions, roles | sign in, invite, assign | guards before every request | permissions | - |
| Reporting, infrastructure, web | none of their own | reads | all | - | - |

`PROJECT.json` lists these components with their sources, and the hazards: the
places where this code can go wrong in a way a test hardly reaches, each with
the properties that cover it.

## 2 Structure

The order of the work was that of the damage an interleaving can do in a part
and of how many actors meet there; each component is one module, with an `MC`
module and one or two configurations for TLC, and a module of proofs;
`InventoryProofs` serves two of them. `Sums` defines the sum the modules about
quantities need, once.

| Component module | Abstract specification it implements | Checked by TLC | Proofs |
|---|---|---|---|
| `Workflow` | `WorkflowLifecycle` | `MCWorkflow` | `WorkflowProofs` |
| `Notifications` | | `MCNotifications` | `NotificationsProofs` |
| `Deliveries` | `Outbox` | `MCDeliveries` | `DeliveriesProofs` |
| `Receivables` | | `MCReceivables` | `ReceivablesProofs` |
| `Fulfilment` | | `MCFulfilment` | `FulfilmentProofs` |
| `Distribution` | | `MCDistribution` | `DistributionProofs` |
| `Receiving` | | `MCReceiving` | `InventoryProofs` |
| `Stock` | | `MCStock` | `InventoryProofs` |
| `Collection` | | `MCCollection` | `CollectionProofs` |

The modules are joined by assumptions rather than by one product of their state
spaces: section 4, "How they meet", says what each takes for granted of the
others and which property of the other supports it.

## 3 How the code becomes a model

- **A request is a slot** (`Calls`, `Sweeps`, `Requests`, `Slots`) holding where it stands
  and every value the code keeps in a variable across an `await`. Free slots
  take any request that a client may send, so requests of every kind overlap.
- **An action is one step other requests cannot see inside**: in `Workflow` one
  short transaction with the unlocked reads before it, in `Notifications`,
  `Deliveries` and `Collection` one statement or transaction of a sweep or
  request, in `Receivables` one statement of a transaction, in `Fulfilment`,
  `Distribution`, `Receiving` and `Stock` a group of statements between which
  only row locks matter.
- **Why statements may be merged**: a transaction's updates lock their rows to
  the end (two-phase locking). A statement whose rows the transaction already
  holds, or whose rows nobody else reads before the commit, commutes to
  the commit and is part of that action. What stays a step is a plain read that
  something else may outdate before it is used, and a lock that another
  transaction may have to wait for. Where a merged transaction takes
  several locks at once, deadlocks between transactions disappear from the model;
  PostgreSQL answers them with a rollback, which is an action of every such
  module.
- **READ COMMITTED** is modelled by what it does: a read returns the committed
  row (and the transaction's own writes), an update waits for the row's lock
  and keeps it to the end, `updateMany ... where status` re-evaluates its
  condition on the row it locks, and a unique index refuses a second insert.
- **Failure**: a chain of transactions may be abandoned after any of them
  (`Fail`, `Crash`); a single transaction may roll back at any statement
  (`Rollback`, in `Stock` `Abort`, which also stands for deadlock victims,
  closed periods and lost connections).
- **Repeats**: a client may send a request again at any time, also while the
  first is still running; a document in `Receivables`, `Fulfilment`,
  `Distribution`, `Receiving` and `Stock` is an idempotency key and any number of
  requests may carry it.
- **Time** exists in `Notifications`, as ages that grow with `Tick`, and in
  `Deliveries`, as a clock. "Overdue" and "past its due date" are actions that may happen at any time.
- **Quantities and money** are whole units (cents); the code rounds them with
  `roundCurrency`. What rounding does not repair is a hazard without a
  property (fulfilment quantities are compared as unrounded floats).
- **One organisation**: every query is scoped by `organisationId`, and no
  operation here crosses tenants. Permissions are assumed granted.
- A **history variable** `raced` appears in `Receivables`, `Fulfilment`,
  `Distribution`, `Receiving`, `Stock` and `Collection`. It is never read by an
  action; it collects the rows that were written on grounds that had ceased to
  be true (an amount computed from a row that another transaction has replaced,
  a shipment checked against an order another has written), each under the kind
  of race it was. Properties of the form "holds of every row not in `raced`" say
  that *only* that race breaks them, which no test of the sequential code can.
  `cut` in `Collection` likewise collects the chains that died half way, and
  `takeovers`, `retries`, `accepted`, `refused` in `Deliveries` count what the
  rows themselves do not remember.
- Operators named `...Bug` are plausible mistakes, placed before the definition
  they would replace. No specification uses them; each property is broken by
  at least one (`mutants` in `PROJECT.json`), so none holds vacuously.

## 4 Modules

### Workflow, WorkflowLifecycle

`workflow/workflow-instance.service.ts`, `workflow-instance.repository.ts`,
`workflow-event.repository.ts`, `handlers/purchase-order-workflow.handler.ts`,
`procurement/purchase-order/*`.

| Variable | Row or value |
|---|---|
| `status`, `subject`, `previous`, `hasDue`, `claimed` | `WorkflowInstance`: status, subjectId, previousInstanceId, dueAt, resubmittedAt |
| `step`, `decisions`, `events` | `WorkflowStepInstance.status`, `WorkflowDecision`, `WorkflowEvent` (a set: its idempotency key makes a second insert a no-op) |
| `active` | `WorkflowDefinition.status = ACTIVE` |
| `poStatus`, `approvedBy` | `PurchaseOrder.status`, `approvedById` |
| `call` | the requests in flight |

A request begins with a `Begin...` action (validations and first reads) and goes
on through the transactions of its chain. The engine's central path is
`decide` (the step's guarded update, the decision row and its event), then
either `activate` the next step or `onApproved` (the handler writes the order)
and `setStatus` (the instance's guarded update and event): three transactions,
between which a cancel, an expiry or a crash may come. Submission, resubmission
and recovery end in the same path. `Next` without `Fail` is
`NextWithoutFailure`.

`WorkflowLifecycle` is the promise with requests, database and orders taken
away: an instance takes the moves of its life, decides its steps in order, each
once, is APPROVED only when all steps are, and never reopens. The
engine implements it through the mapping `verdict` (a PENDING or ACTIVE step is
OPEN), checked as the property `ImplementsLifecycle` and proved as `Refinement`.
The lifecycle deliberately does not tie decisions to the status: the code does
not either (see `expire` in section 8).

### Notifications

`notifications/notification-event-processor.service.ts` and the constants and
preference lookup it uses. `status`, `attempts`, `held` (age of the lease) and
`wait` (time to the retry) are the columns of a `WorkflowEvent` row; `copies`
counts `Notification` rows. A sweep reads its candidates (`ReadCandidates`),
claims them one conditional update at a time (`Claim`), then for each resolves
recipients and preferences (`Resolve`) and commits rows and PROCESSED together
(`Commit`), or throws (`Throw`) and records the failure (`RecordFailure`) on the
attempts it read in the beginning. `Crash` kills it anywhere, `RetryEvent` is
the administrator's, `ChangePreference` a user's.

### Receivables

`finance/payment.repository.ts`, `credit-note.repository.ts`,
`invoice.repository.ts`, `invoice.service.ts`. A transaction in a slot `r`
applies a document or reverses it: `Begin...` reads the key, the document and
the invoices, `ReadInvoice` and `WriteInvoice` are the loop over the affected
invoices (an absolute write, computed from the row as read), `Commit` inserts or
updates the document and posts to the journal, `Rollback` leaves nothing.
Issuing and voiding an invoice and the overdue sweep are the other writers of
the status. The same row is thus written by four kinds of request.

### Fulfilment

`sales/sales-fulfilment.service.ts` (`Check`: order, outstanding quantity and
stock, outside the transaction), `sales-fulfilment.repository.ts` (`Open`: key
and status; `Take`: the conditional decrements at the source; `Supply`: the
outlet's stock; `Tally`: the increments of the lines and the status computed from
what it then reads; `Commit`: status, posting), `sales-order.service.ts`
(`Confirm`, `Cancel`), `inventory/inventory-stock-*` (`Adjust`).

### Deliveries, Outbox

`notifications/email-delivery.repository.ts`,
`email-delivery-processor.service.ts`. `status`, `attempts`, `leaseAt`,
`retryAt` are the columns of `EmailDelivery`. A sweep reads what is due or
whose lease has expired (`Find`), claims row by row with a conditional update
(`Claim`), and only then hands the claimed rows to the provider (`Send`, outside
any transaction, with the provider's answer chosen freely) and records the
answer (`RecordSent`, `RecordFailure`, conditional on PROCESSING but not on the
sweep's own lease). `Crash` may come anywhere; `Retry` is the administrator's,
also while the row is being sent. `began` and `read` are what the sweep carries:
the time of its read and the attempts it saw.

`Outbox` is what remains of the promise when sweeps, leases and the clock are
taken away: a message is handed over at most once per *licence*; it has one
licence and gets another only by a lease taken over or a manual retry; it is
recorded as sent only after the provider accepted it, and that is final. The
mapping is `Licences` and `Outcome`; `ImplementsOutbox` is checked and proved.
It is deliberately not "at most once": a sweep that is slower than its lease
makes the provider accept twice, and the model shows it.

### Distribution

`distribution/dispatch.repository.ts`, `delivery.repository.ts`,
`dispatch.service.ts`. Releasing a dispatch against fulfilled quantities and
confirming a delivery against dispatched ones are transactions of one shape, so
they share `ReadLine`, `WriteLine` and the column `moved`: `moved[None]` is
`quantityDispatched` of the fulfilment's lines, `moved[d]` `quantityDelivered`
of dispatch `d`. `OpenDispatch` and `OpenDelivery` are the reads of the parent's
status and of the key, `Tally` the status a delivery computes from the columns
it then sees, the `Commit...` actions the unique key and the unconditional status.
`Dispatch`, `MarkInTransit`, `Cancel` and `Fail` are the conditional updates of
the service.

### Receiving

`inventory/goods-receipt.repository.ts`, `supplier-return.repository.ts`, and
the edits and cancellations of `purchase-order.service.ts`. A receipt reads the
totals of the order's earlier receipts, which settle its status and its payable
portion (`OpenReceipt`); updates the order under a condition, which locks it, and
then checks what it replaces (`ClaimOrder`); reads and overwrites each stock row
(`ReadStock`, `WriteStock`); and commits. That the first read precedes the lock
and the check of replacements follows it is the difference between
`PayableWithinOrder`, which races break, and `ReplacedWithinRejected`, which they
do not. An edit of the order is a check (`BeginEdit`) and a later unconditional
write, with receipts in between.

### Stock

Everything else that moves a stock row: material issues and completion of a
production order (`production/production-order.service.ts`,
`production-run.repository.ts`), transfers and their reversal, manual
adjustments, spare parts (`maintenance/maintenance-part-usage.repository.ts`) and
customer returns (`sales/customer-return.repository.ts`). A document's status is
claimed conditionally in some of them (`ClaimProduction`, `ReverseTransfer`), read
and later overwritten in others (`IssuePart`, `CancelPart`, `CancelReturn`);
rows are moved in place in most and overwritten in two (`CompleteProduction`,
and the receipt of a customer return). The model keeps those differences,
which are what decides which property survives a race.

### Collection

`d2c/payment/d2c-payment.service.ts`,
`d2c/fulfillment/collection-point-fulfillment.service.ts` with its repository,
and the sales order operations they call. Three rows, `payment`, `order` and
`point`, are kept in step without a common transaction. A request is a chain of
stages: `read`, then the *claim* of the row (`Claim`, a conditional update of its
status), then the call of the other service (`ShipRest`, `CancelOrder`,
`ConfirmPaid`), and if that fails the claim is undone (`Uncollect`, `Uncancel`).
The answer of a call may be lost after its commit, a request may die at any
stage (`Crash`), provider callbacks may be repeated, contradictory or never
come, and sales staff confirm, cancel and ship the same orders meanwhile.

### How they meet

The engine's event rows are what `Notifications` consumes: `Emit` there is
`Record` in `Workflow` (both translate `recordWorkflowEventInTx`); a committed
notification is what `Create` in `Deliveries` starts from, and
`NobodyToldTwice` is why there is one row per notification and user.

`Workflow` sees goods receipts only as writers of the order's status, whose
rules `Receiving` has in full; `Receiving` starts from an order that is issued
and takes edits (its `Edits`) as the writers of the same column.

`Fulfilment` and `Receivables` meet in the code at a FULFILLED order, which may
be invoiced: the part of `StatusTellsProgress` that says FULFILLED is earned is
what invoicing relies on. `Distribution` starts from one committed fulfilment,
whose quantities no operation changes (its constant `Fulfilled`).
`Collection` takes a fulfilment as one step that may fail, whose inner
interleavings are `Fulfilment`'s.

`Stock`, `Receiving` and `Fulfilment` write the same table. Each has the manual
adjustment or another in-place writer of the rows it uses, so that each meets
every *kind* of write (conditional decrement, increment, absolute write) that the
other two can interpose; a product of the three would repeat those pairs.

## 5 Runs and bounds

A passing run is one question. Symmetry is used only for interchangeable slots
(and instances in `Workflow`, outlets in `Collection`); never in a run with a
liveness property.

| Run | Question | States |
|---|---|---|
| `engine` | do racing and failing requests leave one active instance and one successor, and implement the lifecycle? | 268k |
| `progress` | does everything decided finish, when no request fails; are steps, events and the order consistent, and the approver a real one? | 137k |
| `notifications` | are the rows of an event all or none, once, and attempts bounded? | 1.03M |
| `notifications_end` | does every event end, also if the sweep that claimed it dies? | 169k |
| `deliveries` | is every acceptance by the provider licensed, giving up earned, and `Outbox` implemented? | 743k |
| `receivables` | are amounts, statuses and journal those of the documents, up to races? | 481k |
| `fulfilment` | are stock, lines, statuses and entries those of the shipments, up to races? | 154k |
| `distribution` | are limits kept, columns and statuses those of the documents, up to races, and ends final? | 232k |
| `receiving` | are stock, payable, replaced and returned quantities and the order's status those of the documents, up to races? | 303k |
| `stock` | are rows, work in progress, issues and returned quantities those of the documents, up to races? | 902k |
| `collection` | do payment, order and collection row stay in step through deaths, lost answers and repeated callbacks? | 1.53M |
| `over_fulfilled` | does the code do what a comment says? (No: section 8) | - |

Why the bounds suffice for the cases that matter:

- `engine`: two calls are enough for every pairwise race (two approvers, approve
  against cancel or expire, a failing request against either); three instances of one
  order, so that two racing resubmissions could both succeed, and a sequence of
  one step. `progress` has two steps, for the activation of a next one and
  completion by the last; two approvers, so that the stamped approver could be
  the wrong one; one instance, a rejection, edits, cancellation and receipts of
  the order.
- `notifications`: two sweeps, two events (a batch that outlives its lease while
  working on the first), two recipients of whom one changes preference, two
  attempts so that exhaustion is reached from a retry, a lease of one tick so
  that it can expire anywhere, and one crash and one manual retry
  (`MaxRetries`, `MaxCrashes` are the only bounds on behaviour; `MaxClaiming`
  keeps a sweep's claiming phase within one lease unit of waiting, since one claim
  is a single statement). Older leases than `Oldest` are not told apart.
- `deliveries`: one row, because sweeps compete per row and the order of a
  batch is free; three sweeps, so that a row can be taken over from one that took
  it over; two attempts; a lease of one tick; `MaxNow = 3` ends the clock
  after two takeovers can have happened, `MaxRetries = 1` allows a retry under
  a running sweep. The proofs use neither bound.
- `receivables`: an invoice that takes two payments and a note with room for only
  some of them, a payment allocated to both invoices (so locks are taken in a
  sequence and deadlocks arise), two slots for every pairwise race.
- `fulfilment`: three slots, two orders competing for the same stock row, one
  of them supplying an outlet, batches that complete an order line by line (the
  write skew of two of them) and one that overlaps both; manual adjustments by
  at most `AdjustBound` net.
- `distribution`: three slots; two lines, a dispatch of both and one competing
  for the first; two deliveries of different lines and one that repeats the
  first's: lost updates need two transactions on a line, the wrong status a
  third on the other.
- `receiving`: two slots, two orders that share a stock row (their receipts hold
  different locks, so only these can lose an update), a rejected unit that two
  receipts claim to replace, two deliveries that together exceed an order, two
  returns of one receipt that exceed it, edits of one order.
- `stock`: two slots; two issues for a requirement that covers one, two returns
  for a line that covers one and a half, and a document of every kind on the
  rows they share.
- `collection`: one order (orders share no row here), two outlets for a
  reassignment, a demand of two so that staff may ship part of it, two requests,
  any number of deaths and callbacks. Most races are between two requests; that
  any number of them keeps the properties is proved.

Deadlock is checked in the runs of `Workflow`, `Notifications` and `Fulfilment`.
In the others the system may really stop: once every document of the instance
is recorded and ended (or the clock of `Deliveries` stands), no request has an
effect left.

## 6 Fairness

- `progress` (`FairSpec` of `Workflow`): each call that began goes on
  (`WF(Continue(c))`). Node runs a request's continuation once its query
  returns, and no request here waits for another. The specification excludes
  `Fail`: after a failed request the code needs a person to send another one
  (approving again recovers a half-finished approval), which nothing guarantees.
  Beginning a request is never assumed fair.
- `notifications_end` (`FairSpec` of `Notifications`): time passes, a sweep that
  began goes on unless it dies (`MaxCrashes`), and sweeps keep being requested,
  which is what the deployment must provide as the code has no scheduler.
  Without the last, nothing would ever be processed, as section 1 says. Manual
  retries are excluded (`MaxRetries = 0`): with them, an administrator could
  reopen an event for ever.

## 7 Proofs

Checked by TLAPS for all values of the constants that satisfy the named
assumptions: any number of instances, orders, users, slots, events, sweeps,
documents, products and locations, any totals, quantities and leases.

| Module | Inductive invariant | Theorems |
|---|---|---|
| `WorkflowProofs` | `Inv`: `TypeOK`, `HasSubject`, `RoutedFirst`, `StepsInSequence`, and `CallOK` for each call | `TypeCorrect`, `SequentialSteps`, `OneActive`, `OneDecision`, `RowsForward`, `ApprovalIsEarned`, `ResubmissionOnce`, `EventsTellState`, `ApproverIsDecider`, `Refinement` |
| `NotificationsProofs` | `IInv`: the properties, `RowsOK`, `SeenOK`; on top of it `BInv`: `Budget` for each event | `TypeCorrect`, `AllOrNothing`, `NoDuplicates`, `GivenUpLate`, `Final`, `AttemptsBounded` |
| `DeliveriesProofs` | the properties themselves, strengthened by what a sweep read and the provider's answers | `TypeCorrect`, `DuplicatesAccounted`, `GivingUpEarned`, `DeliveriesImplementOutbox` |
| `ReceivablesProofs` | `Inv`: `TypeOK`, `AmountsBounded`, `JournalMatches`, `KindsOK`, `TransactionsOK`, `KeysOK`; on top of it `Books`: the properties, `OneWriter`, `Carries` | `TypeCorrect`, `Bounds`, `JournalFollows`, `Corrections`, `LedgerFollowsDocuments`, `StatusFollowsBalance` |
| `FulfilmentProofs` | `Inv`: `TypeOK`, `CancelledShipsNothing`, `LinesBounded`, `JournalOK`, `RequestsOK`, `LocksOK`; on top of it `Books`: the properties, `LineLocksOK`, `Progress` | `TypeCorrect`, `Cancellation`, `OnlyRacesOverfill`, `CogsMatches`, `NothingUndone`, `NothingLost`, `StatusIsEarned` |
| `DistributionProofs` | `IInv`: `TypeOK`, `WithinLimits`, `DeliveriesTellStatus`, `RowsOK`, `RequestsOK`; on top of it `Columns`: the properties, `Drafts`, `OneWriter` | `TypeCorrect`, `LimitsHold`, `DeliveriesMeet`, `Finality`, `ColumnsAreTheSum`, `DeliveredEarned` |
| `InventoryProofs`, of `Receiving` | `IInv`: `TypeOK`, `ReplacedWithinRejected`, `ReturnsFit`, `StatusSaysReceived`, `RequestsOK`, `OneHolder`, `EditsOK`; on top of it `Books`: the properties, `Drafts`, `WrittenOnce` | `TypesKept`, `ReplacementsFit`, `StockIsTheSum`, `OnlyRacesOverPay`, `StatusIsEarned`, `ReturnsStayWithin` |
| `InventoryProofs`, of `Stock` | `StockInv`: `StockTypeOK`, the properties, `InProgressIsIssued`, `OneClaimant`, and `Carried` for each request | `RowsAreTheSum`, `WipCleared`, `IssuesFit`, `HeldIsReturns` |
| `CollectionProofs` | `IInv`: the four properties, `TypeOK`, `AboutOrders`, `HoldersHave`, `OneHolder`, `PastMoving`, `WithinDemand` | `TypeCorrect`, `CollectionsShip`, `CancellationsMeet`, `OutletsShipTheirOwn`, `PaymentsConfirm` |

Hardly any of the properties is inductive alone, for the same reason every
time: a request acts on what it read before. The strengthening is what a
request carries across its awaits.

- *Workflow.* `CallOK` says, for every position, what is still true of the rows
  when the call gets there: whoever is about to activate step `s` comes from a
  submission or from the approval of the step before, and that step is still
  APPROVED. It survives the other calls because rows only move forward
  (`RowsForward`, proved first, action by action): a decided step keeps
  its outcome, a routed instance stays routed. `ApprovalIsEarned` and
  `Refinement` also assume `Contiguous`, that the sequence numbers of a definition
  have no gap. `validateSteps` does not require that (it asks for unique positive
  numbers), and the engine looks for the step numbered one higher: a definition
  1, 3 would be approved after its first step. The assumption is thus a
  precondition the API leaves to its users, and a hazard of `PROJECT.json`.
  `ApproverIsDecider` assumes it for the same reason. Three properties have
  invariants of their own on top of `Inv`: `Resubmissions` (the winner of a claim
  is alone with the returned instance until it has linked a successor),
  `EventsKept` (only a resubmission gives an instance a predecessor), `Stamped`
  (whoever is about to be written as the approver approved the last step).
- *Notifications.* `SeenOK`: the attempts a sweep read are a lower bound of the
  row's, so an event is never given up early (`GivenUpLate`) although it may be
  given up late (section 8). `RowsOK`: the rows it built are for recipients of the
  event, and include everyone who always wants them. `Budget` bounds the attempts
  by an amount that the sweeps still hold: whoever owns an ended event may commit
  it once more, and whoever read it early may reopen it once. Each action
  spends what it adds, so the bound of `AttemptsAreBounded`, in the number of
  sweeps that overlap, holds for any number of them. It needs `SweepsAssumption`,
  that this number is finite.
- *Deliveries.* The count in `AcceptancesAccounted` is inductive because a claim
  under an expired lease buys exactly the licence its sweep may use up, and one of a
  PENDING row uses the licence that the row's return to PENDING left. What it
  counts are sweeps that hold the row and have not been answered, a finite
  cardinality that each action changes by at most one. `FailedIsEarned` adds that
  the attempts a sweep read never exceed the row's.
- *Receivables.* `TransactionsOK`: every row a transaction read or wrote has
  amounts within the total, because a share is validated against the same row
  from which the absolute value is computed; an invoice it wrote has been
  issued; and the status its document had when it began says what the document
  can be now. `KeysOK`: of several requests under one idempotency key only
  one can pass the unique index. `Books` is about the invoices no race has
  reached: a row a transaction has written is what it would still write now
  (`Carries`), because nobody else writes that row (`OneWriter`), so a commit moves
  the sum over the documents and the row by the same share.
- *Fulfilment.* `LocksOK`: a request that has taken stock shares none of its rows
  with another, so what its conditional decrement established still holds at
  the commit; `RequestsOK` (`Fits`): unless another request has written the order,
  the checks made outside the transaction are still true. `Books` adds what is
  counted: the lines a transaction incremented are its own until it commits
  (`LineLocksOK`), and a FULFILLED it has decided will be earned by then
  (`Progress`).
- *Distribution.* `RequestsOK`: what a transaction read of a line plus its own
  quantity is within the limit, so what it writes is too, however outdated the
  read; the limit of a dispatch never changes once it is recorded. That is
  why `LimitsHold` needs no exception for races while the columns themselves
  may lose an update (`ColumnsFollowDocuments`). A delivery under way knows of a
  cancellation or failure since its read, which makes `Finality` an action
  property: only such a delivery takes a dispatch back. `Columns` says of a
  column read that it is never more than the documents add up to, and equal to the
  column while the transaction does not know better (`Drafts`): a lost update
  can only leave a column low, and DELIVERED is earned all the same.
- *Receiving.* `OneHolder`: an order's row has one holder; so the check of
  replaced quantities, made after the lock, still holds at the commit.
  `ReplacementsFit` therefore assumes what the code assumes, that a replacement is
  recorded against the order it was rejected on. `Books` adds the sums: totals
  over receipts only grow, so a portion computed from an old total errs to one
  side; a written stock row has one writer (`WrittenOnce`); the excess a return
  takes fits unless the returned quantities have moved since (`ReturnDraft`).
- *Stock.* `Carried`: what an issue or a return read of a total leaves room for
  it; the value a completion will clear is at most what was issued; a return
  that took from the outlet's row still finds enough there. It rests on who
  holds what (`OneClaimant`: a claimed order has one completion, an outlet's row one
  return that took from it) and on `InProgressIsIssued`: until its completion, an
  order has in progress exactly what was issued for it. The proof about rows follows
  one document at a time: each step changes at most one document between done and
  not done, and the row by exactly what that document says (`BalancedStep`).
- *Collection.* `OneHolder` and `HoldersHave`: a request that claimed a row holds
  it alone, because every other claim needs another status, and finds it as it
  left it. `PastMoving`: a row whose outlet gave goods can no longer be
  reassigned, which is what makes `GoodsLeaveTheirOutlet` inductive. In all four
  theorems the exceptions name the one request that died or raced.

**Sums.** Half of these properties compare a column with a sum over documents.
The fold of the community modules takes an operator as its argument, and what it
computes needs an induction that no installed prover performs; so `Sums`
defines the sum of a function over a finite set as the number of its units, the
pairs `<<x, i>>` with `i` in `1 .. f[x]`. It is the same number, and its laws
(`SumAdd`, `SumPlus`, `SumMonotone`, `SumSqueeze`, ...) follow from the library's
theorems about finite sets, with no induction of their own. Each module of
proofs about quantities states and proves the laws it uses, in a section "The
laws of sums".

**Assumptions.** The theorems hold for all constants that satisfy the `ASSUME`s
of the modules, each of which TLC evaluates on the constants of a run. Besides
types, these say that documents, lines and overlapping sweeps are finite in
number (they are rows of a table, and processes), that kinds of documents are
apart (they are tables of their own), which rows each kind names
(`RowsAssumption`: an order only brings, an issue only takes), and that an order and
a fulfilment have a line with a positive quantity (the schemas at
`packages/validation/src/sales.ts:54` and `:107`). `InventoryProofs` extends both
`Receiving` and `Stock`, which therefore share no name.

Proved without being the property of a run: `TypeOK` of every module,
`OneDecision`, `GivenUpLate`, `Final`, `Bounds`, `Corrections`,
`OnlyRacesOverfill`, `CogsMatches`. Their statements were invariants of runs
while the models were built, and so were the inductive invariants before they were
proved.

Only model-checked: liveness (`DecidedInstancesFinish`, `EventsEnd`), which is out
of reach of TLAPS, and the violation of `over_fulfilled`. Every safety property
that a passing run checks is a theorem.

## 8 Findings

`over_fulfilled` is a run that TLC must find violated: the comment at
`sales/sales-fulfilment.service.ts:99` says the transaction validates all three
checks again. It does not repeat the one on the outstanding quantity, so
overlapping requests ship a line twice.

Disagreements between code and documents met on the way, without a run of their
own:

- `docs/domains/workflow.md:216` says an expired workflow cannot be approved.
  `expire` leaves the current step ACTIVE, and decisions look only at the step:
  the step is decided and its last approval approves the order.
- `docs/domains/procurement.md:151` calls the cancellation of an order one-way.
  `onWorkflowApproved` writes APPROVED whatever the status is.
- `notification-processing.constants.ts:8` limits the attempts before FAILED.
  The count is the one read with the candidate, so an overlapping sweep leaves
  an event PENDING with all attempts used (`AttemptsAreBounded` says by how
  much); the same holds of `email-delivery-processing.constants.ts:12`.
- The comment at `finance/payment.repository.ts:213` says the re-validation in
  the transaction keeps an invoice from being allocated beyond its balance. It
  reads without a lock; two documents can exceed the total, and one
  `amountPaid` overwrites the other. (Payments alone cannot exceed it: `Bounds`.)
- `d2c/fulfillment/collection-point-fulfillment.service.ts:303-305` calls the
  idempotency key of the fulfilment a safety net for a crash between the claim of
  the row and the fulfilment. After such a crash the row stays COLLECTED, and
  every repetition returns at 325-334 before it could use the key: the
  order is never shipped (the exception of `CollectedIsShipped` for `cut`).
- A slow sweep's commit is unconditional, so it moves an event from FAILED to
  PROCESSED.
- `finance.md:116-119` says an OVERDUE invoice is never voided, the code
  (`invoice.service.ts:239-245`) accepts it.
- `PaymentService.create` checks the invoices (58-105) before it looks up the
  idempotency key, so repeating a payment that settled its invoice is answered
  with an error instead of the payment.
- Two fulfilments of different lines can both write PARTIALLY_FULFILLED and leave a
  fully shipped order that can be neither fulfilled nor invoiced; FULFILLED is
  decided on the total over all lines, so after a race one line may be short and
  another over-filled.

Known hazards with no property, beside the list of `PROJECT.json`:

- `workflow-instance.service.ts:371`: a failure between the decision of a step
  and the activation of the next leaves no ACTIVE step, and no request recovers
  that; `:279` is the same in submission. They are in `engine` as `Fail`, and
  are why the liveness property excludes it.
- `workflow-instance.service.ts:634`: whether a cancellation reverts the order
  is decided on the status it read; `:498`: a resubmission consumes its claim
  before it validates again.
- `finance/invoice.service.ts:103`: two requests that invoice one sales order
  both find no invoice; creation of invoices is not modelled.
- `sales/sales-fulfilment.repository.ts:427`: quantities are floats compared
  unrounded; quantities are whole numbers here.
- `finance/accounting/journal-entry.repository.ts:150` and
  `accounting-period.service.ts:34`: posting against voiding, and overlapping
  periods; the ledger is not modelled.
- `collection-point-fulfillment.service.ts:489`: a cancellation after sales
  cancelled the order itself is refused by sales and puts its row back: the row
  stays open for a cancelled order. `Collection` allows it and no property
  forbids it.

## 9 Not modelled

The list of components in `PROJECT.json` gives a reason for each. Most of the
repository's lines are the web application, seed data, validation, mapping and
read queries, where no step of one actor can disturb another's; the share of
lines the modules stand for is small for that reason, and would not rise by
modelling more of the same.

- *General ledger.* Journal entries are drafted, posted and voided by one
  accountant; automatic entries are part of the documents that post them
  (`Receivables`, `Fulfilment`). Periods and accounts are constants.
- *Accounts payable.* Document by document the same unlocked reads, absolute
  writes and conditional statuses as `Receivables`; what is new, the payable
  quantities of receipts, is in `Receiving`.
- *WhatsApp deliveries.* The protocol of `Deliveries` repeated on another table.
- *D2C conversations.* A dialogue over message text.
- *Treasury, planning, tax, average cost.* Float calculations. The average cost
  is reduced in `Fulfilment` to whether a product has one (`Costed`), which
  decides whether there is an entry to post.
- *HR, assets, maintenance plans, catalogue, retail, promotions.* Master data and
  forms with a status, one read and one write each.
- *Identity and access.* Checks before a request are assumed to have passed.
- *Reads, reporting, the web application.*

Within the modelled components: `markCompleted` of the engine (no caller, so
COMPLETED is unreachable), editing of definitions and drafts, the hiring-request
handler (as the purchase order's), read marks of notifications, creation of
invoices and orders, average cost and journal entries of receipts. Every
fulfilment, dispatch, receipt and return carries an idempotency key here, although
the API makes it optional (without one, each repeat is a new document).

To run a check: `tlc -config <cfg> <module>` with the pairs of `PROJECT.json`; to
check the proofs: `tlapm <module>Proofs.tla`.
