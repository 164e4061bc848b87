------------------------------ MODULE Fulfilment ------------------------------
(***************************************************************************)
(* Sales orders and their fulfilment: confirming and cancelling an order   *)
(* (apps/api/src/sales/sales-order.service.ts), shipping a batch of its    *)
(* lines out of stock (sales-fulfilment.service.ts, which checks, and      *)
(* sales-fulfilment.repository.ts, which writes), and the manual stock     *)
(* adjustments that compete for the same stock rows.                       *)
(*                                                                         *)
(* A fulfilment is one PostgreSQL transaction at READ COMMITTED: its reads *)
(* return committed rows and its own writes and lock nothing, its updates  *)
(* lock their rows until the commit.  An action is a group of statements   *)
(* between which only those locks could make it wait.                      *)
(***************************************************************************)
EXTENDS Integers, Sums

CONSTANTS
  Requests,   \* slots for fulfil requests in flight
  Orders,
  Products,
  Locations,
  Ordered,    \* Ordered[o][p]: quantity of o's line for p, 0 without one; a product has one line
  OutletOf,   \* the stock location of the outlet that placed the order, or None
  Batches,    \* fulfilments a client intends, each under its idempotency key
  OrderOf,    \* the order of a batch
  From,       \* the location a batch ships from
  Quantity,   \* Quantity[b][p]: what batch b ships of product p
  Opening,    \* Opening[l][p]: stock before the first fulfilment
  Costed,     \* products whose stock has a cost
  Adjustable, \* stock rows that are also adjusted by hand
  AdjustBound,\* bound on the net adjustment of a row
  None

ASSUME FulfilmentAssumption ==
  /\ IsFiniteSet(Products) /\ IsFiniteSet(Batches)
  /\ Ordered \in [Orders -> [Products -> Nat]]
  /\ \A o \in Orders : \E p \in Products : Ordered[o][p] > 0
  /\ OutletOf \in [Orders -> Locations \cup {None}] /\ None \notin Locations \cup Batches
  /\ OrderOf \in [Batches -> Orders] /\ From \in [Batches -> Locations]
  /\ Quantity \in [Batches -> [Products -> Nat]]
  /\ \A b \in Batches : \E p \in Products : Quantity[b][p] > 0
  /\ \A b \in Batches, p \in Products : Ordered[OrderOf[b]][p] = 0 => Quantity[b][p] = 0
  /\ Opening \in [Locations -> [Products -> Nat]]
  /\ Costed \subseteq Products /\ Adjustable \subseteq Locations \X Products
  /\ AdjustBound \in Nat

OrderStatuses == {"DRAFT", "CONFIRMED", "PARTIALLY_FULFILLED", "FULFILLED", "CANCELLED"}
\* Mutant: only the orders the service names are refused, and it forgets the cancelled.
FulfillableCancelledBug == {"CONFIRMED", "PARTIALLY_FULFILLED", "CANCELLED"}
Fulfillable == {"CONFIRMED", "PARTIALLY_FULFILLED"}

VARIABLES
  order,     \* order[o], its status
  filled,    \* filled[o][p]: SalesOrderItem.quantityFulfilled
  stock,     \* stock[l][p]: InventoryStock.quantityOnHand
  shipped,   \* batches with a SalesFulfilment row
  journal,   \* batches with a COGS journal entry
  request,   \* request[r], what the request in slot r has done
  adjusted,  \* history: net manual adjustment of every stock row
  raced      \* history: orders written by a request whose checks were no longer true to them

vars == <<order, filled, stock, shipped, journal, request, adjusted, raced>>

\* A request: its batch, how far it got, the status it will write, and whether its order
\* has been written by another since the service checked it.
Request(batch, stage, status, stale) ==
  [batch |-> batch, stage |-> stage, status |-> status, stale |-> stale]
Idle == Request(None, "idle", "DRAFT", FALSE)
Stages == {"idle", "checked", "open", "taken", "supplied", "tallied"}
RequestRecords ==
  [batch : Batches \cup {None}, stage : Stages, status : OrderStatuses, stale : BOOLEAN]

Init ==
  /\ order = [o \in Orders |-> "DRAFT"]
  /\ filled = [o \in Orders |-> [p \in Products |-> 0]]
  /\ stock = Opening
  /\ shipped = {}
  /\ journal = {}
  /\ request = [r \in Requests |-> Idle]
  /\ adjusted = [l \in Locations |-> [p \in Products |-> 0]]
  /\ raced = {}

-----------------------------------------------------------------------------
(* Rows and locks *)

Lines(b) == {p \in Products : Quantity[b][p] > 0}

\* Where a batch is recognised as the outlet's stock; a delivery to its own source is none.
Destination(b) ==
  IF OutletOf[OrderOf[b]] = From[b] THEN None ELSE OutletOf[OrderOf[b]]

StockRows(b) == ({From[b], Destination(b)} \ {None}) \X Lines(b)
HasStockLocks(r) == request[r].stage \in {"taken", "supplied", "tallied"}
HasLineLocks(r) == request[r].stage \in {"supplied", "tallied"}

StockLocked(row) ==
  \E r \in Requests : HasStockLocks(r) /\ row \in StockRows(request[r].batch)
LineLocked(o, p) ==
  \E r \in Requests : /\ HasLineLocks(r)
                      /\ OrderOf[request[r].batch] = o /\ p \in Lines(request[r].batch)

\* The other requests in flight on an order have now checked something that is no more.
Stale(o) ==
  [r \in Requests |->
     IF request[r].batch # None /\ OrderOf[request[r].batch] = o
     THEN [request[r] EXCEPT !.stale = TRUE]
     ELSE request[r]]

-----------------------------------------------------------------------------
(* The order's own transitions: conditional updates of its status *)

Confirm(o) ==
  /\ order[o] = "DRAFT"
  /\ order' = [order EXCEPT ![o] = "CONFIRMED"]
  /\ UNCHANGED <<filled, stock, shipped, journal, request, adjusted, raced>>

\* Mutant: an order part of which has shipped can be cancelled.
CancellableAnyBug == {"DRAFT", "CONFIRMED", "PARTIALLY_FULFILLED"}
Cancellable == {"DRAFT", "CONFIRMED"}

Cancel(o) ==
  /\ order[o] \in Cancellable
  /\ order' = [order EXCEPT ![o] = "CANCELLED"]
  /\ request' = Stale(o)
  /\ UNCHANGED <<filled, stock, shipped, journal, adjusted, raced>>

-----------------------------------------------------------------------------
(* Fulfilment *)

Outstanding(o, p) == Ordered[o][p] - filled[o][p]

\* SalesFulfilmentService.fulfil: checks made before any transaction.  A key already used
\* returns its fulfilment and changes nothing.
Check(r, b) ==
  LET o == OrderOf[b]
  IN  /\ request[r] = Idle
      /\ b \notin shipped
      /\ order[o] \in Fulfillable
      /\ \A p \in Lines(b) : /\ Quantity[b][p] <= Outstanding(o, p)
                             /\ Quantity[b][p] <= stock[From[b]][p]
      /\ request' = [request EXCEPT ![r] = Request(b, "checked", "DRAFT", FALSE)]
      /\ UNCHANGED <<order, filled, stock, shipped, journal, adjusted, raced>>

\* The transaction begins: the key and the order are read again, without a lock.
Open(r) ==
  /\ request[r].stage = "checked"
  /\ request[r].batch \notin shipped
  /\ order[OrderOf[request[r].batch]] \in Fulfillable
  /\ request' = [request EXCEPT ![r].stage = "open"]
  /\ UNCHANGED <<order, filled, stock, shipped, journal, adjusted, raced>>

\* decrementStockIfAvailable on every line, then the increments at the outlet: they take
\* effect at the commit and keep the rows locked until then.
Take(r) ==
  LET b == request[r].batch
  IN  /\ request[r].stage = "open"
      /\ \A row \in StockRows(b) : ~StockLocked(row)
      /\ \A p \in Lines(b) : Quantity[b][p] <= stock[From[b]][p]
      /\ request' = [request EXCEPT ![r].stage = "taken"]
      /\ UNCHANGED <<order, filled, stock, shipped, journal, adjusted, raced>>

\* Mutant: no unique constraint on the key.
SupplyNoKeyBug(r) ==
  /\ request[r].stage = "taken"
  /\ \A p \in Lines(request[r].batch) : ~LineLocked(OrderOf[request[r].batch], p)
  /\ request' = [request EXCEPT ![r].stage = "supplied"]
  /\ UNCHANGED <<order, filled, stock, shipped, journal, adjusted, raced>>

\* The fulfilment row, unique by order and key, and the increment of every line.
Supply(r) ==
  LET b == request[r].batch
  IN  /\ request[r].stage = "taken"
      /\ b \notin shipped
      /\ \A p \in Lines(b) : ~LineLocked(OrderOf[b], p)
      /\ request' = [request EXCEPT ![r].stage = "supplied"]
      /\ UNCHANGED <<order, filled, stock, shipped, journal, adjusted, raced>>

TotalOrdered(o) == Sum(Ordered[o], Products)
TotalFilled(o) == Sum(filled[o], Products)
TotalShipped(b) == Sum(Quantity[b], Products)

\* Mutant: the lines are read before they are incremented.
StatusAfterEarlyReadBug(b) ==
  IF TotalFilled(OrderOf[b]) >= TotalOrdered(OrderOf[b])
  THEN "FULFILLED" ELSE "PARTIALLY_FULFILLED"

StatusAfter(b) ==
  IF TotalFilled(OrderOf[b]) + TotalShipped(b) >= TotalOrdered(OrderOf[b])
  THEN "FULFILLED" ELSE "PARTIALLY_FULFILLED"

\* The lines are read back: the committed ones with this transaction's own increments.
Tally(r) ==
  /\ request[r].stage = "supplied"
  /\ request' = [request EXCEPT ![r].stage = "tallied", ![r].status = StatusAfter(request[r].batch)]
  /\ UNCHANGED <<order, filled, stock, shipped, journal, adjusted, raced>>

\* The COGS entry, skipped for stock without a cost.
Posted(b) == IF Lines(b) \cap Costed # {} THEN {b} ELSE {}

\* What a batch adds to a stock row.
Moved(b, l, p) ==
  CASE l = From[b] -> 0 - Quantity[b][p]
    [] l = Destination(b) -> Quantity[b][p]
    [] OTHER -> 0

\* The status is written whatever the order's status is by now, the journal entry is
\* posted and everything becomes visible.
Commit(r) ==
  LET b == request[r].batch
      o == OrderOf[b]
  IN  /\ request[r].stage = "tallied"
      /\ order' = [order EXCEPT ![o] = request[r].status]
      /\ filled' = [filled EXCEPT ![o] = [p \in Products |-> @[p] + Quantity[b][p]]]
      /\ stock' = [l \in Locations |-> [p \in Products |-> stock[l][p] + Moved(b, l, p)]]
      /\ shipped' = shipped \cup {b}
      /\ journal' = journal \cup Posted(b)
      /\ raced' = IF request[r].stale THEN raced \cup {o} ELSE raced
      /\ request' = [Stale(o) EXCEPT ![r] = Idle]
      /\ UNCHANGED adjusted

\* A failed check, too little stock, a key that is taken, no open period, an outlet row of
\* another owner, a deadlock, a lost connection: nothing is written.
Rollback(r) ==
  /\ request[r] # Idle
  /\ request' = [request EXCEPT ![r] = Idle]
  /\ UNCHANGED <<order, filled, stock, shipped, journal, adjusted, raced>>

-----------------------------------------------------------------------------
(* applyStockAdjustmentIfNonNegative: a manual adjustment, atomic on its row *)

NonNegative(quantity) == quantity >= 0

Adjust(l, p, delta) ==
  /\ adjusted[l][p] + delta \in (0 - AdjustBound)..AdjustBound
  /\ ~StockLocked(<<l, p>>)
  /\ NonNegative(stock[l][p] + delta)
  /\ stock' = [stock EXCEPT ![l][p] = @ + delta]
  /\ adjusted' = [adjusted EXCEPT ![l][p] = @ + delta]
  /\ UNCHANGED <<order, filled, shipped, journal, request, raced>>

-----------------------------------------------------------------------------
Next ==
  \/ \E o \in Orders : Confirm(o)
  \/ \E o \in Orders : Cancel(o)
  \/ \E r \in Requests :
       \/ \E b \in Batches : Check(r, b)
       \/ Open(r)
       \/ Take(r)
       \/ Supply(r)
       \/ Tally(r)
       \/ Commit(r)
       \/ Rollback(r)
  \/ \E row \in Adjustable, delta \in {-1, 1} : Adjust(row[1], row[2], delta)

Spec == Init /\ [][Next]_vars

-----------------------------------------------------------------------------
(* Properties *)

\* Every variable holds values of its type; in particular no stock row is ever negative,
\* whatever fulfilments and adjustments compete for it.
TypeOK ==
  /\ order \in [Orders -> OrderStatuses]
  /\ filled \in [Orders -> [Products -> Nat]]
  /\ stock \in [Locations -> [Products -> Nat]]
  /\ shipped \subseteq Batches /\ journal \subseteq Batches
  /\ request \in [Requests -> RequestRecords]
  /\ adjusted \in [Locations -> [Products -> Int]]
  /\ raced \subseteq Orders

\* What a set of batches ships of a product.
ShippedIn(batches, p) == Sum([b \in Batches |-> Quantity[b][p]], batches)

\* Nothing is lost or made up, races included: every stock row is what it opened with, its
\* adjustments and each fulfilment exactly once, at the source and at the outlet, retries
\* included, and quantityFulfilled is the sum of the fulfilments of its line.
StockAccounted ==
  \A p \in Products :
    /\ \A l \in Locations :
         stock[l][p] = Opening[l][p] + adjusted[l][p]
                         + ShippedIn({b \in shipped : Destination(b) = l}, p)
                         - ShippedIn({b \in shipped : From[b] = l}, p)
    /\ \A o \in Orders : filled[o][p] = ShippedIn({b \in shipped : OrderOf[b] = o}, p)

\* A cancelled order has shipped nothing, and an order some of which has shipped is
\* PARTIALLY_FULFILLED or FULFILLED: this holds also of the orders requests raced for.
CancelledShipsNothing ==
  \A o \in Orders :
    (\E b \in shipped : OrderOf[b] = o) <=> order[o] \in {"PARTIALLY_FULFILLED", "FULFILLED"}

\* Overlapping requests are the only way to fill a line beyond its order: on an order that
\* no request raced for, the service's check outside the transaction suffices.
LinesBounded ==
  \A o \in Orders \ raced, p \in Products : filled[o][p] <= Ordered[o][p]

\* FULFILLED, which invoicing relies on, is earned: the quantity ordered has left the stock,
\* races included.  On an order no request raced for the status is exact, line by line.
StatusTellsProgress ==
  \A o \in Orders :
    /\ order[o] = "FULFILLED" => TotalFilled(o) >= TotalOrdered(o)
    /\ o \notin raced =>
         /\ order[o] = "FULFILLED" <=> filled[o] = Ordered[o]
         /\ order[o] \notin {"PARTIALLY_FULFILLED", "FULFILLED"} <=> TotalFilled(o) = 0

\* A shipment is never undone: fulfilments, entries and filled quantities only grow, an
\* order does not return to CONFIRMED or DRAFT, and a cancelled one stays cancelled unless
\* a fulfilment raced with the cancellation.
NeverUndone ==
  [][/\ shipped \subseteq shipped' /\ journal \subseteq journal'
     /\ \A o \in Orders :
          /\ \A p \in Products : filled[o][p] <= filled'[o][p]
          /\ order'[o] = "DRAFT" => order[o] = "DRAFT"
          /\ order'[o] = "CONFIRMED" => order[o] \in {"DRAFT", "CONFIRMED"}
          /\ order'[o] = "CANCELLED" => order[o] \in {"DRAFT", "CONFIRMED", "CANCELLED"}
          /\ order[o] = "CANCELLED" /\ o \notin raced' => order'[o] = "CANCELLED"]_vars

\* What the comment on SalesFulfilmentService.fulfil claims: the transaction validates
\* every check again, so no line ships more than was ordered.
NeverOverFulfilled ==
  \A o \in Orders, p \in Products : filled[o][p] <= Ordered[o][p]

=============================================================================
