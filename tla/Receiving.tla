------------------------------- MODULE Receiving -------------------------------
(***************************************************************************)
(* Goods received against purchase orders and returned to their supplier   *)
(* (goods-receipt.repository.ts, supplier-return.repository.ts under       *)
(* apps/api/src/inventory): what enters the stock rows, what of it the     *)
(* order makes payable, and the status the order takes, with cancellations *)
(* and edits of the order by purchase-order.service.ts.                    *)
(*                                                                         *)
(* PostgreSQL at READ COMMITTED: a plain read takes no lock and an update  *)
(* locks its row until the transaction ends.  A step that holds the lock   *)
(* of everything it touches is merged with the commit; reads whose rows    *)
(* may change before they are used, and locks others run into, are steps.  *)
(***************************************************************************)
EXTENDS Integers, Sums

CONSTANTS
  Requests,     \* slots for the transactions in flight
  Orders,       \* purchase orders, issued to their supplier
  Products,     \* a stock row each, at the organisation's default location
  Receipts,     \* deliveries clients record, each under its idempotency key
  Returns,      \* returns to the supplier, each under its idempotency key
  Ordered,      \* Ordered[o][p]: the quantity of the order's line for p
  OrderOf,      \* the order a receipt is recorded against
  Delivered,    \* Delivered[g][p], deliveredQuantity
  Rejected,     \* Rejected[g][p], rejectedQuantity
  Replaces,     \* the receipt whose rejected goods g replaces, or None
  ReceiptOf,    \* the receipt a return takes from
  Quantity,     \* Quantity[s][p]: what return s sends back
  Edits,        \* Edits[o]: the statuses users of the order write meanwhile
  Opening,      \* Opening[p]: quantityOnHand before all this
  None

ASSUME ReceivingAssumption ==
  /\ Ordered \in [Orders -> [Products -> Nat]]
  /\ OrderOf \in [Receipts -> Orders]
  /\ Delivered \in [Receipts -> [Products -> Nat]]
  /\ Rejected \in [Receipts -> [Products -> Nat]]
  /\ \A g \in Receipts, p \in Products : Rejected[g][p] <= Delivered[g][p]
  /\ Replaces \in [Receipts -> Receipts \cup {None}]
  /\ ReceiptOf \in [Returns -> Receipts]
  /\ Quantity \in [Returns -> [Products -> Nat]]
  /\ Edits \in [Orders -> SUBSET {"PENDING", "CANCELLED"}]
  /\ Opening \in [Products -> Nat]
  /\ Receipts \cap Returns = {}
  /\ None \notin Receipts \cup Returns \cup Products
  /\ IsFiniteSet(Receipts) /\ IsFiniteSet(Returns)

OrderStatuses == {"PENDING", "PARTIALLY_RECEIVED", "RECEIVED", "CANCELLED"}
Received == {"PARTIALLY_RECEIVED", "RECEIVED"}

VARIABLES
  status,     \* status[o]: PurchaseOrder.status
  receipts,   \* goods receipts that have their row
  payable,    \* payable[g][p]: payableQuantity of the receipt's line
  replaced,   \* replaced[g][p]: replacedQuantity
  returned,   \* returned[g][p]: returnedQuantity
  excess,     \* excess[g][p]: returnedExcessQuantity
  returns,    \* supplier returns that have their row
  onHand,     \* onHand[p]: InventoryStock.quantityOnHand
  edit,       \* edit[o]: the status an edit of the order will write, or None
  request,    \* request[r]: the transaction in slot r
  raced       \* history: <<p, "stock">>, <<o, "payable">>, <<g, "returned">>: written from a
              \* read another commit had outdated; <<o, "status">>: received while an edit was open

docVars == <<receipts, payable, replaced, returned, excess, returns>>
vars == <<status, docVars, onHand, edit, request, raced>>

Accepted(g, p) == Delivered[g][p] - Rejected[g][p]
Zero == [p \in Products |-> 0]
Least(i, j) == IF i < j THEN i ELSE j
Positive(i) == IF i < 0 THEN 0 ELSE i

\* A transaction: its document; for a receipt the payable part of each line and the status
\* its order takes, for a return the excess part of each line; whether it holds the order;
\* the stock rows it has still to write, the one it has read and not yet written; and the
\* reads it decided by.
Transaction(x, portion, outcome, todo, basis) ==
  [doc |-> x, portion |-> portion, outcome |-> outcome, claimed |-> FALSE, todo |-> todo,
   at |-> None, seen |-> Zero, basis |-> basis]
Idle == Transaction(None, Zero, "NONE", {}, Zero)

Init ==
  /\ status = [o \in Orders |-> "PENDING"]
  /\ receipts = {} /\ returns = {}
  /\ payable = [g \in Receipts |-> Zero] /\ replaced = [g \in Receipts |-> Zero]
  /\ returned = [g \in Receipts |-> Zero] /\ excess = [g \in Receipts |-> Zero]
  /\ onHand = Opening
  /\ edit = [o \in Orders |-> None]
  /\ request = [r \in Requests |-> Idle]
  /\ raced = {}

Busy(r) == request[r] # Idle
ReceiptsOf(o) == {g \in receipts : OrderOf[g] = o}
PriorDelivered(o, p) == Sum([g \in Receipts |-> Delivered[g][p]], ReceiptsOf(o))
PriorPayable(o, p) == Sum([g \in Receipts |-> payable[g][p]], ReceiptsOf(o))

\* Rows an open transaction holds: the order of a receipt that passed its guard, and the
\* stock rows it has written.
OrderLocked(o) ==
  \E r \in Requests : request[r].claimed /\ OrderOf[request[r].doc] = o
Written(r) ==
  IF request[r].claimed
  THEN {p \in Products : Accepted(request[r].doc, p) > 0} \ request[r].todo ELSE {}
StockLocked(p) == \E r \in Requests : p \in Written(r)

-----------------------------------------------------------------------------
(* Recording a receipt *)

\* Mutant: the cap ignores what earlier receipts made payable.
PayablePortionUncappedBug(g, p) == Least(Accepted(g, p), Ordered[OrderOf[g]][p])
\* The part of a line the order still covers after all earlier receipts.
PayablePortion(g, p) ==
  Least(Accepted(g, p), Positive(Ordered[OrderOf[g]][p] - PriorPayable(OrderOf[g], p)))

\* Mutant: complete when the lines on this receipt are.
FullyDeliveredOwnLinesBug(g) ==
  \A p \in Products : Delivered[g][p] > 0 =>
    PriorDelivered(OrderOf[g], p) + Delivered[g][p] >= Ordered[OrderOf[g]][p]
FullyDelivered(g) ==
  \A p \in Products :
    PriorDelivered(OrderOf[g], p) + Delivered[g][p] >= Ordered[OrderOf[g]][p]

\* The order is receivable and the totals of its earlier receipts are read, which settle
\* the status and the payable quantities.
OpenReceipt(r, g) ==
  /\ ~Busy(r) /\ g \notin receipts
  /\ status[OrderOf[g]] # "CANCELLED"
  /\ Replaces[g] \in receipts \cup {None}
  /\ request' = [request EXCEPT ![r] =
       Transaction(g, [p \in Products |-> PayablePortion(g, p)],
                   IF FullyDelivered(g) THEN "RECEIVED" ELSE "PARTIALLY_RECEIVED",
                   {p \in Products : Accepted(g, p) > 0},
                   [p \in Products |-> PriorPayable(OrderOf[g], p)])]
  /\ UNCHANGED <<status, docVars, onHand, edit, raced>>

\* Mutant: replacements are not counted against the rejection.
ReplaceableUncheckedBug(g) == TRUE
\* What g claims to replace is still un-replaced on the receipt it names.
Replaceable(g) ==
  Replaces[g] # None =>
    \A p \in Products :
      Delivered[g][p] <= Rejected[Replaces[g]][p] - replaced[Replaces[g]][p]

\* The guarded update of the order, which holds its row from here on, and after it the check
\* of the replaced quantities.
ClaimOrder(r) ==
  LET g == request[r].doc
  IN  /\ Busy(r) /\ g \in Receipts /\ ~request[r].claimed
      /\ status[OrderOf[g]] # "CANCELLED" /\ ~OrderLocked(OrderOf[g])
      /\ Replaceable(g)
      /\ request' = [request EXCEPT ![r].claimed = TRUE]
      /\ UNCHANGED <<status, docVars, onHand, edit, raced>>

\* findUnique on a stock row.
ReadStock(r, p) ==
  /\ Busy(r) /\ request[r].claimed /\ request[r].at = None /\ p \in request[r].todo
  /\ request' = [request EXCEPT ![r].at = p, ![r].seen[p] = onHand[p]]
  /\ UNCHANGED <<status, docVars, onHand, edit, raced>>

\* The upsert of that row with the quantity read plus the accepted one: it locks the row and
\* takes effect at the commit.
WriteStock(r) ==
  LET p == request[r].at
  IN  /\ Busy(r) /\ p # None /\ ~StockLocked(p)
      /\ request' = [request EXCEPT ![r].at = None, ![r].todo = @ \ {p}]
      /\ raced' = IF request[r].seen[p] = onHand[p] THEN raced ELSE raced \cup {<<p, "stock">>}
      /\ UNCHANGED <<status, docVars, onHand, edit>>

\* Mutant: what was delivered enters the stock, rejected goods included.
StockOfReceiptDeliveredBug(r, p) == request[r].seen[p] + Delivered[request[r].doc][p]
StockOfReceipt(r, p) == request[r].seen[p] + Accepted(request[r].doc, p)

CommitReceipt(r) ==
  LET g == request[r].doc
      o == OrderOf[g]
  IN  /\ Busy(r) /\ request[r].claimed /\ request[r].todo = {} /\ request[r].at = None
      /\ g \notin receipts
      /\ status' = [status EXCEPT ![o] = request[r].outcome]
      /\ receipts' = receipts \cup {g}
      /\ payable' = [payable EXCEPT ![g] = request[r].portion]
      /\ replaced' =
           IF Replaces[g] = None THEN replaced
           ELSE [replaced EXCEPT ![Replaces[g]] = [p \in Products |-> @[p] + Delivered[g][p]]]
      /\ onHand' = [p \in Products |-> IF p \in Written(r) THEN StockOfReceipt(r, p) ELSE onHand[p]]
      /\ raced' = raced
           \cup {<<o, "payable">> : p \in {q \in Products : request[r].basis[q] # PriorPayable(o, q)}}
           \cup {<<o, "status">> : e \in {edit[o]} \ {None}}
      /\ request' = [request EXCEPT ![r] = Idle]
      /\ UNCHANGED <<returned, excess, returns, edit>>

-----------------------------------------------------------------------------
(* Returning goods to the supplier *)

\* Mutant: earlier returns are not deducted.
RemainingUndeductedBug(g, p) == Accepted(g, p)
Remaining(g, p) == Accepted(g, p) - returned[g][p]
\* Goods accepted beyond what was payable go back first.
ExcessPortion(s, p) ==
  LET g == ReceiptOf[s]
  IN  Least(Quantity[s][p], Positive(Accepted(g, p) - payable[g][p] - excess[g][p]))

\* The lines of the receipt are read and checked.
OpenReturn(r, s) ==
  /\ ~Busy(r) /\ s \notin returns /\ ReceiptOf[s] \in receipts
  /\ \A p \in Products : Quantity[s][p] <= Remaining(ReceiptOf[s], p)
  /\ request' = [request EXCEPT ![r] =
       Transaction(s, [p \in Products |-> ExcessPortion(s, p)], "NONE", {}, returned[ReceiptOf[s]])]
  /\ UNCHANGED <<status, docVars, onHand, edit, raced>>

\* decrementStockIfAvailable on a row nobody holds.
Available(s, p) == Quantity[s][p] > 0 => ~StockLocked(p) /\ Quantity[s][p] <= onHand[p]

\* The increments of the receipt's line and the conditional decrements of the stock, which
\* lock all they touch.
CommitReturn(r) ==
  LET s == request[r].doc
      g == ReceiptOf[s]
  IN  /\ Busy(r) /\ s \in Returns \ returns
      /\ \A p \in Products : Available(s, p)
      /\ onHand' = [p \in Products |-> onHand[p] - Quantity[s][p]]
      /\ returned' = [returned EXCEPT ![g] = [p \in Products |-> @[p] + Quantity[s][p]]]
      /\ excess' = [excess EXCEPT ![g] = [p \in Products |-> @[p] + request[r].portion[p]]]
      /\ returns' = returns \cup {s}
      /\ raced' = IF request[r].basis = returned[g] THEN raced ELSE raced \cup {<<g, "returned">>}
      /\ request' = [request EXCEPT ![r] = Idle]
      /\ UNCHANGED <<status, receipts, payable, replaced, edit>>

\* A refused guard, a key that is taken, no open accounting period, a deadlock, a crash.
Rollback(r) ==
  /\ Busy(r)
  /\ request' = [request EXCEPT ![r] = Idle]
  /\ UNCHANGED <<status, docVars, onHand, edit, raced>>

-----------------------------------------------------------------------------
(* The order's own edits: a status check and an unconditional update *)

Editable(o) == status[o] \notin Received \cup {"CANCELLED"}

BeginEdit(o, to) ==
  /\ edit[o] = None /\ Editable(o) /\ to \in Edits[o]
  /\ edit' = [edit EXCEPT ![o] = to]
  /\ UNCHANGED <<status, docVars, onHand, request, raced>>

Edit(o) ==
  /\ edit[o] # None /\ ~OrderLocked(o)
  /\ status' = [status EXCEPT ![o] = edit[o]]
  /\ edit' = [edit EXCEPT ![o] = None]
  /\ UNCHANGED <<docVars, onHand, request, raced>>

\* The edit's request dies before its update.
AbandonEdit(o) ==
  /\ edit[o] # None
  /\ edit' = [edit EXCEPT ![o] = None]
  /\ UNCHANGED <<status, docVars, onHand, request, raced>>

-----------------------------------------------------------------------------
Next ==
  \/ \E r \in Requests :
       \/ \E g \in Receipts : OpenReceipt(r, g)
       \/ ClaimOrder(r)
       \/ \E p \in Products : ReadStock(r, p)
       \/ WriteStock(r)
       \/ CommitReceipt(r)
       \/ \E s \in Returns : OpenReturn(r, s)
       \/ CommitReturn(r)
       \/ Rollback(r)
  \/ \E o \in Orders :
       \/ \E to \in {"PENDING", "CANCELLED"} : BeginEdit(o, to)
       \/ Edit(o)
       \/ AbandonEdit(o)

Spec == Init /\ [][Next]_vars

-----------------------------------------------------------------------------
(* Properties *)

\* Every variable holds values of its type.
TypeOK ==
  /\ status \in [Orders -> OrderStatuses]
  /\ receipts \subseteq Receipts /\ returns \subseteq Returns
  /\ payable \in [Receipts -> [Products -> Nat]] /\ replaced \in [Receipts -> [Products -> Nat]]
  /\ returned \in [Receipts -> [Products -> Nat]] /\ excess \in [Receipts -> [Products -> Nat]]
  /\ onHand \in [Products -> Nat]
  /\ edit \in [Orders -> {"PENDING", "CANCELLED", None}]
  /\ request \in [Requests ->
       [doc : Receipts \cup Returns \cup {None}, portion : [Products -> Nat],
        outcome : {"NONE"} \cup Received, claimed : BOOLEAN, todo : SUBSET Products,
        at : Products \cup {None}, seen : [Products -> Nat], basis : [Products -> Nat]]]

\* A stock row is its opening quantity plus what receipts accepted less what returns sent
\* back, unless a receipt wrote the row from a quantity another had changed in between; it
\* is never negative.
StockFollowsDocuments ==
  \A p \in Products :
    /\ onHand[p] >= 0
    /\ <<p, "stock">> \notin raced =>
         onHand[p] = Opening[p] + Sum([g \in Receipts |-> Accepted(g, p)], receipts)
                                - Sum([s \in Returns |-> Quantity[s][p]], returns)

\* All receipts of an order together make no more payable than was ordered, unless two of
\* them read the earlier totals before either committed.
PayableWithinOrder ==
  \A o \in Orders, p \in Products :
    <<o, "payable">> \notin raced => PriorPayable(o, p) <= Ordered[o][p]

\* The status of an order tells what arrived.  RECEIVED is earned, races included: the totals
\* read can only be too small, so every line has been delivered in full.  And an order with
\* receipts says so, one without does not, until an edit that had checked the status before
\* a receipt writes it after.
StatusTellsReceipts ==
  \A o \in Orders :
    /\ status[o] = "RECEIVED" => \A p \in Products : PriorDelivered(o, p) >= Ordered[o][p]
    /\ <<o, "status">> \notin raced => (status[o] \in Received <=> ReceiptsOf(o) # {})

\* No more is replaced than was rejected: receipts of one order check that while they hold
\* the order, so for replacements within the order it survives every race.
ReplacedWithinRejected ==
  \A g \in Receipts, p \in Products :
    (\A h \in Receipts : Replaces[h] = g => OrderOf[h] = OrderOf[g])
      => replaced[g][p] <= Rejected[g][p]

\* No more goes back to the supplier than was accepted, nor is more of it taken for excess
\* than was not payable, unless two returns of one receipt overlapped.
ReturnedWithinAccepted ==
  \A g \in receipts, p \in Products : <<g, "returned">> \notin raced =>
    /\ returned[g][p] <= Accepted(g, p)
    /\ excess[g][p] <= Accepted(g, p) - payable[g][p]

=============================================================================
