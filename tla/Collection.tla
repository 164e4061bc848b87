------------------------------ MODULE Collection ------------------------------
(***************************************************************************)
(* Consumer orders from payment to collection (apps/api/src/d2c): a        *)
(* provider's callback records the payment, confirms the sales order and   *)
(* assigns it to a collection point; the outlet's staff prepare it, mark   *)
(* it ready and confirm its collection, which is when goods leave stock;   *)
(* until then it can be moved to another outlet or cancelled.              *)
(*                                                                         *)
(* Three rows are kept in step, Payment, SalesOrder and                    *)
(* CollectionPointFulfillment, without a transaction around them.  Each    *)
(* request reads the rows, moves one by a conditional update of its status *)
(* (the claim), calls the service of another, and undoes its claim when    *)
(* that call fails.  The steps below are these database accesses; sales    *)
(* staff work on the same orders through the screens of sales meanwhile.   *)
(*                                                                         *)
(* A fulfilment is one step here, see Fulfilment for its interleavings,    *)
(* and may fail for reasons left out (stock, accounting period).           *)
(***************************************************************************)
EXTENDS Integers

CONSTANTS
  Requests,  \* slots for the requests in flight
  Orders,    \* consumers' orders, each with one line
  Demand,    \* Demand[o]: the quantity ordered
  Outlets,   \* eligible collection points, each with a location of its own
  None

ASSUME CollectionAssumption ==
  Demand \in [Orders -> Nat \ {0}] /\ None \notin Orders \cup Outlets

OrderStatuses == {"DRAFT", "CONFIRMED", "PARTIALLY_FULFILLED", "FULFILLED", "CANCELLED"}
PaymentStatuses == {"NONE", "PENDING", "RECORDED", "FAILED", "CLOSED", "VOIDED"}
PointStatuses == {"NONE", "ASSIGNED", "PREPARING", "READY_FOR_COLLECTION", "COLLECTED", "CANCELLED"}
Kinds == {"pay", "callback", "assign", "prepare", "ready", "collect", "cancel", "reassign"}

VARIABLES
  order,    \* order[o]: SalesOrder.status
  checkout, \* checkout[o]: whether Payment.checkoutUrl is set
  payment,  \* payment[o]: status of the Payment under the order's merchantReference
  point,    \* point[o]: CollectionPointFulfillment.status, NONE before there is a row
  outlet,   \* outlet[o]: CollectionPointFulfillment.outletId
  shipped,  \* shipped[o]: SalesOrderItem.quantityFulfilled
  from,     \* from[o]: the outlet whose stock a confirmed collection took, None before
  request,  \* request[r]: the request in slot r
  cut,      \* history: <<kind, o>> when a request about o died between two of its steps
  raced     \* history: <<kind, o>> when a claim on o's row found it other than it was read

vars == <<order, checkout, payment, point, outlet, shipped, from, request, cut, raced>>
rows == <<order, checkout, payment, point, outlet, shipped, from>>

\* The requests that leave something half done when they die, or act on a row that moved.
Notable == {"callback", "collect", "cancel"} \X Orders

\* A request: what it is about, the step it has reached, and the row as it read it.
Idle == [kind |-> None, o |-> None, stage |-> "idle", saw |-> "NONE", at |-> None]
Reads(kind, o, at) ==
  [kind |-> kind, o |-> o, stage |-> "read", saw |-> point[o], at |-> at]

Init ==
  /\ order = [o \in Orders |-> "DRAFT"]
  /\ payment = [o \in Orders |-> "NONE"] /\ checkout = [o \in Orders |-> FALSE]
  /\ point = [o \in Orders |-> "NONE"]
  /\ outlet = [o \in Orders |-> None]
  /\ shipped = [o \in Orders |-> 0]
  /\ from = [o \in Orders |-> None]
  /\ request = [r \in Requests |-> Idle]
  /\ cut = {} /\ raced = {}

-----------------------------------------------------------------------------
(* Requests *)

Free(r) == request[r] = Idle
At(r, kind, stage) == request[r].kind = kind /\ request[r].stage = stage
Goes(r, stage) == request' = [request EXCEPT ![r].stage = stage]
Ends(r) == request' = [request EXCEPT ![r] = Idle]

\* A refused claim, or an answer that needs no more steps.
GiveUp(r) ==
  /\ Ends(r)
  /\ UNCHANGED <<rows, cut, raced>>

\* The request dies between two steps: the process, the connection, an error outside its try.
Crash(r) ==
  /\ ~Free(r)
  /\ Ends(r)
  /\ cut' = cut \cup ({<<request[r].kind, request[r].o>>} \cap Notable)
  /\ UNCHANGED <<rows, raced>>

\* The claim of a collection point row, a conditional update of its status.
Claim(r, guard, to, stage) ==
  LET o == request[r].o
  IN  /\ point[o] \in guard
      /\ point' = [point EXCEPT ![o] = to]
      /\ raced' = IF point[o] = request[r].saw /\ outlet[o] = request[r].at
                  THEN raced ELSE raced \cup ({<<request[r].kind, o>>} \cap Notable)
      /\ IF stage = "idle" THEN Ends(r) ELSE Goes(r, stage)
      /\ UNCHANGED <<order, checkout, payment, outlet, shipped, from, cut>>

-----------------------------------------------------------------------------
(* Payment *)

\* initiatePayment: the order is read, the payment created unless it exists; one whose
\* checkout is known is answered with that.
Pay(r, o) ==
  /\ Free(r)
  /\ order[o] = "DRAFT"
  /\ payment[o] \in {"NONE", "PENDING"} /\ ~checkout[o]
  /\ payment' = [payment EXCEPT ![o] = "PENDING"]
  /\ request' = [request EXCEPT ![r] = Reads("pay", o, None)]
  /\ UNCHANGED <<order, checkout, point, outlet, shipped, from, cut, raced>>

\* The conditional update that ends a payment, once.
Applicable(o) == payment[o] = "PENDING"

\* The provider opens its checkout ...
Created(r) ==
  /\ At(r, "pay", "read")
  /\ checkout' = [checkout EXCEPT ![request[r].o] = TRUE]
  /\ Ends(r)
  /\ UNCHANGED <<order, payment, point, outlet, shipped, from, cut, raced>>

\* ... or rejects the payment; any other answer of it changes nothing.
Rejected(r) ==
  LET o == request[r].o
  IN  /\ At(r, "pay", "read")
      /\ payment' = [payment EXCEPT ![o] = IF Applicable(o) THEN "FAILED" ELSE @]
      /\ Ends(r)
      /\ UNCHANGED <<order, checkout, point, outlet, shipped, from, cut, raced>>

\* handleProviderCallback: repeated and contradictory callbacks may come in any order.
Callback(r, o, to) ==
  /\ Free(r)
  /\ Applicable(o)
  /\ payment' = [payment EXCEPT ![o] = to]
  /\ request' = IF to = "RECORDED"
                THEN [request EXCEPT ![r] = Reads("callback", o, None)] ELSE request
  /\ UNCHANGED <<order, checkout, point, outlet, shipped, from, cut, raced>>

\* Mutant: an order that staff assigned before it was paid is left for staff to confirm.
ConfirmableUnassignedBug(o) == order[o] = "DRAFT" /\ point[o] = "NONE"
Confirmable(o) == order[o] = "DRAFT"

\* SalesOrderService.confirm, then the assignment; an order that sales confirmed already
\* is as good, any other status is an error (and so is one confirmed between the read and
\* the update of confirm, which Crash covers).
ConfirmPaid(r) ==
  LET o == request[r].o
  IN  /\ At(r, "callback", "read")
      /\ order' = [order EXCEPT ![o] = IF Confirmable(o) THEN "CONFIRMED" ELSE @]
      /\ request' = [request EXCEPT ![r] =
                       IF order[o] \in {"DRAFT", "CONFIRMED"} /\ point[o] = "NONE"
                       THEN [Reads("assign", o, None) EXCEPT !.saw = "NONE"] ELSE Idle]
      /\ UNCHANGED <<checkout, payment, point, outlet, shipped, from, cut, raced>>

\* PaymentService.void, by finance staff.
Void(o) ==
  /\ payment[o] \notin {"NONE", "VOIDED"}
  /\ payment' = [payment EXCEPT ![o] = "VOIDED"]
  /\ UNCHANGED <<order, checkout, point, outlet, shipped, from, request, cut, raced>>

-----------------------------------------------------------------------------
(* The collection point row *)

\* assignManually and autoAssign find no row ...
BeginAssign(r, o) ==
  /\ Free(r) /\ point[o] = "NONE"
  /\ request' = [request EXCEPT ![r] = Reads("assign", o, None)]
  /\ UNCHANGED <<rows, cut, raced>>

\* ... and create it: unique by order, so that the second of two fails.
Assign(r, x) ==
  LET o == request[r].o
  IN  /\ At(r, "assign", "read") /\ point[o] = "NONE"
      /\ point' = [point EXCEPT ![o] = "ASSIGNED"]
      /\ outlet' = [outlet EXCEPT ![o] = x]
      /\ Ends(r)
      /\ UNCHANGED <<order, checkout, payment, shipped, from, cut, raced>>

\* Every operation on the row reads it first, with its order and its latest payment.
PaymentValid(o) == payment[o] \notin {"FAILED", "VOIDED", "CLOSED"}
Begin(r, kind, o) ==
  /\ Free(r) /\ point[o] # "NONE"
  /\ kind \in {"prepare", "ready", "collect"} => PaymentValid(o)
  /\ request' = [request EXCEPT ![r] = Reads(kind, o, outlet[o])]
  /\ UNCHANGED <<rows, cut, raced>>

Prepare(r) == At(r, "prepare", "read") /\ Claim(r, {"ASSIGNED"}, "PREPARING", "idle")
MarkReady(r) == At(r, "ready", "read") /\ Claim(r, {"PREPARING"}, "READY_FOR_COLLECTION", "idle")

\* Mutant: whatever is not cancelled can be moved.
ReassignableUncancelledBug == {"ASSIGNED", "PREPARING", "READY_FOR_COLLECTION", "COLLECTED"}
Reassignable == {"ASSIGNED", "PREPARING"}

Reassign(r, x) ==
  LET o == request[r].o
  IN  /\ At(r, "reassign", "read") /\ x # request[r].at
      /\ point[o] \in Reassignable
      /\ point' = [point EXCEPT ![o] = "ASSIGNED"]
      /\ outlet' = [outlet EXCEPT ![o] = x]
      /\ Ends(r)
      /\ UNCHANGED <<order, checkout, payment, shipped, from, cut, raced>>

-----------------------------------------------------------------------------
(* Collection: claim, ship, or undo the claim *)

Collectable == {"READY_FOR_COLLECTION"}

Collect(r) == At(r, "collect", "read") /\ Claim(r, Collectable, "COLLECTED", "claimed")

Remaining(o) == Demand[o] - shipped[o]

\* The rest of the order leaves the stock of the outlet the request read; with nothing left
\* to ship the fulfilment is not called.  The answer to its commit may be lost.
ShipRest(r) ==
  LET o == request[r].o
  IN  /\ At(r, "collect", "claimed")
      /\ Remaining(o) > 0 => order[o] \in {"CONFIRMED", "PARTIALLY_FULFILLED"}
      /\ IF Remaining(o) = 0 THEN UNCHANGED <<order, shipped, from>>
         ELSE /\ order' = [order EXCEPT ![o] = "FULFILLED"]
              /\ shipped' = [shipped EXCEPT ![o] = Demand[o]]
              /\ from' = [from EXCEPT ![o] = request[r].at]
      /\ \/ Ends(r)
         \/ Remaining(o) > 0 /\ Goes(r, "undo")
      /\ UNCHANGED <<checkout, payment, point, outlet, cut, raced>>

\* Something in the try fails: its reads, or the fulfilment.
CollectFails(r) ==
  /\ At(r, "collect", "claimed")
  /\ Goes(r, "undo")
  /\ UNCHANGED <<rows, cut, raced>>

\* Mutant: the claim is not undone.
UncollectedKeptBug(o) == point[o]
Uncollected(o) == IF point[o] = "COLLECTED" THEN "READY_FOR_COLLECTION" ELSE point[o]

Uncollect(r) ==
  LET o == request[r].o
  IN  /\ At(r, "collect", "undo")
      /\ point' = [point EXCEPT ![o] = Uncollected(o)]
      /\ Ends(r)
      /\ UNCHANGED <<order, checkout, payment, outlet, shipped, from, cut, raced>>

-----------------------------------------------------------------------------
(* Cancellation: claim, cancel the sales order, or undo the claim *)

Cancellable == {"ASSIGNED", "PREPARING", "READY_FOR_COLLECTION"}

CancelPoint(r) == At(r, "cancel", "read") /\ Claim(r, Cancellable, "CANCELLED", "claimed")

\* SalesOrderService.cancel: a conditional update, refused once something has shipped or
\* when the order is cancelled already; it may fail, and the answer to it may be lost.
CancelOrder(r) ==
  LET o == request[r].o
  IN  /\ At(r, "cancel", "claimed")
      /\ \/ /\ order[o] \in {"DRAFT", "CONFIRMED"}
            /\ order' = [order EXCEPT ![o] = "CANCELLED"]
            /\ Ends(r) \/ Goes(r, "undo")
         \/ UNCHANGED order /\ Goes(r, "undo")
      /\ UNCHANGED <<checkout, payment, point, outlet, shipped, from, cut, raced>>

\* Mutant: the claim is not undone.
UncancelledKeptBug(r) == point[request[r].o]
\* Back to the status that was read before the claim.
Uncancelled(r) ==
  IF point[request[r].o] = "CANCELLED" THEN request[r].saw ELSE point[request[r].o]

Uncancel(r) ==
  LET o == request[r].o
  IN  /\ At(r, "cancel", "undo")
      /\ point' = [point EXCEPT ![o] = Uncancelled(r)]
      /\ Ends(r)
      /\ UNCHANGED <<order, checkout, payment, outlet, shipped, from, cut, raced>>

-----------------------------------------------------------------------------
(* Sales staff, through the screens of sales *)

StaffConfirm(o) ==
  /\ order[o] = "DRAFT"
  /\ order' = [order EXCEPT ![o] = "CONFIRMED"]
  /\ UNCHANGED <<checkout, payment, point, outlet, shipped, from, request, cut, raced>>

StaffCancel(o) ==
  /\ order[o] \in {"DRAFT", "CONFIRMED"}
  /\ order' = [order EXCEPT ![o] = "CANCELLED"]
  /\ UNCHANGED <<checkout, payment, point, outlet, shipped, from, request, cut, raced>>

\* A fulfilment from any location.
StaffShip(o, q) ==
  /\ order[o] \in {"CONFIRMED", "PARTIALLY_FULFILLED"} /\ q <= Remaining(o)
  /\ shipped' = [shipped EXCEPT ![o] = @ + q]
  /\ order' = [order EXCEPT ![o] = IF q = Remaining(o) THEN "FULFILLED" ELSE "PARTIALLY_FULFILLED"]
  /\ UNCHANGED <<checkout, payment, point, outlet, from, request, cut, raced>>

Next ==
  \/ \E o \in Orders :
       \/ Void(o) \/ StaffConfirm(o) \/ StaffCancel(o)
       \/ \E q \in 1..Demand[o] : StaffShip(o, q)
  \/ \E r \in Requests, o \in Orders :
       \/ Pay(r, o) \/ BeginAssign(r, o)
       \/ \E to \in {"RECORDED", "FAILED", "CLOSED"} : Callback(r, o, to)
       \/ \E kind \in {"prepare", "ready", "collect", "cancel", "reassign"} : Begin(r, kind, o)
  \/ \E r \in Requests :
       \/ Created(r) \/ Rejected(r) \/ ConfirmPaid(r)
       \/ \E x \in Outlets : Assign(r, x) \/ Reassign(r, x)
       \/ Prepare(r) \/ MarkReady(r)
       \/ Collect(r) \/ ShipRest(r) \/ CollectFails(r) \/ Uncollect(r)
       \/ CancelPoint(r) \/ CancelOrder(r) \/ Uncancel(r)
       \/ At(r, request[r].kind, "read") /\ request[r].kind # "callback" /\ GiveUp(r)
       \/ Crash(r)

Spec == Init /\ [][Next]_vars

-----------------------------------------------------------------------------
(* Properties *)

\* Rows and requests hold values of their types.
TypeOK ==
  /\ order \in [Orders -> OrderStatuses]
  /\ payment \in [Orders -> PaymentStatuses] /\ checkout \in [Orders -> BOOLEAN]
  /\ point \in [Orders -> PointStatuses]
  /\ outlet \in [Orders -> Outlets \cup {None}] /\ from \in [Orders -> Outlets \cup {None}]
  /\ shipped \in [Orders -> Nat]
  /\ request \in [Requests -> [kind : Kinds \cup {None}, o : Orders \cup {None},
                               stage : {"idle", "read", "claimed", "undo"},
                               saw : PointStatuses, at : Outlets \cup {None}]]
  /\ cut \subseteq Notable /\ raced \subseteq Notable

\* A request of this kind that claimed the row of o and has not finished.
Holds(kind, o) ==
  \E r \in Requests :
    request[r].kind = kind /\ request[r].o = o /\ request[r].stage \in {"claimed", "undo"}

\* A row is COLLECTED only while a collection is under way or after everything shipped: a
\* failed fulfilment never leaves it there.  The exceptions are a collection that died, and
\* a cancellation that put back a status read before another request's claim.
CollectedIsShipped ==
  \A o \in Orders :
    /\ point[o] = "COLLECTED" /\ ~Holds("collect", o)
    /\ <<"collect", o>> \notin cut /\ <<"cancel", o>> \notin raced
    => shipped[o] = Demand[o]

\* A row is CANCELLED only with its order, or while its cancellation is under way; the
\* exceptions are of the same kind.
CancelledTogether ==
  \A o \in Orders :
    /\ point[o] = "CANCELLED" /\ ~Holds("cancel", o)
    /\ <<"cancel", o>> \notin cut \cup raced
    => order[o] = "CANCELLED"

\* Goods leave the stock of the outlet that the collected order is assigned to, unless the
\* order was reassigned after the collection read it, or a cancellation put back a status
\* from before.
GoodsLeaveTheirOutlet ==
  \A o \in Orders :
    from[o] # None /\ <<"collect", o>> \notin raced /\ <<"cancel", o>> \notin raced
    => from[o] = outlet[o]

\* A payment that was recorded has its order confirmed (or sales has moved it on), but for
\* the callback that does so and one that died: a repeated callback does not do it again.
PaidIsConfirmed ==
  \A o \in Orders :
    payment[o] = "RECORDED" /\ order[o] = "DRAFT" =>
      \/ <<"callback", o>> \in cut
      \/ \E r \in Requests : request[r].kind = "callback" /\ request[r].o = o

=============================================================================
