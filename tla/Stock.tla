--------------------------------- MODULE Stock ---------------------------------
(***************************************************************************)
(* Everything but receipts and sales that moves stock rows                 *)
(* (inventory_stock): production (material issues and completion),         *)
(* transfers between locations, parts used in maintenance, goods returned  *)
(* by customers and manual adjustments.  Most decrement or increment a row *)
(* in place under a condition (inventory-stock-concurrency.util.ts);       *)
(* completion and customer returns write the value they have read plus     *)
(* their own (production-run.repository.ts, customer-return.repository.ts).*)
(* The status of a document is claimed by a conditional update, or read    *)
(* and later written whatever it is by then, as the code does in each.     *)
(*                                                                         *)
(* Where Receiving has a name for something of its own (status, request,   *)
(* Orders, ...), this module has another (state, call, ProductionOrders),  *)
(* so that one module can speak of both.                                   *)
(*                                                                         *)
(* PostgreSQL at READ COMMITTED: a plain read takes no lock and an update  *)
(* locks its row until the transaction ends.  Steps that hold the locks of *)
(* all they touch are merged with the commit.                              *)
(***************************************************************************)
EXTENDS Integers, Sums

CONSTANTS
  Slots,            \* slots for the requests in flight
  Rows,             \* stock rows: a product at a location
  ProductionOrders,
  Issues,           \* material issues, each under its idempotency key
  Parts,            \* maintenance part usages that have been recorded
  Transfers,        \* transfers between locations, each under its idempotency key
  CustomerReturns,  \* returns customers request, each under its idempotency key
  Adjustments,      \* manual adjustments, each under its idempotency key
  Lines,            \* lines of sales fulfilments
  From,             \* From[d]: the row a document takes from, or Nil
  Into,             \* Into[d]: the row a document puts into, or Nil
  Amount,           \* Amount[d]: what it takes; for an order or an adjustment, what it puts
  Resalable,        \* Resalable[c]: the part of a customer return that is put back into stock
  ProductionOf,     \* the production order of a material issue
  Required,         \* Required[o]: requiredQuantity of the order's component
  LineOf,           \* the fulfilment line of a customer return
  Shipped,          \* Shipped[l]: quantityFulfilled
  OpeningLevel,     \* OpeningLevel[w]: quantityOnHand before all this
  Nil

Documents ==
  ProductionOrders \cup Issues \cup Parts \cup Transfers \cup CustomerReturns \cup Adjustments
Kinds == <<ProductionOrders, Issues, Parts, Transfers, CustomerReturns, Adjustments>>

ASSUME StockAssumption ==
  /\ IsFiniteSet(Documents)
  /\ \A j, k \in 1 .. 6 : j # k => Kinds[j] \cap Kinds[k] = {}
  /\ From \in [Documents -> Rows \cup {Nil}] /\ Into \in [Documents -> Rows \cup {Nil}]
  /\ Amount \in [Documents -> Nat] /\ Resalable \in [CustomerReturns -> Nat]
  /\ \A c \in CustomerReturns : Resalable[c] <= Amount[c]
  /\ ProductionOf \in [Issues -> ProductionOrders] /\ Required \in [ProductionOrders -> Nat]
  /\ LineOf \in [CustomerReturns -> Lines] /\ Shipped \in [Lines -> Nat]
  /\ OpeningLevel \in [Rows -> Nat]
  /\ Nil \notin Rows \cup Documents

\* Which rows a document of each kind names.
ASSUME RowsAssumption ==
  /\ \A o \in ProductionOrders : From[o] = Nil /\ Into[o] \in Rows
  /\ \A d \in Issues \cup Parts : From[d] \in Rows /\ Into[d] = Nil
  /\ \A t \in Transfers : From[t] \in Rows /\ Into[t] \in Rows
  /\ \A c \in CustomerReturns : Into[c] \in Rows
  /\ \A j \in Adjustments : From[j] = Nil <=> Into[j] # Nil

Statuses == {"NONE", "DRAFT", "PLANNED", "IN_PROGRESS", "REQUESTED", "COMPLETED", "CANCELLED",
             "REVERSED", "ISSUED", "RECEIVED"}
Operations == {"issue", "complete", "completing", "issuePart", "cancelPart", "request", "receive",
               "receiving", "cancelReturn"}

VARIABLES
  state,     \* state[d]: status of the document's row, NONE before there is one
  wip,       \* wip[o]: what material issues of o debited to work in progress, less what its
             \* completion credited, at a unit cost of one
  held,      \* held[l]: SalesFulfilmentItem.quantityReturned
  entered,   \* customer returns whose stock journal entry exists
  level,     \* level[w]: InventoryStock.quantityOnHand
  call,      \* call[r]: the request in slot r
  outdated   \* history: rows written, orders completed or over-issued and documents moved on
             \* from a read that another commit had outdated

stockVars == <<state, wip, held, entered, level, call, outdated>>

\* A request: its operation and document, a total it has read, and a stock row it has read.
NoCall == [op |-> "none", doc |-> Nil, basis |-> 0, seen |-> 0]
Doing(op, d, basis, seen) == [op |-> op, doc |-> d, basis |-> basis, seen |-> seen]

StockInit ==
  /\ state = [d \in Documents |-> CASE d \in ProductionOrders -> "DRAFT"
                                    [] d \in Parts -> "REQUESTED"
                                    [] OTHER -> "NONE"]
  /\ wip = [o \in ProductionOrders |-> 0]
  /\ held = [l \in Lines |-> 0]
  /\ entered = {}
  /\ level = OpeningLevel
  /\ call = [r \in Slots |-> NoCall]
  /\ outdated = {}

Issued(o) == Sum(Amount, {i \in Issues : ProductionOf[i] = o /\ state[i] = "ISSUED"})

\* A completion that claimed its order holds it, a customer return that took from the
\* outlet's row holds that.
OrderFree(o) == \A r \in Slots : ~(call[r].op = "completing" /\ call[r].doc = o)
RowFree(w) == \A r \in Slots : ~(call[r].op = "receiving" /\ From[call[r].doc] = w)

Begin(r, op, d, basis, seen) ==
  /\ call[r] = NoCall
  /\ call' = [call EXCEPT ![r] = Doing(op, d, basis, seen)]
  /\ UNCHANGED <<state, wip, held, entered, level, outdated>>
Finish(r) == call' = [call EXCEPT ![r] = NoCall]
At(r, op) == call[r].op = op
SetStatus(d, s) == state' = [state EXCEPT ![d] = s]

\* decrementStockIfAvailable: a condition and a decrement in one statement.
CanTake(w, n) == RowFree(w) /\ level[w] >= n
Take(w, n) == CanTake(w, n) /\ level' = [level EXCEPT ![w] = @ - n]
\* The decrement of one row and the increment of another, each in place.
Move(w, v, n) ==
  /\ CanTake(w, n) /\ RowFree(v)
  /\ level' = [u \in Rows |-> level[u] + (IF u = v THEN n ELSE 0) - (IF u = w THEN n ELSE 0)]

-----------------------------------------------------------------------------
(* Production *)

Plan(o) ==
  /\ state[o] = "DRAFT" /\ OrderFree(o)
  /\ SetStatus(o, "PLANNED")
  /\ UNCHANGED <<wip, held, entered, level, call, outdated>>

Cancellable == {"DRAFT", "PLANNED"}

CancelOrder(o) ==
  /\ state[o] \in Cancellable /\ OrderFree(o)
  /\ SetStatus(o, "CANCELLED")
  /\ UNCHANGED <<wip, held, entered, level, call, outdated>>

\* Mutant: what other issues took is not deducted.
OutstandingUndeductedBug(o) == Required[o]
Outstanding(o) == Required[o] - Issued(o)

\* issueMaterial in the service: status and outstanding requirement, as read there.
BeginIssue(r, i) ==
  /\ state[i] = "NONE" /\ state[ProductionOf[i]] \in {"PLANNED", "IN_PROGRESS"}
  /\ Amount[i] <= Outstanding(ProductionOf[i])
  /\ Begin(r, "issue", i, Issued(ProductionOf[i]), 0)

\* The transaction of issue: the order's guarded update, the decrement, the issue's row,
\* unique by key, and the entry that debits work in progress.
IssueMaterial(r) ==
  LET i == call[r].doc
      o == ProductionOf[i]
  IN  /\ At(r, "issue") /\ state[i] = "NONE"
      /\ state[o] \in {"PLANNED", "IN_PROGRESS"} /\ OrderFree(o)
      /\ Take(From[i], Amount[i])
      /\ state' = [state EXCEPT ![o] = "IN_PROGRESS", ![i] = "ISSUED"]
      /\ wip' = [wip EXCEPT ![o] = @ + Amount[i]]
      /\ outdated' = IF Issued(o) = call[r].basis THEN outdated ELSE outdated \cup {<<o, "issued">>}
      /\ Finish(r)
      /\ UNCHANGED <<held, entered>>

\* completeProduction in the service, with the value in progress it will clear:
\* what all issues so far debited.
BeginCompletion(r, o) ==
  /\ state[o] = "IN_PROGRESS"
  /\ Begin(r, "complete", o, Issued(o), 0)

\* Mutant: the transaction trusts the status the service read.
CompletableAgainBug(o) == state[o] \in {"IN_PROGRESS", "COMPLETED"}
Completable(o) == state[o] = "IN_PROGRESS"

\* The guarded update of the order, and the read of the product's stock row.
ClaimProduction(r) ==
  LET o == call[r].doc
  IN  /\ At(r, "complete") /\ Completable(o) /\ OrderFree(o)
      /\ call' = [call EXCEPT ![r].op = "completing", ![r].seen = level[Into[o]]]
      /\ UNCHANGED <<state, wip, held, entered, level, outdated>>

CompleteProduction(r) ==
  LET o == call[r].doc
      w == Into[o]
  IN  /\ At(r, "completing") /\ RowFree(w)
      /\ SetStatus(o, "COMPLETED")
      /\ level' = [level EXCEPT ![w] = call[r].seen + Amount[o]]
      /\ wip' = [wip EXCEPT ![o] = @ - call[r].basis]
      /\ outdated' = outdated \cup {<<w, "stock">> : v \in {call[r].seen} \ {level[w]}}
                        \cup {<<o, "wip">> : v \in {call[r].basis} \ {Issued(o)}}
      /\ Finish(r)
      /\ UNCHANGED <<held, entered>>

-----------------------------------------------------------------------------
(* Transfers and adjustments: every step of theirs holds the row it works on *)

CreateTransfer(t) ==
  /\ state[t] = "NONE"
  /\ Move(From[t], Into[t], Amount[t])
  /\ SetStatus(t, "COMPLETED")
  /\ UNCHANGED <<wip, held, entered, call, outdated>>

\* Mutant: the reversal does not claim the transfer.
ReversibleTwiceBug(t) == state[t] \in {"COMPLETED", "REVERSED"}
Reversible(t) == state[t] = "COMPLETED"

ReverseTransfer(t) ==
  /\ Reversible(t)
  /\ Move(Into[t], From[t], Amount[t])
  /\ SetStatus(t, "REVERSED")
  /\ UNCHANGED <<wip, held, entered, call, outdated>>

\* A gain enters Into, a loss leaves From if it is there.
AdjustStock(j) ==
  /\ state[j] = "NONE"
  /\ IF From[j] = Nil
     THEN RowFree(Into[j]) /\ level' = [level EXCEPT ![Into[j]] = @ + Amount[j]]
     ELSE Take(From[j], Amount[j])
  /\ SetStatus(j, "COMPLETED")
  /\ UNCHANGED <<wip, held, entered, call, outdated>>

-----------------------------------------------------------------------------
(* Parts: the status is read, then written whatever it is by then *)

BeginIssuePart(r, d) == state[d] = "REQUESTED" /\ Begin(r, "issuePart", d, 0, 0)
BeginCancelPart(r, d) == state[d] = "REQUESTED" /\ Begin(r, "cancelPart", d, 0, 0)
Overwrites(d, s) == IF state[d] = s THEN outdated ELSE outdated \cup {<<d, "status">>}

IssuePart(r) ==
  LET d == call[r].doc
  IN  /\ At(r, "issuePart")
      /\ Take(From[d], Amount[d])
      /\ SetStatus(d, "ISSUED")
      /\ outdated' = Overwrites(d, "REQUESTED")
      /\ Finish(r)
      /\ UNCHANGED <<wip, held, entered>>

CancelPart(r) ==
  LET d == call[r].doc
  IN  /\ At(r, "cancelPart")
      /\ SetStatus(d, "CANCELLED")
      /\ outdated' = IF state[d] = "ISSUED" THEN outdated \cup {<<d, "status">>} ELSE outdated
      /\ Finish(r)
      /\ UNCHANGED <<wip, held, entered, level>>

-----------------------------------------------------------------------------
(* Customer returns *)

BeginRequest(r, c) ==
  /\ state[c] = "NONE" /\ Amount[c] <= Shipped[LineOf[c]] - held[LineOf[c]]
  /\ Begin(r, "request", c, held[LineOf[c]], 0)

\* create: the row, unique by key, and the increment of what the line counts as returned.
RequestReturn(r) ==
  LET c == call[r].doc
      l == LineOf[c]
  IN  /\ At(r, "request") /\ state[c] = "NONE"
      /\ SetStatus(c, "REQUESTED")
      /\ held' = [held EXCEPT ![l] = @ + Amount[c]]
      /\ outdated' = IF held[l] = call[r].basis THEN outdated ELSE outdated \cup {<<l, "held">>}
      /\ Finish(r)
      /\ UNCHANGED <<wip, entered, level>>

BeginReceive(r, c) == state[c] = "REQUESTED" /\ Begin(r, "receive", c, 0, 0)
BeginCancelReturn(r, c) == state[c] = "REQUESTED" /\ Begin(r, "cancelReturn", c, 0, 0)

\* The decrement of the outlet's row, where the goods had been delivered to one, which holds
\* it, and the read of the row the resalable part goes to.
TakeFromOutlet(r) ==
  LET c == call[r].doc
  IN  /\ At(r, "receive")
      /\ From[c] # Nil => CanTake(From[c], Amount[c])
      /\ call' = [call EXCEPT ![r].op = "receiving", ![r].seen = level[Into[c]]]
      /\ UNCHANGED <<state, wip, held, entered, level, outdated>>

\* The rest of receive: the stock row, the status, and the entry for resalable goods, which
\* is unique by its return and refuses a second receipt of them.
ReceiveReturn(r) ==
  LET c == call[r].doc
      w == Into[c]
      n == Resalable[c]
      others == {q \in Slots \ {r} : call[q].op = "receiving"}
  IN  /\ At(r, "receiving")
      /\ n > 0 => c \notin entered /\ \A q \in others : From[call[q].doc] # w
      /\ level' = [v \in Rows |->
           (IF n > 0 /\ v = w THEN call[r].seen + n ELSE level[v])
             - (IF v = From[c] THEN Amount[c] ELSE 0)]
      /\ SetStatus(c, "RECEIVED")
      /\ entered' = IF n > 0 THEN entered \cup {c} ELSE entered
      /\ outdated' = Overwrites(c, "REQUESTED")
                    \cup {<<w, "stock">> : v \in IF n > 0 THEN {call[r].seen} \ {level[w]} ELSE {}}
      /\ Finish(r)
      /\ UNCHANGED <<wip, held>>

\* Mutant: a cancelled return keeps its quantity.
ReleasedNothingBug(c) == 0
Released(c) == Amount[c]

CancelReturn(r) ==
  LET c == call[r].doc
  IN  /\ At(r, "cancelReturn")
      /\ held' = [held EXCEPT ![LineOf[c]] = @ - Released(c)]
      /\ SetStatus(c, "CANCELLED")
      /\ outdated' = Overwrites(c, "REQUESTED")
      /\ Finish(r)
      /\ UNCHANGED <<wip, entered, level>>

\* A refused guard or posting, a deadlock, a crash.
Abort(r) ==
  /\ call[r] # NoCall
  /\ Finish(r)
  /\ UNCHANGED <<state, wip, held, entered, level, outdated>>

-----------------------------------------------------------------------------
Begun(r) ==
  \/ \E i \in Issues : BeginIssue(r, i)
  \/ \E o \in ProductionOrders : BeginCompletion(r, o)
  \/ \E d \in Parts : BeginIssuePart(r, d) \/ BeginCancelPart(r, d)
  \/ \E c \in CustomerReturns : BeginRequest(r, c) \/ BeginReceive(r, c) \/ BeginCancelReturn(r, c)

StockNext ==
  \/ \E r \in Slots :
       \/ Begun(r)
       \/ IssueMaterial(r)
       \/ ClaimProduction(r)
       \/ CompleteProduction(r)
       \/ IssuePart(r)
       \/ CancelPart(r)
       \/ RequestReturn(r)
       \/ TakeFromOutlet(r)
       \/ ReceiveReturn(r)
       \/ CancelReturn(r)
       \/ Abort(r)
  \/ \E o \in ProductionOrders : Plan(o) \/ CancelOrder(o)
  \/ \E t \in Transfers : CreateTransfer(t) \/ ReverseTransfer(t)
  \/ \E j \in Adjustments : AdjustStock(j)

StockSpec == StockInit /\ [][StockNext]_stockVars

-----------------------------------------------------------------------------
(* Properties *)

\* Every variable holds values of its type.
StockTypeOK ==
  /\ state \in [Documents -> Statuses]
  /\ wip \in [ProductionOrders -> Int] /\ held \in [Lines -> Int]
  /\ entered \subseteq CustomerReturns
  /\ level \in [Rows -> Int]
  /\ call \in [Slots -> [op : Operations \cup {"none"}, doc : Documents \cup {Nil},
                              basis : Int, seen : Int]]
  /\ \A r \in Slots : call[r].op = "none" <=> call[r].doc = Nil

\* The documents whose status says they moved stock, and what each says it put into a row
\* and took from one.
Moved ==
  {d \in ProductionOrders \cup Transfers \cup Adjustments : state[d] = "COMPLETED"}
    \cup {d \in Issues \cup Parts : state[d] = "ISSUED"}
    \cup {c \in CustomerReturns : state[c] = "RECEIVED"}
Brought(w) == [d \in Documents |-> IF Into[d] # w THEN 0
                                  ELSE IF d \in CustomerReturns THEN Resalable[d] ELSE Amount[d]]
Taken(w) == [d \in Documents |-> IF From[d] = w THEN Amount[d] ELSE 0]

\* A stock row is never negative, and holds its opening quantity and what the documents'
\* statuses say moved, each of them once - unless a completion or a customer return wrote the
\* row from an outdated read, or a document that moves it was decided twice.
RowsFollowDocuments ==
  \A w \in Rows :
    /\ level[w] >= 0
    /\ \/ <<w, "stock">> \in outdated
       \/ \E d \in Documents : w \in {From[d], Into[d]} /\ <<d, "status">> \in outdated
       \/ level[w] = OpeningLevel[w] + Sum(Brought(w), Moved) - Sum(Taken(w), Moved)

\* Completion clears the work in progress of its order, unless material was issued after the
\* value was read; it never clears more than was issued, nor twice.
CompletionClearsWip ==
  \A o \in ProductionOrders :
    /\ wip[o] >= 0
    /\ state[o] = "COMPLETED" /\ <<o, "wip">> \notin outdated => wip[o] = 0

\* No more material is issued than the order requires, unless two issues of it overlapped.
IssuedWithinRequired ==
  \A o \in ProductionOrders : <<o, "issued">> \notin outdated => Issued(o) <= Required[o]

\* A fulfilment line counts exactly the returns that are requested or received as returned,
\* and these are within what was shipped - unless a return was cancelled in the same moment
\* as it was received or cancelled, or two returns of the line were requested at once.
HeldMatchesReturns ==
  \A l \in Lines :
    LET of == {c \in CustomerReturns : LineOf[c] = l}
    IN  \/ \E c \in of : <<c, "status">> \in outdated
        \/ /\ held[l] = Sum(Amount, {c \in of : state[c] \in {"REQUESTED", "RECEIVED"}})
           /\ <<l, "held">> \notin outdated => held[l] <= Shipped[l]

=============================================================================
