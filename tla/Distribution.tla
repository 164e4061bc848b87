----------------------------- MODULE Distribution -----------------------------
(***************************************************************************)
(* The way of fulfilled goods to the customer (apps/api/src/distribution): *)
(* dispatches release lines of one sales fulfilment, deliveries confirm    *)
(* what arrived of a dispatch.  Both are transactions of one shape: the    *)
(* cumulative column of every line is read, checked against its limit and  *)
(* then written as the value read plus the line's quantity                 *)
(* (dispatch.repository.ts, delivery.repository.ts).  dispatch.service.ts  *)
(* moves a dispatch by conditional updates of its status meanwhile.        *)
(*                                                                         *)
(* PostgreSQL at READ COMMITTED: a read takes no lock, an update locks its *)
(* row until the transaction ends.                                         *)
(***************************************************************************)
EXTENDS Integers, Sums

CONSTANTS
  Requests,    \* slots for the transactions in flight
  Lines,       \* lines of the sales fulfilment
  Fulfilled,   \* Fulfilled[l]: SalesFulfilmentItem.quantityFulfilled
  Dispatches,  \* dispatches clients intend, each under its idempotency key
  Deliveries,  \* deliveries clients intend, each under its idempotency key
  Quantity,    \* Quantity[x][l]: what dispatch or delivery x moves of line l
  DispatchOf,  \* the dispatch a delivery confirms
  None

Documents == Dispatches \cup Deliveries

ASSUME DistributionAssumption ==
  /\ Fulfilled \in [Lines -> Nat]
  /\ Quantity \in [Documents -> [Lines -> Nat]]
  /\ DispatchOf \in [Deliveries -> Dispatches]
  /\ Dispatches \cap Deliveries = {} /\ None \notin Documents \cup Lines
  /\ IsFiniteSet(Lines) /\ IsFiniteSet(Documents)

Statuses == {"NONE", "READY", "DISPATCHED", "IN_TRANSIT", "PARTIALLY_DELIVERED", "DELIVERED",
             "CANCELLED", "FAILED"}
\* Mutant: a dispatch that failed on its way is delivered after all.
DeliverableFailedBug == {"DISPATCHED", "IN_TRANSIT", "PARTIALLY_DELIVERED", "FAILED"}
Deliverable == {"DISPATCHED", "IN_TRANSIT", "PARTIALLY_DELIVERED"}

\* A parent groups the rows a document counts on: the fulfilment (None) or a dispatch.
Parents == {None} \cup Dispatches
Parent(x) == IF x \in Dispatches THEN None ELSE DispatchOf[x]
LinesOf(x) == {l \in Lines : Quantity[x][l] > 0}
Limit(p, l) == IF p = None THEN Fulfilled[l] ELSE Quantity[p][l]

VARIABLES
  status,    \* status[d]: Dispatch.status, NONE before there is a row
  moved,     \* moved[p][l]: quantityDispatched of a fulfilment line, quantityDelivered of a dispatch's
  recorded,  \* documents that have their row
  request,   \* request[r]: the transaction in slot r
  raced      \* history: <<p, "line">> when a row of p was written from an outdated read,
             \* <<d, "status">> when a delivery wrote over a cancellation or failure of d

vars == <<status, moved, recorded, request, raced>>

\* A transaction: its document, the lines it has still to write, the line it has read and
\* not yet written, what it read, the status it will write, and which of its reads another
\* transaction has outdated.
Transaction(x) ==
  [doc |-> x, todo |-> LinesOf(x), at |-> None, seen |-> [l \in Lines |-> 0],
   outcome |-> "NONE", outdated |-> {}]
Idle == [doc |-> None, todo |-> {}, at |-> None, seen |-> [l \in Lines |-> 0],
         outcome |-> "NONE", outdated |-> {}]

Init ==
  /\ status = [d \in Dispatches |-> "NONE"]
  /\ moved = [p \in Parents |-> [l \in Lines |-> 0]]
  /\ recorded = {}
  /\ request = [r \in Requests |-> Idle]
  /\ raced = {}

-----------------------------------------------------------------------------
(* Transactions that create a dispatch or a delivery *)

Busy(r) == request[r] # Idle
Locks(r) == LinesOf(request[r].doc) \ request[r].todo
Locked(p, l) ==
  \E r \in Requests : Busy(r) /\ Parent(request[r].doc) = p /\ l \in Locks(r)

\* A dispatch is opened on a fulfilment whose key is unused.
OpenDispatch(r, d) ==
  /\ ~Busy(r) /\ d \notin recorded
  /\ request' = [request EXCEPT ![r] = Transaction(d)]
  /\ UNCHANGED <<status, moved, recorded, raced>>

\* A delivery is opened on an eligible dispatch: the service's check, repeated as the
\* transaction's first reads.
OpenDelivery(r, v) ==
  /\ ~Busy(r) /\ v \notin recorded
  /\ status[DispatchOf[v]] \in Deliverable
  /\ request' = [request EXCEPT ![r] = Transaction(v)]
  /\ UNCHANGED <<status, moved, recorded, raced>>

\* findUniqueOrThrow on a line, and the check of the sum against its limit.
ReadLine(r, l) ==
  LET x == request[r].doc
  IN  /\ Busy(r) /\ request[r].at = None /\ l \in request[r].todo
      /\ moved[Parent(x)][l] + Quantity[x][l] <= Limit(Parent(x), l)
      /\ request' = [request EXCEPT ![r].at = l, ![r].seen[l] = moved[Parent(x)][l]]
      /\ UNCHANGED <<status, moved, recorded, raced>>

\* The update of that line: it takes effect at the commit and locks the row until then.
WriteLine(r) ==
  LET l == request[r].at
  IN  /\ Busy(r) /\ l # None
      /\ ~Locked(Parent(request[r].doc), l)
      /\ request' = [request EXCEPT ![r].at = None, ![r].todo = @ \ {l}]
      /\ UNCHANGED <<status, moved, recorded, raced>>

\* Mutant: the column is incremented in place, without repeating the check.
WrittenIncrementBug(r) ==
  LET x == request[r].doc
  IN  [l \in Lines |-> moved[Parent(x)][l] + Quantity[x][l]]
\* The rows of the parent as this transaction sees and leaves them.
Written(r) ==
  LET x == request[r].doc
  IN  [l \in Lines |-> IF l \in Locks(r) THEN request[r].seen[l] + Quantity[x][l]
                       ELSE moved[Parent(x)][l]]

Total(f) == Sum(f, Lines)

\* Mutant: complete when the lines of this delivery are.
OutcomeOwnLinesBug(r) ==
  LET d == DispatchOf[request[r].doc]
  IN  IF \A l \in Locks(r) : Written(r)[l] >= Quantity[d][l] THEN "DELIVERED" ELSE "PARTIALLY_DELIVERED"
Outcome(r) ==
  IF Total(Written(r)) >= Total(Quantity[DispatchOf[request[r].doc]])
  THEN "DELIVERED" ELSE "PARTIALLY_DELIVERED"

\* The delivery's row is inserted, unique by dispatch and key, and all lines are read back.
Tally(r) ==
  LET x == request[r].doc
  IN  /\ Busy(r) /\ request[r].todo = {} /\ request[r].outcome = "NONE"
      /\ x \in Deliveries \ recorded
      /\ request' = [request EXCEPT ![r].outcome = Outcome(r)]
      /\ UNCHANGED <<status, moved, recorded, raced>>

\* A commit outdates what other transactions have read of a row and not yet written.
AfterCommit(r) ==
  LET x == request[r].doc
      Outdates(q) == /\ q # r /\ Busy(q) /\ Parent(request[q].doc) = Parent(x)
                     /\ request[q].at \in LinesOf(x)
  IN  [q \in Requests |->
         CASE q = r -> Idle
           [] Outdates(q) -> [request[q] EXCEPT !.outdated = @ \cup {"line"}]
           [] OTHER -> request[q]]
Overtaken(r) == raced \cup ({Parent(request[r].doc)} \X request[r].outdated)

\* Mutant: no unique constraint on the key.
KeyIgnoredBug(x) == TRUE
KeyFree(x) == x \notin recorded

\* A new dispatch is READY.
CommitDispatch(r) ==
  LET d == request[r].doc
  IN  /\ Busy(r) /\ request[r].todo = {} /\ d \in Dispatches /\ KeyFree(d)
      /\ status' = [status EXCEPT ![d] = "READY"]
      /\ moved' = [moved EXCEPT ![None] = Written(r)]
      /\ recorded' = recorded \cup {d}
      /\ raced' = Overtaken(r)
      /\ request' = AfterCommit(r)

\* A delivery writes its dispatch's status whatever that is by now.
CommitDelivery(r) ==
  LET x == request[r].doc
      d == DispatchOf[x]
  IN  /\ Busy(r) /\ request[r].outcome # "NONE"
      /\ status' = [status EXCEPT ![d] = request[r].outcome]
      /\ moved' = [moved EXCEPT ![d] = Written(r)]
      /\ recorded' = recorded \cup {x}
      /\ raced' = Overtaken(r)
      /\ request' = AfterCommit(r)

\* A refused line, a key that is taken, a deadlock, a lost connection.
Rollback(r) ==
  /\ Busy(r)
  /\ request' = [request EXCEPT ![r] = Idle]
  /\ UNCHANGED <<status, moved, recorded, raced>>

-----------------------------------------------------------------------------
(* Moves of a dispatch, each a conditional update of its status *)

\* Mutant: a dispatch part of which has arrived can be cancelled.
CancellableLateBug == {"READY", "DISPATCHED", "IN_TRANSIT", "PARTIALLY_DELIVERED"}
Cancellable == {"READY", "DISPATCHED", "IN_TRANSIT"}

\* The deliveries in flight on a dispatch have now read an eligibility that is no more.
Overruled(d) ==
  [r \in Requests |->
     IF Busy(r) /\ Parent(request[r].doc) = d
     THEN [request[r] EXCEPT !.outdated = @ \cup {"status"}] ELSE request[r]]

SetStatus(d, from, to) ==
  /\ status[d] \in from
  /\ status' = [status EXCEPT ![d] = to]
  /\ request' = IF to \in {"CANCELLED", "FAILED"} THEN Overruled(d) ELSE request
  /\ UNCHANGED <<moved, recorded, raced>>

Dispatch(d) == SetStatus(d, {"READY"}, "DISPATCHED")
MarkInTransit(d) == SetStatus(d, {"DISPATCHED"}, "IN_TRANSIT")
\* What was dispatched is not given back to the fulfilment's lines.
Cancel(d) == SetStatus(d, Cancellable, "CANCELLED")
Fail(d) == SetStatus(d, {"DISPATCHED", "IN_TRANSIT"}, "FAILED")

-----------------------------------------------------------------------------
Next ==
  \/ \E r \in Requests :
       \/ \E d \in Dispatches : OpenDispatch(r, d)
       \/ \E v \in Deliveries : OpenDelivery(r, v)
       \/ \E l \in Lines : ReadLine(r, l)
       \/ WriteLine(r)
       \/ Tally(r)
       \/ CommitDispatch(r)
       \/ CommitDelivery(r)
       \/ Rollback(r)
  \/ \E d \in Dispatches :
       \/ Dispatch(d)
       \/ MarkInTransit(d)
       \/ Cancel(d)
       \/ Fail(d)

Spec == Init /\ [][Next]_vars

-----------------------------------------------------------------------------
(* Properties *)

\* Every variable holds values of its type.
TypeOK ==
  /\ status \in [Dispatches -> Statuses]
  /\ moved \in [Parents -> [Lines -> Nat]]
  /\ recorded \subseteq Documents
  /\ request \in [Requests ->
       [doc : Documents \cup {None}, todo : SUBSET Lines, at : Lines \cup {None},
        seen : [Lines -> Nat], outcome : {"NONE", "PARTIALLY_DELIVERED", "DELIVERED"},
        outdated : SUBSET {"line", "status"}]]
  /\ raced \subseteq Parents \X {"line", "status"}

\* What the documents recorded against a parent add up to on a line.
Recorded(p, l) == Sum([x \in Documents |-> Quantity[x][l]], {x \in recorded : Parent(x) = p})

\* quantityDispatched never exceeds what was fulfilled, nor quantityDelivered what was
\* dispatched, whatever transactions race: the check and the write use the same read.
WithinLimits == \A p \in Parents, l \in Lines : moved[p][l] <= Limit(p, l)

\* A column may fall short of its documents, when one transaction overwrote another's
\* increment, but never exceeds them; and where no read was outdated the two agree.
ColumnsFollowDocuments ==
  \A p \in Parents, l \in Lines :
    /\ moved[p][l] <= Recorded(p, l)
    /\ <<p, "line">> \notin raced => moved[p][l] = Recorded(p, l)

\* A dispatch has deliveries exactly when its status says so, races included: a cancelled or
\* failed dispatch delivered nothing, and one that delivered can no longer be cancelled.
DeliveriesTellStatus ==
  \A d \in Dispatches :
    (\E x \in recorded : Parent(x) = d) <=> status[d] \in {"PARTIALLY_DELIVERED", "DELIVERED"}

\* A dispatch is DELIVERED only when its deliveries account for every line in full, races
\* included: a lost increment can delay the status but never anticipate it.
DeliveredIsEarned ==
  \A d \in Dispatches : status[d] = "DELIVERED" => \A l \in Lines : Recorded(d, l) >= Quantity[d][l]

\* CANCELLED and FAILED are final, but for a delivery that was under way when they were set.
EndsAreFinal ==
  [][\A d \in Dispatches :
       status[d] \in {"CANCELLED", "FAILED"} /\ <<d, "status">> \notin raced' => status'[d] = status[d]]_vars

=============================================================================
