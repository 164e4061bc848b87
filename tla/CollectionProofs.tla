--------------------------- MODULE CollectionProofs ---------------------------
(***************************************************************************)
(* Proofs about Collection for any number of orders, outlets and requests. *)
(*                                                                         *)
(* A request that claimed a row holds it alone: the row has the claim's    *)
(* status until the request is done with it, because every other claim     *)
(* needs another status.  What the holder read is what the row was, unless *)
(* the claim raced another request.                                        *)
(***************************************************************************)
EXTENDS Collection, TLAPS

\* Requests that are under way are about an order.
AboutOrders == \A r \in Requests : request[r].stage # "idle" => request[r].o \in Orders

\* Request r holds the row of o by a claim that wrote the status.
Holder(r, o) == request[r].o = o /\ request[r].stage \in {"claimed", "undo"}

\* What a holder counts on, by the claim it made.
Has(r, o) ==
  \/ /\ request[r].kind = "collect" /\ point[o] = "COLLECTED"
     /\ <<"collect", o>> \notin raced => request[r].at = outlet[o]
  \/ /\ request[r].kind = "cancel" /\ point[o] = "CANCELLED"
     /\ <<"cancel", o>> \notin raced => request[r].saw \in Cancellable

HoldersHave == \A r \in Requests, o \in Orders : Holder(r, o) => Has(r, o)

OneHolder ==
  \A r, q \in Requests, o \in Orders : Holder(r, o) /\ Holder(q, o) => r = q

\* A row whose order took goods from an outlet is past being moved, and a cancellation
\* puts it back no further than where it was then.
PastMoving ==
  \A o \in Orders : from[o] # None /\ <<"cancel", o>> \notin raced =>
    /\ shipped[o] = Demand[o]
    /\ point[o] \in {"READY_FOR_COLLECTION", "COLLECTED", "CANCELLED"}
    /\ \A r \in Requests : Holder(r, o) /\ request[r].kind = "cancel" =>
         request[r].saw = "READY_FOR_COLLECTION"

\* Orders that shipped whole stay so.
WithinDemand == \A o \in Orders : shipped[o] <= Demand[o]

IInv ==
  /\ TypeOK /\ AboutOrders /\ HoldersHave /\ OneHolder /\ PastMoving /\ WithinDemand
  /\ CollectedIsShipped /\ CancelledTogether /\ GoodsLeaveTheirOutlet /\ PaidIsConfirmed

\* The two steps of the outlet's staff that end with their claim move the row on.
LEMMA StaffMoves ==
  ASSUME TypeOK, AboutOrders, NEW r \in Requests, Prepare(r) \/ MarkReady(r)
  PROVE  \E o \in Orders, to \in {"PREPARING", "READY_FOR_COLLECTION"} :
           /\ request[r].kind \in {"prepare", "ready"} /\ request[r].o = o
           /\ request[r].stage = "read" /\ point[o] \in {"ASSIGNED", "PREPARING"}
           /\ point' = [point EXCEPT ![o] = to]
           /\ request' = [request EXCEPT ![r] = Idle]
           /\ raced \subseteq raced' /\ raced' \subseteq raced \cup Notable
           /\ UNCHANGED <<order, checkout, payment, outlet, shipped, from, cut>>
<1> DEFINE o == request[r].o
<1>1. o \in Orders /\ request[r].stage = "read"
  BY DEF Prepare, MarkReady, At, AboutOrders
<1>2. request[r].kind \in {"prepare", "ready"} /\ point[o] \in {"ASSIGNED", "PREPARING"}
  BY DEF Prepare, MarkReady, At, Claim
<1>3. /\ request' = [request EXCEPT ![r] = Idle]
      /\ UNCHANGED <<order, checkout, payment, outlet, shipped, from, cut>>
  BY DEF Prepare, MarkReady, Claim, Ends
<1>4. raced \subseteq raced' /\ raced' \subseteq raced \cup Notable
  BY DEF Prepare, MarkReady, Claim
<1>5. \/ point' = [point EXCEPT ![o] = "PREPARING"]
      \/ point' = [point EXCEPT ![o] = "READY_FOR_COLLECTION"]
  BY DEF Prepare, MarkReady, Claim
<1> HIDE DEF o
<1> QED
  BY <1>1, <1>2, <1>3, <1>4, <1>5 DEF o

\* Every step keeps the types, and requests about orders.
LEMMA TypeStep ==
  ASSUME TypeOK, AboutOrders, [Next]_vars
  PROVE  TypeOK' /\ AboutOrders'
<1> USE DEF TypeOK, AboutOrders, rows, OrderStatuses, PaymentStatuses, PointStatuses, Kinds
<1>1. ASSUME NEW o \in Orders, Void(o)
      PROVE  TypeOK' /\ AboutOrders'
  BY <1>1 DEF Void
<1>2. ASSUME NEW o \in Orders, StaffConfirm(o)
      PROVE  TypeOK' /\ AboutOrders'
  BY <1>2 DEF StaffConfirm
<1>3. ASSUME NEW o \in Orders, StaffCancel(o)
      PROVE  TypeOK' /\ AboutOrders'
  BY <1>3 DEF StaffCancel
<1>4. ASSUME NEW o \in Orders, NEW q \in 1..Demand[o],
               StaffShip(o, q)
      PROVE  TypeOK' /\ AboutOrders'
  BY <1>4 DEF StaffShip, Remaining
<1>5. ASSUME NEW r \in Requests, NEW o \in Orders, Pay(r, o)
      PROVE  TypeOK' /\ AboutOrders'
  BY <1>5 DEF Pay, Reads, Free, Idle
<1>6. ASSUME NEW r \in Requests, NEW o \in Orders,
               BeginAssign(r, o)
      PROVE  TypeOK' /\ AboutOrders'
  BY <1>6 DEF BeginAssign, Reads, Free, Idle
<1>7. ASSUME NEW r \in Requests, NEW o \in Orders,
               NEW to \in {"RECORDED", "FAILED", "CLOSED"},
               Callback(r, o, to)
      PROVE  TypeOK' /\ AboutOrders'
  BY <1>7 DEF Callback, Reads, Free, Idle, Applicable
<1>8. ASSUME NEW r \in Requests, NEW o \in Orders,
               NEW kind \in {"prepare", "ready", "collect", "cancel", "reassign"},
               Begin(r, kind, o)
      PROVE  TypeOK' /\ AboutOrders'
  BY <1>8 DEF Begin, Reads, Free, Idle
<1>9. ASSUME NEW r \in Requests, Created(r)
      PROVE  TypeOK' /\ AboutOrders'
  BY <1>9 DEF Created, At, Ends, Idle
<1>10. ASSUME NEW r \in Requests, Rejected(r)
      PROVE  TypeOK' /\ AboutOrders'
  BY <1>10 DEF Rejected, Applicable, At, Ends, Idle
<1>11. ASSUME NEW r \in Requests, ConfirmPaid(r)
      PROVE  TypeOK' /\ AboutOrders'
  BY SMTT(60), <1>11 DEF ConfirmPaid, Confirmable, Reads, At, Ends, Idle
<1>12. ASSUME NEW r \in Requests, NEW x \in Outlets, Assign(r, x)
      PROVE  TypeOK' /\ AboutOrders'
  BY <1>12 DEF Assign, At, Ends, Idle
<1>13. ASSUME NEW r \in Requests, NEW x \in Outlets,
               Reassign(r, x)
      PROVE  TypeOK' /\ AboutOrders'
  BY SMTT(60), <1>13 DEF Reassign, Reassignable, At, Ends, Idle
<1>14. ASSUME NEW r \in Requests, Prepare(r)
      PROVE  TypeOK' /\ AboutOrders'
  BY SMTT(60), <1>14, StaffMoves DEF Idle
<1>15. ASSUME NEW r \in Requests, MarkReady(r)
      PROVE  TypeOK' /\ AboutOrders'
  BY SMTT(60), <1>15, StaffMoves DEF Idle
<1>16. ASSUME NEW r \in Requests, Collect(r)
      PROVE  TypeOK' /\ AboutOrders'
  BY SMTT(60), <1>16 DEF Collect, Collectable, Claim, At, Goes, Notable
<1>17. ASSUME NEW r \in Requests, ShipRest(r)
      PROVE  TypeOK' /\ AboutOrders'
  <2>1. CASE Ends(r)
    BY SMTT(60), <1>17, <2>1, CollectionAssumption DEF ShipRest, Remaining, At, Ends, Idle
  <2>2. CASE Goes(r, "undo")
    BY SMTT(60), <1>17, <2>2, CollectionAssumption DEF ShipRest, Remaining, At, Goes
  <2>3. Ends(r) \/ Goes(r, "undo")
    BY SMTT(60), <1>17 DEF ShipRest
  <2> HIDE DEF TypeOK, AboutOrders, rows, OrderStatuses, PaymentStatuses, PointStatuses, Kinds
  <2> QED
    BY <2>1, <2>2, <2>3
<1>18. ASSUME NEW r \in Requests, CollectFails(r)
      PROVE  TypeOK' /\ AboutOrders'
  BY SMTT(60), <1>18 DEF CollectFails, At, Goes
<1>19. ASSUME NEW r \in Requests, Uncollect(r)
      PROVE  TypeOK' /\ AboutOrders'
  BY SMTT(60), <1>19 DEF Uncollect, Uncollected, At, Ends, Idle
<1>20. ASSUME NEW r \in Requests, CancelPoint(r)
      PROVE  TypeOK' /\ AboutOrders'
  BY SMTT(60), <1>20 DEF CancelPoint, Cancellable, Claim, At, Goes, Notable
<1>21. ASSUME NEW r \in Requests, CancelOrder(r)
      PROVE  TypeOK' /\ AboutOrders'
  <2>1. CASE Ends(r)
    BY SMTT(60), <1>21, <2>1 DEF CancelOrder, At, Ends, Idle
  <2>2. CASE Goes(r, "undo")
    <3>1. order' \in [Orders -> OrderStatuses] /\ request[r].stage = "claimed"
      BY SMTT(60), <1>21 DEF CancelOrder, At
    <3>2. /\ request' = [request EXCEPT ![r].stage = "undo"]
          /\ UNCHANGED <<checkout, payment, point, outlet, shipped, from, cut, raced>>
      BY SMTT(60), <1>21, <2>2 DEF CancelOrder, Goes
    <3>3. TypeOK'
      BY <3>1, <3>2
    <3> QED
      BY <3>1, <3>2, <3>3
  <2>3. Ends(r) \/ Goes(r, "undo")
    BY SMTT(60), <1>21 DEF CancelOrder
  <2> HIDE DEF TypeOK, AboutOrders, rows, OrderStatuses, PaymentStatuses, PointStatuses, Kinds
  <2> QED
    BY <2>1, <2>2, <2>3
<1>22. ASSUME NEW r \in Requests, Uncancel(r)
      PROVE  TypeOK' /\ AboutOrders'
  BY SMTT(60), <1>22 DEF Uncancel, Uncancelled, At, Ends, Idle
<1>23. ASSUME NEW r \in Requests,
               At(r, request[r].kind, "read"),
               request[r].kind # "callback", GiveUp(r)
      PROVE  TypeOK' /\ AboutOrders'
  BY <1>23 DEF GiveUp, At, Ends, Idle
<1>24. ASSUME NEW r \in Requests, Crash(r)
      PROVE  TypeOK' /\ AboutOrders'
  BY SMTT(60), <1>24 DEF Crash, Free, Ends, Idle, Notable
<1>25. CASE UNCHANGED vars
  BY <1>25 DEF vars
<1> HIDE DEF TypeOK, AboutOrders, rows, OrderStatuses, PaymentStatuses, PointStatuses, Kinds
<1> QED
  BY <1>1, <1>2, <1>3, <1>4, <1>5, <1>6, <1>7, <1>8, <1>9, <1>10, <1>11, <1>12, <1>13,
     <1>14, <1>15, <1>16, <1>17, <1>18, <1>19, <1>20, <1>21, <1>22, <1>23, <1>24,
     <1>25 DEF Next

\* Claims exclude one another.
LEMMA HolderStep ==
  ASSUME TypeOK, AboutOrders, HoldersHave, OneHolder, [Next]_vars
  PROVE  HoldersHave' /\ OneHolder'
<1> USE DEF TypeOK, AboutOrders, HoldersHave, OneHolder, Holder, Has, rows
<1>1. ASSUME NEW o \in Orders, Void(o)
      PROVE  HoldersHave' /\ OneHolder'
  BY <1>1 DEF Void
<1>2. ASSUME NEW o \in Orders, StaffConfirm(o)
      PROVE  HoldersHave' /\ OneHolder'
  BY <1>2 DEF StaffConfirm
<1>3. ASSUME NEW o \in Orders, StaffCancel(o)
      PROVE  HoldersHave' /\ OneHolder'
  BY <1>3 DEF StaffCancel
<1>4. ASSUME NEW o \in Orders, NEW q \in 1..Demand[o],
               StaffShip(o, q)
      PROVE  HoldersHave' /\ OneHolder'
  BY <1>4 DEF StaffShip, Remaining
<1>5. ASSUME NEW r \in Requests, NEW o \in Orders, Pay(r, o)
      PROVE  HoldersHave' /\ OneHolder'
  BY <1>5 DEF Pay, Reads, Free, Idle
<1>6. ASSUME NEW r \in Requests, NEW o \in Orders,
               BeginAssign(r, o)
      PROVE  HoldersHave' /\ OneHolder'
  BY <1>6 DEF BeginAssign, Reads, Free, Idle
<1>7. ASSUME NEW r \in Requests, NEW o \in Orders,
               NEW to \in {"RECORDED", "FAILED", "CLOSED"},
               Callback(r, o, to)
      PROVE  HoldersHave' /\ OneHolder'
  BY <1>7 DEF Callback, Reads, Free, Idle, Applicable
<1>8. ASSUME NEW r \in Requests, NEW o \in Orders,
               NEW kind \in {"prepare", "ready", "collect", "cancel", "reassign"},
               Begin(r, kind, o)
      PROVE  HoldersHave' /\ OneHolder'
  BY <1>8 DEF Begin, Reads, Free, Idle
<1>9. ASSUME NEW r \in Requests, Created(r)
      PROVE  HoldersHave' /\ OneHolder'
  BY <1>9 DEF Created, At, Ends, Idle
<1>10. ASSUME NEW r \in Requests, Rejected(r)
      PROVE  HoldersHave' /\ OneHolder'
  BY <1>10 DEF Rejected, Applicable, At, Ends, Idle
<1>11. ASSUME NEW r \in Requests, ConfirmPaid(r)
      PROVE  HoldersHave' /\ OneHolder'
  BY SMTT(60), <1>11 DEF ConfirmPaid, Confirmable, Reads, At, Ends, Idle
<1>12. ASSUME NEW r \in Requests, NEW x \in Outlets, Assign(r, x)
      PROVE  HoldersHave' /\ OneHolder'
  BY <1>12 DEF Assign, At, Ends, Idle
<1>13. ASSUME NEW r \in Requests, NEW x \in Outlets,
               Reassign(r, x)
      PROVE  HoldersHave' /\ OneHolder'
  BY SMTT(60), <1>13 DEF Reassign, Reassignable, At, Ends, Idle
<1>14. ASSUME NEW r \in Requests, Prepare(r)
      PROVE  HoldersHave' /\ OneHolder'
  BY SMTT(60), <1>14, StaffMoves DEF Idle
<1>15. ASSUME NEW r \in Requests, MarkReady(r)
      PROVE  HoldersHave' /\ OneHolder'
  BY SMTT(60), <1>15, StaffMoves DEF Idle
<1>16. ASSUME NEW r \in Requests, Collect(r)
      PROVE  HoldersHave' /\ OneHolder'
  <2> DEFINE o == request[r].o
  <2>1. /\ request[r].kind = "collect" /\ request[r].stage = "read" /\ o \in Orders
        /\ point[o] = "READY_FOR_COLLECTION" /\ outlet' = outlet
        /\ point' = [point EXCEPT ![o] = "COLLECTED"]
        /\ request' = [request EXCEPT ![r].stage = "claimed"]
        /\ raced \subseteq raced'
        /\ <<"collect", o>> \notin raced' => request[r].at = outlet[o]
    BY SMTT(60), <1>16 DEF Collect, Collectable, Claim, At, Goes, Notable
  <2>2. \A q \in Requests : ~Holder(q, o)
    BY <2>1 DEF Cancellable
  <2>3. \A q \in Requests, p \in Orders :
          /\ q # r => (Holder(q, p)' <=> Holder(q, p))
          /\ Holder(r, p)' <=> p = o
    BY <2>1
  <2>4. OneHolder'
    <3>1. SUFFICES ASSUME NEW q \in Requests, NEW q1 \in Requests, NEW p \in Orders,
                          Holder(q, p)', Holder(q1, p)'
                   PROVE  q = q1
      OBVIOUS
    <3> HIDE DEF Holder, o
    <3>2. q # r => p # o
      BY <2>2, <2>3, <3>1
    <3>3. q1 # r => p # o
      BY <2>2, <2>3, <3>1
    <3> QED
      BY <2>3, <3>1, <3>2, <3>3
  <2>5. HoldersHave'
    <3> SUFFICES ASSUME NEW q \in Requests, NEW p \in Orders, Holder(q, p)'
                 PROVE  Has(q, p)'
      OBVIOUS
    <3>1. CASE q = r
      <4>1. p = o
        BY <2>3, <3>1
      <4>2. /\ request'[r].kind = "collect" /\ point'[o] = "COLLECTED"
            /\ request'[r].at = request[r].at /\ request'[r].saw = request[r].saw
        BY <2>1
      <4> QED
        BY <2>1, <3>1, <4>1, <4>2
    <3>2. CASE q # r
      <4>1. Holder(q, p) /\ p # o
        BY <2>2, <2>3, <3>2
      <4> QED
        BY <2>1, <3>2, <4>1
    <3> QED
      BY <3>1, <3>2
  <2> QED
    BY <2>4, <2>5
<1>17. ASSUME NEW r \in Requests, ShipRest(r)
      PROVE  HoldersHave' /\ OneHolder'
  <2>1. CASE Ends(r)
    BY SMTT(60), <1>17, <2>1 DEF ShipRest, At, Ends, Idle
  <2>2. CASE Goes(r, "undo")
    <3>1. /\ request[r].stage = "claimed" /\ UNCHANGED <<point, outlet, raced>>
          /\ request' = [request EXCEPT ![r].stage = "undo"]
      BY SMTT(60), <1>17, <2>2 DEF ShipRest, At, Goes
    <3>2. \A q \in Requests :
            /\ request'[q].kind = request[q].kind /\ request'[q].o = request[q].o
            /\ request'[q].at = request[q].at /\ request'[q].saw = request[q].saw
            /\ request'[q].stage \in {"claimed", "undo"} <=>
                 request[q].stage \in {"claimed", "undo"}
      BY <3>1
    <3>3. \A q \in Requests, p \in Orders : Holder(q, p)' <=> Holder(q, p)
      BY <3>2
    <3>4. \A q \in Requests, p \in Orders : Has(q, p) => Has(q, p)'
      <4> HIDE DEF TypeOK, HoldersHave, OneHolder, Holder
      <4> QED
        BY <3>1, <3>2
    <3> HIDE DEF Holder, Has
    <3> QED
      BY <3>3, <3>4
  <2>3. Ends(r) \/ Goes(r, "undo")
    BY SMTT(60), <1>17 DEF ShipRest
  <2> HIDE DEF TypeOK, AboutOrders, HoldersHave, OneHolder, Holder, Has, rows
  <2> QED
    BY <2>1, <2>2, <2>3
<1>18. ASSUME NEW r \in Requests, CollectFails(r)
      PROVE  HoldersHave' /\ OneHolder'
  BY SMTT(60), <1>18 DEF CollectFails, At, Goes
<1>19. ASSUME NEW r \in Requests, Uncollect(r)
      PROVE  HoldersHave' /\ OneHolder'
  BY SMTT(60), <1>19 DEF Uncollect, Uncollected, At, Ends, Idle
<1>20. ASSUME NEW r \in Requests, CancelPoint(r)
      PROVE  HoldersHave' /\ OneHolder'
  <2> DEFINE o == request[r].o
  <2>1. /\ request[r].kind = "cancel" /\ request[r].stage = "read" /\ o \in Orders
        /\ point[o] \in Cancellable /\ outlet' = outlet
        /\ point' = [point EXCEPT ![o] = "CANCELLED"]
        /\ request' = [request EXCEPT ![r].stage = "claimed"]
        /\ raced \subseteq raced'
        /\ <<"cancel", o>> \notin raced' => request[r].saw \in Cancellable
    BY SMTT(60), <1>20 DEF CancelPoint, Cancellable, Claim, At, Goes, Notable
  <2>2. \A q \in Requests : ~Holder(q, o)
    BY <2>1 DEF Cancellable
  <2>3. \A q \in Requests, p \in Orders :
          /\ q # r => (Holder(q, p)' <=> Holder(q, p))
          /\ Holder(r, p)' <=> p = o
    BY <2>1
  <2>4. OneHolder'
    <3>1. SUFFICES ASSUME NEW q \in Requests, NEW q1 \in Requests, NEW p \in Orders,
                          Holder(q, p)', Holder(q1, p)'
                   PROVE  q = q1
      OBVIOUS
    <3> HIDE DEF Holder, o
    <3>2. q # r => p # o
      BY <2>2, <2>3, <3>1
    <3>3. q1 # r => p # o
      BY <2>2, <2>3, <3>1
    <3> QED
      BY <2>3, <3>1, <3>2, <3>3
  <2>5. HoldersHave'
    <3> SUFFICES ASSUME NEW q \in Requests, NEW p \in Orders, Holder(q, p)'
                 PROVE  Has(q, p)'
      OBVIOUS
    <3>1. CASE q = r
      <4>1. p = o
        BY <2>3, <3>1
      <4>2. /\ request'[r].kind = "cancel" /\ point'[o] = "CANCELLED"
            /\ request'[r].at = request[r].at /\ request'[r].saw = request[r].saw
        BY <2>1
      <4> QED
        BY <2>1, <3>1, <4>1, <4>2
    <3>2. CASE q # r
      <4>1. Holder(q, p) /\ p # o
        BY <2>2, <2>3, <3>2
      <4> QED
        BY <2>1, <3>2, <4>1
    <3> QED
      BY <3>1, <3>2
  <2> QED
    BY <2>4, <2>5
<1>21. ASSUME NEW r \in Requests, CancelOrder(r)
      PROVE  HoldersHave' /\ OneHolder'
  <2>1. CASE Ends(r)
    BY SMTT(60), <1>21, <2>1 DEF CancelOrder, At, Ends, Idle
  <2>2. CASE Goes(r, "undo")
    BY SMTT(60), <1>21, <2>2 DEF CancelOrder, At, Goes
  <2>3. Ends(r) \/ Goes(r, "undo")
    BY SMTT(60), <1>21 DEF CancelOrder
  <2> HIDE DEF TypeOK, AboutOrders, HoldersHave, OneHolder, Holder, Has, rows
  <2> QED
    BY <2>1, <2>2, <2>3
<1>22. ASSUME NEW r \in Requests, Uncancel(r)
      PROVE  HoldersHave' /\ OneHolder'
  BY SMTT(60), <1>22 DEF Uncancel, Uncancelled, At, Ends, Idle
<1>23. ASSUME NEW r \in Requests,
               At(r, request[r].kind, "read"),
               request[r].kind # "callback", GiveUp(r)
      PROVE  HoldersHave' /\ OneHolder'
  BY <1>23 DEF GiveUp, At, Ends, Idle
<1>24. ASSUME NEW r \in Requests, Crash(r)
      PROVE  HoldersHave' /\ OneHolder'
  BY SMTT(60), <1>24 DEF Crash, Free, Ends, Idle, Notable
<1>25. CASE UNCHANGED vars
  BY <1>25 DEF vars
<1> HIDE DEF TypeOK, AboutOrders, HoldersHave, OneHolder, Holder, Has, rows
<1> QED
  BY <1>1, <1>2, <1>3, <1>4, <1>5, <1>6, <1>7, <1>8, <1>9, <1>10, <1>11, <1>12, <1>13,
     <1>14, <1>15, <1>16, <1>17, <1>18, <1>19, <1>20, <1>21, <1>22, <1>23, <1>24,
     <1>25 DEF Next

\* Nothing ships beyond the order.
LEMMA WithinStep ==
  ASSUME TypeOK, AboutOrders, WithinDemand, [Next]_vars
  PROVE  WithinDemand'
<1> USE DEF TypeOK, AboutOrders, WithinDemand, rows
<1>1. ASSUME NEW o \in Orders, Void(o)
      PROVE  WithinDemand'
  BY <1>1 DEF Void
<1>2. ASSUME NEW o \in Orders, StaffConfirm(o)
      PROVE  WithinDemand'
  BY <1>2 DEF StaffConfirm
<1>3. ASSUME NEW o \in Orders, StaffCancel(o)
      PROVE  WithinDemand'
  BY <1>3 DEF StaffCancel
<1>4. ASSUME NEW o \in Orders, NEW q \in 1..Demand[o],
               StaffShip(o, q)
      PROVE  WithinDemand'
  <2>1. /\ Demand[o] \in Nat /\ shipped[o] \in Nat /\ q \in Int
        /\ q <= Demand[o] - shipped[o] /\ shipped' = [shipped EXCEPT ![o] = @ + q]
    <3>1. Demand[o] \in Nat
      BY CollectionAssumption
    <3>2. q \in Int /\ shipped[o] \in Nat
      BY <3>1
    <3> QED
      BY <1>4, <3>1, <3>2 DEF StaffShip, Remaining
  <2>2. shipped'[o] <= Demand[o] /\ \A p \in Orders : p # o => shipped'[p] = shipped[p]
    BY <2>1
  <2> QED
    BY <2>2
<1>5. ASSUME NEW r \in Requests, NEW o \in Orders, Pay(r, o)
      PROVE  WithinDemand'
  BY <1>5 DEF Pay, Reads, Free, Idle
<1>6. ASSUME NEW r \in Requests, NEW o \in Orders,
               BeginAssign(r, o)
      PROVE  WithinDemand'
  BY <1>6 DEF BeginAssign, Reads, Free, Idle
<1>7. ASSUME NEW r \in Requests, NEW o \in Orders,
               NEW to \in {"RECORDED", "FAILED", "CLOSED"},
               Callback(r, o, to)
      PROVE  WithinDemand'
  BY <1>7 DEF Callback, Reads, Free, Idle, Applicable
<1>8. ASSUME NEW r \in Requests, NEW o \in Orders,
               NEW kind \in {"prepare", "ready", "collect", "cancel", "reassign"},
               Begin(r, kind, o)
      PROVE  WithinDemand'
  BY <1>8 DEF Begin, Reads, Free, Idle
<1>9. ASSUME NEW r \in Requests, Created(r)
      PROVE  WithinDemand'
  BY <1>9 DEF Created, At, Ends, Idle
<1>10. ASSUME NEW r \in Requests, Rejected(r)
      PROVE  WithinDemand'
  BY <1>10 DEF Rejected, Applicable, At, Ends, Idle
<1>11. ASSUME NEW r \in Requests, ConfirmPaid(r)
      PROVE  WithinDemand'
  BY SMTT(60), <1>11 DEF ConfirmPaid, Confirmable, Reads, At, Ends, Idle
<1>12. ASSUME NEW r \in Requests, NEW x \in Outlets, Assign(r, x)
      PROVE  WithinDemand'
  BY <1>12 DEF Assign, At, Ends, Idle
<1>13. ASSUME NEW r \in Requests, NEW x \in Outlets,
               Reassign(r, x)
      PROVE  WithinDemand'
  BY SMTT(60), <1>13 DEF Reassign, Reassignable, At, Ends, Idle
<1>14. ASSUME NEW r \in Requests, Prepare(r)
      PROVE  WithinDemand'
  BY SMTT(60), <1>14, StaffMoves DEF Idle
<1>15. ASSUME NEW r \in Requests, MarkReady(r)
      PROVE  WithinDemand'
  BY SMTT(60), <1>15, StaffMoves DEF Idle
<1>16. ASSUME NEW r \in Requests, Collect(r)
      PROVE  WithinDemand'
  BY SMTT(60), <1>16 DEF Collect, Collectable, Claim, At, Goes, Notable
<1>17. ASSUME NEW r \in Requests, ShipRest(r)
      PROVE  WithinDemand'
  <2>1. CASE Ends(r)
    BY SMTT(60), <1>17, <2>1, CollectionAssumption DEF ShipRest, Remaining, At, Ends, Idle
  <2>2. CASE Goes(r, "undo")
    BY SMTT(60), <1>17, <2>2, CollectionAssumption DEF ShipRest, Remaining, At, Goes
  <2>3. Ends(r) \/ Goes(r, "undo")
    BY SMTT(60), <1>17 DEF ShipRest
  <2> HIDE DEF TypeOK, AboutOrders, WithinDemand, rows
  <2> QED
    BY <2>1, <2>2, <2>3
<1>18. ASSUME NEW r \in Requests, CollectFails(r)
      PROVE  WithinDemand'
  BY SMTT(60), <1>18 DEF CollectFails, At, Goes
<1>19. ASSUME NEW r \in Requests, Uncollect(r)
      PROVE  WithinDemand'
  BY SMTT(60), <1>19 DEF Uncollect, Uncollected, At, Ends, Idle
<1>20. ASSUME NEW r \in Requests, CancelPoint(r)
      PROVE  WithinDemand'
  BY SMTT(60), <1>20 DEF CancelPoint, Cancellable, Claim, At, Goes, Notable
<1>21. ASSUME NEW r \in Requests, CancelOrder(r)
      PROVE  WithinDemand'
  <2>1. CASE Ends(r)
    BY SMTT(60), <1>21, <2>1 DEF CancelOrder, At, Ends, Idle
  <2>2. CASE Goes(r, "undo")
    BY SMTT(60), <1>21, <2>2 DEF CancelOrder, At, Goes
  <2>3. Ends(r) \/ Goes(r, "undo")
    BY SMTT(60), <1>21 DEF CancelOrder
  <2> HIDE DEF TypeOK, AboutOrders, WithinDemand, rows
  <2> QED
    BY <2>1, <2>2, <2>3
<1>22. ASSUME NEW r \in Requests, Uncancel(r)
      PROVE  WithinDemand'
  BY SMTT(60), <1>22 DEF Uncancel, Uncancelled, At, Ends, Idle
<1>23. ASSUME NEW r \in Requests,
               At(r, request[r].kind, "read"),
               request[r].kind # "callback", GiveUp(r)
      PROVE  WithinDemand'
  BY <1>23 DEF GiveUp, At, Ends, Idle
<1>24. ASSUME NEW r \in Requests, Crash(r)
      PROVE  WithinDemand'
  BY SMTT(60), <1>24 DEF Crash, Free, Ends, Idle
<1>25. CASE UNCHANGED vars
  BY <1>25 DEF vars
<1> HIDE DEF TypeOK, AboutOrders, WithinDemand, rows
<1> QED
  BY <1>1, <1>2, <1>3, <1>4, <1>5, <1>6, <1>7, <1>8, <1>9, <1>10, <1>11, <1>12, <1>13,
     <1>14, <1>15, <1>16, <1>17, <1>18, <1>19, <1>20, <1>21, <1>22, <1>23, <1>24,
     <1>25 DEF Next

\* A recorded payment keeps its callback until the order is confirmed.
LEMMA PaidStep ==
  ASSUME TypeOK, AboutOrders, PaidIsConfirmed, [Next]_vars
  PROVE  PaidIsConfirmed'
<1> USE DEF TypeOK, AboutOrders, PaidIsConfirmed, rows
<1>1. ASSUME NEW o \in Orders, Void(o)
      PROVE  PaidIsConfirmed'
  BY <1>1 DEF Void
<1>2. ASSUME NEW o \in Orders, StaffConfirm(o)
      PROVE  PaidIsConfirmed'
  BY <1>2 DEF StaffConfirm
<1>3. ASSUME NEW o \in Orders, StaffCancel(o)
      PROVE  PaidIsConfirmed'
  BY <1>3 DEF StaffCancel
<1>4. ASSUME NEW o \in Orders, NEW q \in 1..Demand[o],
               StaffShip(o, q)
      PROVE  PaidIsConfirmed'
  BY <1>4 DEF StaffShip, Remaining
<1>5. ASSUME NEW r \in Requests, NEW o \in Orders, Pay(r, o)
      PROVE  PaidIsConfirmed'
  BY <1>5, CollectionAssumption DEF Pay, Reads, Free, Idle
<1>6. ASSUME NEW r \in Requests, NEW o \in Orders,
               BeginAssign(r, o)
      PROVE  PaidIsConfirmed'
  BY <1>6, CollectionAssumption DEF BeginAssign, Reads, Free, Idle
<1>7. ASSUME NEW r \in Requests, NEW o \in Orders,
               NEW to \in {"RECORDED", "FAILED", "CLOSED"},
               Callback(r, o, to)
      PROVE  PaidIsConfirmed'
  BY <1>7, CollectionAssumption DEF Callback, Reads, Free, Idle, Applicable
<1>8. ASSUME NEW r \in Requests, NEW o \in Orders,
               NEW kind \in {"prepare", "ready", "collect", "cancel", "reassign"},
               Begin(r, kind, o)
      PROVE  PaidIsConfirmed'
  BY <1>8, CollectionAssumption DEF Begin, Reads, Free, Idle
<1>9. ASSUME NEW r \in Requests, Created(r)
      PROVE  PaidIsConfirmed'
  BY <1>9 DEF Created, At, Ends, Idle
<1>10. ASSUME NEW r \in Requests, Rejected(r)
      PROVE  PaidIsConfirmed'
  BY <1>10 DEF Rejected, Applicable, At, Ends, Idle
<1>11. ASSUME NEW r \in Requests, ConfirmPaid(r)
      PROVE  PaidIsConfirmed'
  BY SMTT(60), <1>11 DEF ConfirmPaid, Confirmable, Reads, At, Ends, Idle
<1>12. ASSUME NEW r \in Requests, NEW x \in Outlets, Assign(r, x)
      PROVE  PaidIsConfirmed'
  BY <1>12 DEF Assign, At, Ends, Idle
<1>13. ASSUME NEW r \in Requests, NEW x \in Outlets,
               Reassign(r, x)
      PROVE  PaidIsConfirmed'
  BY SMTT(60), <1>13 DEF Reassign, Reassignable, At, Ends, Idle
<1>14. ASSUME NEW r \in Requests, Prepare(r)
      PROVE  PaidIsConfirmed'
  BY SMTT(60), <1>14, StaffMoves DEF Idle
<1>15. ASSUME NEW r \in Requests, MarkReady(r)
      PROVE  PaidIsConfirmed'
  BY SMTT(60), <1>15, StaffMoves DEF Idle
<1>16. ASSUME NEW r \in Requests, Collect(r)
      PROVE  PaidIsConfirmed'
  BY SMTT(60), <1>16 DEF Collect, Collectable, Claim, At, Goes, Notable
<1>17. ASSUME NEW r \in Requests, ShipRest(r)
      PROVE  PaidIsConfirmed'
  BY SMTT(60), <1>17 DEF ShipRest, Remaining, At, Ends, Goes, Idle
<1>18. ASSUME NEW r \in Requests, CollectFails(r)
      PROVE  PaidIsConfirmed'
  BY SMTT(60), <1>18 DEF CollectFails, At, Goes
<1>19. ASSUME NEW r \in Requests, Uncollect(r)
      PROVE  PaidIsConfirmed'
  BY SMTT(60), <1>19 DEF Uncollect, Uncollected, At, Ends, Idle
<1>20. ASSUME NEW r \in Requests, CancelPoint(r)
      PROVE  PaidIsConfirmed'
  BY SMTT(60), <1>20 DEF CancelPoint, Cancellable, Claim, At, Goes, Notable
<1>21. ASSUME NEW r \in Requests, CancelOrder(r)
      PROVE  PaidIsConfirmed'
  <2>1. CASE Ends(r)
    BY SMTT(60), <1>21, <2>1 DEF CancelOrder, At, Ends, Idle
  <2>2. CASE Goes(r, "undo")
    BY SMTT(60), <1>21, <2>2 DEF CancelOrder, At, Goes
  <2>3. Ends(r) \/ Goes(r, "undo")
    BY SMTT(60), <1>21 DEF CancelOrder
  <2> HIDE DEF TypeOK, AboutOrders, PaidIsConfirmed, rows
  <2> QED
    BY <2>1, <2>2, <2>3
<1>22. ASSUME NEW r \in Requests, Uncancel(r)
      PROVE  PaidIsConfirmed'
  BY SMTT(60), <1>22 DEF Uncancel, Uncancelled, At, Ends, Idle
<1>23. ASSUME NEW r \in Requests,
               At(r, request[r].kind, "read"),
               request[r].kind # "callback", GiveUp(r)
      PROVE  PaidIsConfirmed'
  BY <1>23 DEF GiveUp, At, Ends, Idle
<1>24. ASSUME NEW r \in Requests, Crash(r)
      PROVE  PaidIsConfirmed'
  BY SMTT(60), <1>24 DEF Crash, Free, Ends, Idle, Notable
<1>25. CASE UNCHANGED vars
  BY <1>25 DEF vars
<1> HIDE DEF TypeOK, AboutOrders, PaidIsConfirmed, rows
<1> QED
  BY <1>1, <1>2, <1>3, <1>4, <1>5, <1>6, <1>7, <1>8, <1>9, <1>10, <1>11, <1>12, <1>13,
     <1>14, <1>15, <1>16, <1>17, <1>18, <1>19, <1>20, <1>21, <1>22, <1>23, <1>24,
     <1>25 DEF Next

\* A collected order ships, or its claim is undone.
LEMMA CollectedStep ==
  ASSUME TypeOK, AboutOrders, HoldersHave, OneHolder, WithinDemand,
         CollectedIsShipped, [Next]_vars
  PROVE  CollectedIsShipped'
<1> USE DEF TypeOK, AboutOrders, HoldersHave, OneHolder, WithinDemand, CollectedIsShipped, Holds, Holder, Has, rows
<1>1. ASSUME NEW o \in Orders, Void(o)
      PROVE  CollectedIsShipped'
  BY <1>1 DEF Void
<1>2. ASSUME NEW o \in Orders, StaffConfirm(o)
      PROVE  CollectedIsShipped'
  BY <1>2 DEF StaffConfirm
<1>3. ASSUME NEW o \in Orders, StaffCancel(o)
      PROVE  CollectedIsShipped'
  BY <1>3 DEF StaffCancel
<1>4. ASSUME NEW o \in Orders, NEW q \in 1..Demand[o],
               StaffShip(o, q)
      PROVE  CollectedIsShipped'
  BY <1>4, CollectionAssumption DEF StaffShip, Remaining
<1>5. ASSUME NEW r \in Requests, NEW o \in Orders, Pay(r, o)
      PROVE  CollectedIsShipped'
  BY <1>5 DEF Pay, Reads, Free, Idle
<1>6. ASSUME NEW r \in Requests, NEW o \in Orders,
               BeginAssign(r, o)
      PROVE  CollectedIsShipped'
  BY <1>6 DEF BeginAssign, Reads, Free, Idle
<1>7. ASSUME NEW r \in Requests, NEW o \in Orders,
               NEW to \in {"RECORDED", "FAILED", "CLOSED"},
               Callback(r, o, to)
      PROVE  CollectedIsShipped'
  BY <1>7 DEF Callback, Reads, Free, Idle, Applicable
<1>8. ASSUME NEW r \in Requests, NEW o \in Orders,
               NEW kind \in {"prepare", "ready", "collect", "cancel", "reassign"},
               Begin(r, kind, o)
      PROVE  CollectedIsShipped'
  BY <1>8 DEF Begin, Reads, Free, Idle
<1>9. ASSUME NEW r \in Requests, Created(r)
      PROVE  CollectedIsShipped'
  BY <1>9 DEF Created, At, Ends, Idle
<1>10. ASSUME NEW r \in Requests, Rejected(r)
      PROVE  CollectedIsShipped'
  BY <1>10 DEF Rejected, Applicable, At, Ends, Idle
<1>11. ASSUME NEW r \in Requests, ConfirmPaid(r)
      PROVE  CollectedIsShipped'
  BY SMTT(60), <1>11 DEF ConfirmPaid, Confirmable, Reads, At, Ends, Idle
<1>12. ASSUME NEW r \in Requests, NEW x \in Outlets, Assign(r, x)
      PROVE  CollectedIsShipped'
  BY <1>12 DEF Assign, At, Ends, Idle
<1>13. ASSUME NEW r \in Requests, NEW x \in Outlets,
               Reassign(r, x)
      PROVE  CollectedIsShipped'
  BY SMTT(60), <1>13 DEF Reassign, Reassignable, At, Ends, Idle
<1>14. ASSUME NEW r \in Requests, Prepare(r)
      PROVE  CollectedIsShipped'
  BY SMTT(60), <1>14, StaffMoves DEF Idle
<1>15. ASSUME NEW r \in Requests, MarkReady(r)
      PROVE  CollectedIsShipped'
  BY SMTT(60), <1>15, StaffMoves DEF Idle
<1>16. ASSUME NEW r \in Requests, Collect(r)
      PROVE  CollectedIsShipped'
  BY SMTT(60), <1>16 DEF Collect, Collectable, Claim, At, Goes, Notable
<1>17. ASSUME NEW r \in Requests, ShipRest(r)
      PROVE  CollectedIsShipped'
  <2>1. CASE Ends(r)
    <3> DEFINE o == request[r].o
    <3>1. /\ o \in Orders /\ UNCHANGED <<point, cut, raced>>
          /\ request' = [request EXCEPT ![r] = Idle]
          /\ \/ shipped' = [shipped EXCEPT ![o] = Demand[o]]
             \/ Remaining(o) = 0 /\ shipped' = shipped
      BY SMTT(60), <1>17, <2>1 DEF ShipRest, At, Ends
    <3>2. shipped'[o] = Demand[o]
      <4>1. shipped[o] \in Nat /\ Demand[o] \in Nat /\ shipped \in [Orders -> Nat]
        BY <3>1, CollectionAssumption
      <4>2. Remaining(o) = 0 => shipped[o] = Demand[o]
        BY <4>1 DEF Remaining
      <4> HIDE DEF o, TypeOK, AboutOrders, HoldersHave, OneHolder, WithinDemand,
                   CollectedIsShipped, Holds, Holder, Has
      <4>3. CASE shipped' = [shipped EXCEPT ![o] = Demand[o]]
        BY <3>1, <4>1, <4>3
      <4>4. CASE Remaining(o) = 0 /\ shipped' = shipped
        BY <4>2, <4>4
      <4> QED
        BY <3>1, <4>3, <4>4
    <3>3. \A p \in Orders : p # o =>
            shipped'[p] = shipped[p] /\ (Holds("collect", p) => Holds("collect", p)')
      BY <3>1 DEF Idle
    <3> HIDE DEF o, Holds
    <3> QED
      BY <3>1, <3>2, <3>3
  <2>2. CASE Goes(r, "undo")
    BY SMTT(60), <1>17, <2>2, CollectionAssumption DEF ShipRest, Remaining, At, Goes
  <2>3. Ends(r) \/ Goes(r, "undo")
    BY SMTT(60), <1>17 DEF ShipRest
  <2> HIDE DEF TypeOK, AboutOrders, HoldersHave, OneHolder, WithinDemand, CollectedIsShipped, Holds, Holder, Has, rows
  <2> QED
    BY <2>1, <2>2, <2>3
<1>18. ASSUME NEW r \in Requests, CollectFails(r)
      PROVE  CollectedIsShipped'
  BY SMTT(60), <1>18 DEF CollectFails, At, Goes
<1>19. ASSUME NEW r \in Requests, Uncollect(r)
      PROVE  CollectedIsShipped'
  BY SMTT(60), <1>19 DEF Uncollect, Uncollected, At, Ends, Idle
<1>20. ASSUME NEW r \in Requests, CancelPoint(r)
      PROVE  CollectedIsShipped'
  BY SMTT(60), <1>20 DEF CancelPoint, Cancellable, Claim, At, Goes, Notable
<1>21. ASSUME NEW r \in Requests, CancelOrder(r)
      PROVE  CollectedIsShipped'
  <2>1. CASE Ends(r)
    BY SMTT(60), <1>21, <2>1 DEF CancelOrder, At, Ends, Idle
  <2>2. CASE Goes(r, "undo")
    BY SMTT(60), <1>21, <2>2 DEF CancelOrder, At, Goes
  <2>3. Ends(r) \/ Goes(r, "undo")
    BY SMTT(60), <1>21 DEF CancelOrder
  <2> HIDE DEF TypeOK, AboutOrders, HoldersHave, OneHolder, WithinDemand, CollectedIsShipped, Holds, Holder, Has, rows
  <2> QED
    BY <2>1, <2>2, <2>3
<1>22. ASSUME NEW r \in Requests, Uncancel(r)
      PROVE  CollectedIsShipped'
  <2> DEFINE o == request[r].o
  <2>1. /\ o \in Orders /\ request[r].kind = "cancel" /\ Holder(r, o)
        /\ point' = [point EXCEPT ![o] = Uncancelled(r)]
        /\ request' = [request EXCEPT ![r] = Idle]
        /\ UNCHANGED <<order, shipped, cut, raced>>
    BY SMTT(60), <1>22 DEF Uncancel, At, Ends
  <2>2. <<"cancel", o>> \notin raced => point'[o] \in Cancellable
    BY <2>1 DEF Uncancelled
  <2>3. \A p \in Orders : p # o => point'[p] = point[p]
    BY <2>1
  <2>4. \A p \in Orders : (Holds("collect", p)' <=> Holds("collect", p))
    BY <2>1 DEF Idle
  <2> HIDE DEF Holds, Holder, Has, o
  <2> QED
    BY <2>1, <2>2, <2>3, <2>4 DEF Cancellable
<1>23. ASSUME NEW r \in Requests,
               At(r, request[r].kind, "read"),
               request[r].kind # "callback", GiveUp(r)
      PROVE  CollectedIsShipped'
  BY <1>23 DEF GiveUp, At, Ends, Idle
<1>24. ASSUME NEW r \in Requests, Crash(r)
      PROVE  CollectedIsShipped'
  BY SMTT(60), <1>24 DEF Crash, Free, Ends, Idle, Notable
<1>25. CASE UNCHANGED vars
  BY <1>25 DEF vars
<1> HIDE DEF TypeOK, AboutOrders, HoldersHave, OneHolder, WithinDemand, CollectedIsShipped, Holds, Holder, Has, rows
<1> QED
  BY <1>1, <1>2, <1>3, <1>4, <1>5, <1>6, <1>7, <1>8, <1>9, <1>10, <1>11, <1>12, <1>13,
     <1>14, <1>15, <1>16, <1>17, <1>18, <1>19, <1>20, <1>21, <1>22, <1>23, <1>24,
     <1>25 DEF Next

\* An order is cancelled with its collection, or the claim is undone.
LEMMA CancelledStep ==
  ASSUME TypeOK, AboutOrders, HoldersHave, OneHolder, WithinDemand,
         CancelledTogether, [Next]_vars
  PROVE  CancelledTogether'
<1> USE DEF TypeOK, AboutOrders, HoldersHave, OneHolder, WithinDemand, CancelledTogether, Holds, Holder, Has, rows
<1>1. ASSUME NEW o \in Orders, Void(o)
      PROVE  CancelledTogether'
  BY <1>1 DEF Void
<1>2. ASSUME NEW o \in Orders, StaffConfirm(o)
      PROVE  CancelledTogether'
  BY <1>2 DEF StaffConfirm
<1>3. ASSUME NEW o \in Orders, StaffCancel(o)
      PROVE  CancelledTogether'
  BY <1>3 DEF StaffCancel
<1>4. ASSUME NEW o \in Orders, NEW q \in 1..Demand[o],
               StaffShip(o, q)
      PROVE  CancelledTogether'
  BY <1>4 DEF StaffShip, Remaining
<1>5. ASSUME NEW r \in Requests, NEW o \in Orders, Pay(r, o)
      PROVE  CancelledTogether'
  BY <1>5 DEF Pay, Reads, Free, Idle
<1>6. ASSUME NEW r \in Requests, NEW o \in Orders,
               BeginAssign(r, o)
      PROVE  CancelledTogether'
  BY <1>6 DEF BeginAssign, Reads, Free, Idle
<1>7. ASSUME NEW r \in Requests, NEW o \in Orders,
               NEW to \in {"RECORDED", "FAILED", "CLOSED"},
               Callback(r, o, to)
      PROVE  CancelledTogether'
  BY <1>7 DEF Callback, Reads, Free, Idle, Applicable
<1>8. ASSUME NEW r \in Requests, NEW o \in Orders,
               NEW kind \in {"prepare", "ready", "collect", "cancel", "reassign"},
               Begin(r, kind, o)
      PROVE  CancelledTogether'
  BY <1>8 DEF Begin, Reads, Free, Idle
<1>9. ASSUME NEW r \in Requests, Created(r)
      PROVE  CancelledTogether'
  BY <1>9 DEF Created, At, Ends, Idle
<1>10. ASSUME NEW r \in Requests, Rejected(r)
      PROVE  CancelledTogether'
  BY <1>10 DEF Rejected, Applicable, At, Ends, Idle
<1>11. ASSUME NEW r \in Requests, ConfirmPaid(r)
      PROVE  CancelledTogether'
  BY SMTT(60), <1>11 DEF ConfirmPaid, Confirmable, Reads, At, Ends, Idle
<1>12. ASSUME NEW r \in Requests, NEW x \in Outlets, Assign(r, x)
      PROVE  CancelledTogether'
  BY <1>12 DEF Assign, At, Ends, Idle
<1>13. ASSUME NEW r \in Requests, NEW x \in Outlets,
               Reassign(r, x)
      PROVE  CancelledTogether'
  BY SMTT(60), <1>13 DEF Reassign, Reassignable, At, Ends, Idle
<1>14. ASSUME NEW r \in Requests, Prepare(r)
      PROVE  CancelledTogether'
  BY SMTT(60), <1>14, StaffMoves DEF Idle
<1>15. ASSUME NEW r \in Requests, MarkReady(r)
      PROVE  CancelledTogether'
  BY SMTT(60), <1>15, StaffMoves DEF Idle
<1>16. ASSUME NEW r \in Requests, Collect(r)
      PROVE  CancelledTogether'
  BY SMTT(60), <1>16 DEF Collect, Collectable, Claim, At, Goes, Notable
<1>17. ASSUME NEW r \in Requests, ShipRest(r)
      PROVE  CancelledTogether'
  <2> DEFINE o == request[r].o
  <2>1. /\ o \in Orders /\ request[r].kind = "collect" /\ UNCHANGED <<point, cut, raced>>
        /\ Ends(r) \/ Goes(r, "undo")
        /\ Remaining(o) > 0 => order[o] # "CANCELLED"
        /\ \/ order' = order
           \/ Remaining(o) # 0 /\ order' = [order EXCEPT ![o] = "FULFILLED"]
    BY SMTT(60), <1>17 DEF ShipRest, At
  <2>2. Remaining(o) \in Nat
    BY <2>1, CollectionAssumption DEF Remaining
  <2>3. \A p \in Orders : order[p] = "CANCELLED" => order'[p] = "CANCELLED"
    BY <2>1, <2>2
  <2>4. \A p \in Orders : Holds("cancel", p)' <=> Holds("cancel", p)
    BY <2>1 DEF Ends, Goes, Idle
  <2> HIDE DEF Holds, Holder, Has, o
  <2> QED
    BY <2>1, <2>3, <2>4
<1>18. ASSUME NEW r \in Requests, CollectFails(r)
      PROVE  CancelledTogether'
  BY SMTT(60), <1>18 DEF CollectFails, At, Goes
<1>19. ASSUME NEW r \in Requests, Uncollect(r)
      PROVE  CancelledTogether'
  BY SMTT(60), <1>19 DEF Uncollect, Uncollected, At, Ends, Idle
<1>20. ASSUME NEW r \in Requests, CancelPoint(r)
      PROVE  CancelledTogether'
  <2> DEFINE o == request[r].o
  <2>1. /\ o \in Orders /\ request[r].kind = "cancel"
        /\ point' = [point EXCEPT ![o] = "CANCELLED"]
        /\ request' = [request EXCEPT ![r].stage = "claimed"]
        /\ raced \subseteq raced' /\ UNCHANGED <<order, cut>>
    BY SMTT(60), <1>20 DEF CancelPoint, Claim, At, Goes
  <2>2. \A p \in Orders : p = o => Holds("cancel", p)'
    BY <2>1
  <2>3. \A p \in Orders : p # o =>
          point'[p] = point[p] /\ (Holds("cancel", p)' <=> Holds("cancel", p))
    BY <2>1
  <2> HIDE DEF Holds, Holder, Has, o
  <2> SUFFICES ASSUME NEW p \in Orders, point'[p] = "CANCELLED", ~Holds("cancel", p)',
                      <<"cancel", p>> \notin cut \cup raced'
               PROVE  order[p] = "CANCELLED"
    BY <2>1
  <2>4. p # o
    BY <2>2
  <2> QED
    BY <2>1, <2>3, <2>4
<1>21. ASSUME NEW r \in Requests, CancelOrder(r)
      PROVE  CancelledTogether'
  <2>1. CASE Ends(r)
    <3> DEFINE o == request[r].o
    <3>1. /\ o \in Orders /\ UNCHANGED <<point, cut, raced>>
          /\ request' = [request EXCEPT ![r] = Idle]
          /\ order' = [order EXCEPT ![o] = "CANCELLED"] \/ Goes(r, "undo")
      BY SMTT(60), <1>21, <2>1 DEF CancelOrder, At, Ends
    <3>2. order' = [order EXCEPT ![o] = "CANCELLED"]
      BY SMTT(60), <1>21, <3>1 DEF CancelOrder, At, Goes, Idle
    <3>3. \A p \in Orders : p # o => (Holds("cancel", p) => Holds("cancel", p)')
      BY <3>1 DEF Idle
    <3>4. order'[o] = "CANCELLED" /\ \A p \in Orders : p # o => order'[p] = order[p]
      BY <3>1, <3>2
    <3> HIDE DEF o, Holds
    <3> QED
      BY <3>1, <3>3, <3>4
  <2>2. CASE Goes(r, "undo")
    BY SMTT(60), <1>21, <2>2 DEF CancelOrder, At, Goes
  <2>3. Ends(r) \/ Goes(r, "undo")
    BY SMTT(60), <1>21 DEF CancelOrder
  <2> HIDE DEF TypeOK, AboutOrders, HoldersHave, OneHolder, WithinDemand, CancelledTogether, Holds, Holder, Has, rows
  <2> QED
    BY <2>1, <2>2, <2>3
<1>22. ASSUME NEW r \in Requests, Uncancel(r)
      PROVE  CancelledTogether'
  <2> DEFINE o == request[r].o
  <2>1. /\ o \in Orders /\ request[r].kind = "cancel" /\ Holder(r, o)
        /\ point' = [point EXCEPT ![o] = Uncancelled(r)]
        /\ request' = [request EXCEPT ![r] = Idle]
        /\ UNCHANGED <<order, shipped, cut, raced>>
    BY SMTT(60), <1>22 DEF Uncancel, At, Ends
  <2>2. <<"cancel", o>> \notin raced => point'[o] \in Cancellable
    BY <2>1 DEF Uncancelled
  <2>3. \A p \in Orders : p # o => point'[p] = point[p]
    BY <2>1
  <2>4. \A p \in Orders : p # o => (Holds("cancel", p)' <=> Holds("cancel", p))
    BY <2>1 DEF Idle
  <2> HIDE DEF Holds, Holder, Has, o
  <2> QED
    BY <2>1, <2>2, <2>3, <2>4 DEF Cancellable
<1>23. ASSUME NEW r \in Requests,
               At(r, request[r].kind, "read"),
               request[r].kind # "callback", GiveUp(r)
      PROVE  CancelledTogether'
  BY <1>23 DEF GiveUp, At, Ends, Idle
<1>24. ASSUME NEW r \in Requests, Crash(r)
      PROVE  CancelledTogether'
  BY SMTT(60), <1>24 DEF Crash, Free, Ends, Idle, Notable
<1>25. CASE UNCHANGED vars
  BY <1>25 DEF vars
<1> HIDE DEF TypeOK, AboutOrders, HoldersHave, OneHolder, WithinDemand, CancelledTogether, Holds, Holder, Has, rows
<1> QED
  BY <1>1, <1>2, <1>3, <1>4, <1>5, <1>6, <1>7, <1>8, <1>9, <1>10, <1>11, <1>12, <1>13,
     <1>14, <1>15, <1>16, <1>17, <1>18, <1>19, <1>20, <1>21, <1>22, <1>23, <1>24,
     <1>25 DEF Next

\* An order that took goods stays where it took them.
LEMMA OutletStep ==
  ASSUME TypeOK, AboutOrders, HoldersHave, OneHolder, WithinDemand,
         PastMoving, GoodsLeaveTheirOutlet, [Next]_vars
  PROVE  PastMoving' /\ GoodsLeaveTheirOutlet'
<1> USE DEF TypeOK, AboutOrders, HoldersHave, OneHolder, WithinDemand, PastMoving, GoodsLeaveTheirOutlet, Holder, Has, rows
<1>1. ASSUME NEW o \in Orders, Void(o)
      PROVE  PastMoving' /\ GoodsLeaveTheirOutlet'
  BY <1>1 DEF Void
<1>2. ASSUME NEW o \in Orders, StaffConfirm(o)
      PROVE  PastMoving' /\ GoodsLeaveTheirOutlet'
  BY <1>2 DEF StaffConfirm
<1>3. ASSUME NEW o \in Orders, StaffCancel(o)
      PROVE  PastMoving' /\ GoodsLeaveTheirOutlet'
  BY <1>3 DEF StaffCancel
<1>4. ASSUME NEW o \in Orders, NEW q \in 1..Demand[o],
               StaffShip(o, q)
      PROVE  PastMoving' /\ GoodsLeaveTheirOutlet'
  BY <1>4, CollectionAssumption DEF StaffShip, Remaining
<1>5. ASSUME NEW r \in Requests, NEW o \in Orders, Pay(r, o)
      PROVE  PastMoving' /\ GoodsLeaveTheirOutlet'
  BY <1>5 DEF Pay, Reads, Free, Idle
<1>6. ASSUME NEW r \in Requests, NEW o \in Orders,
               BeginAssign(r, o)
      PROVE  PastMoving' /\ GoodsLeaveTheirOutlet'
  BY <1>6 DEF BeginAssign, Reads, Free, Idle
<1>7. ASSUME NEW r \in Requests, NEW o \in Orders,
               NEW to \in {"RECORDED", "FAILED", "CLOSED"},
               Callback(r, o, to)
      PROVE  PastMoving' /\ GoodsLeaveTheirOutlet'
  BY <1>7 DEF Callback, Reads, Free, Idle, Applicable
<1>8. ASSUME NEW r \in Requests, NEW o \in Orders,
               NEW kind \in {"prepare", "ready", "collect", "cancel", "reassign"},
               Begin(r, kind, o)
      PROVE  PastMoving' /\ GoodsLeaveTheirOutlet'
  BY <1>8 DEF Begin, Reads, Free, Idle
<1>9. ASSUME NEW r \in Requests, Created(r)
      PROVE  PastMoving' /\ GoodsLeaveTheirOutlet'
  BY <1>9 DEF Created, At, Ends, Idle
<1>10. ASSUME NEW r \in Requests, Rejected(r)
      PROVE  PastMoving' /\ GoodsLeaveTheirOutlet'
  BY <1>10 DEF Rejected, Applicable, At, Ends, Idle
<1>11. ASSUME NEW r \in Requests, ConfirmPaid(r)
      PROVE  PastMoving' /\ GoodsLeaveTheirOutlet'
  BY SMTT(60), <1>11 DEF ConfirmPaid, Confirmable, Reads, At, Ends, Idle
<1>12. ASSUME NEW r \in Requests, NEW x \in Outlets, Assign(r, x)
      PROVE  PastMoving' /\ GoodsLeaveTheirOutlet'
  BY <1>12 DEF Assign, At, Ends, Idle
<1>13. ASSUME NEW r \in Requests, NEW x \in Outlets,
               Reassign(r, x)
      PROVE  PastMoving' /\ GoodsLeaveTheirOutlet'
  BY SMTT(60), <1>13 DEF Reassign, Reassignable, At, Ends, Idle
<1>14. ASSUME NEW r \in Requests, Prepare(r)
      PROVE  PastMoving' /\ GoodsLeaveTheirOutlet'
  BY SMTT(60), <1>14, StaffMoves DEF Idle
<1>15. ASSUME NEW r \in Requests, MarkReady(r)
      PROVE  PastMoving' /\ GoodsLeaveTheirOutlet'
  BY SMTT(60), <1>15, StaffMoves DEF Idle
<1>16. ASSUME NEW r \in Requests, Collect(r)
      PROVE  PastMoving' /\ GoodsLeaveTheirOutlet'
  <2> DEFINE o == request[r].o
  <2>1. /\ o \in Orders /\ request[r].kind = "collect" /\ point[o] \in {"READY_FOR_COLLECTION"}
        /\ point' = [point EXCEPT ![o] = "COLLECTED"]
        /\ request' = [request EXCEPT ![r].stage = "claimed"]
        /\ raced \subseteq raced' /\ UNCHANGED <<outlet, shipped, from>>
        /\ <<"collect", o>> \notin raced' => request[r].saw = point[o]
    BY SMTT(60), <1>16 DEF Collect, Collectable, Claim, At, Goes, Notable
  <2>2. \A q \in Requests : /\ request'[q].kind = request[q].kind
                            /\ request'[q].saw = request[q].saw
                            /\ request'[q].o = request[q].o
                            /\ q # r => request'[q].stage = request[q].stage
    BY <2>1
  <2>3. \A q \in Requests, p \in Orders : Holder(q, p)' =>
          Holder(q, p) \/ (q = r /\ p = o)
    BY <2>2
  <2>4. \A p \in Orders : p # o => point'[p] = point[p]
    BY <2>1
  <2>5. point'[o] = "COLLECTED"
    BY <2>1
  <2> HIDE DEF Holder, Has, o
  <2>6. PastMoving'
    <3> SUFFICES ASSUME NEW p \in Orders, from[p] # None, <<"cancel", p>> \notin raced'
                 PROVE  /\ shipped[p] = Demand[p]
                        /\ point'[p] \in {"READY_FOR_COLLECTION", "COLLECTED", "CANCELLED"}
                        /\ \A q \in Requests : Holder(q, p)' /\ request'[q].kind = "cancel" =>
                             request'[q].saw = "READY_FOR_COLLECTION"
      BY <2>1
    <3>1. /\ shipped[p] = Demand[p]
          /\ point[p] \in {"READY_FOR_COLLECTION", "COLLECTED", "CANCELLED"}
          /\ \A q \in Requests : Holder(q, p) /\ request[q].kind = "cancel" =>
               request[q].saw = "READY_FOR_COLLECTION"
      BY <2>1
    <3> QED
      BY <2>1, <2>2, <2>3, <2>4, <2>5, <3>1
  <2>7. GoodsLeaveTheirOutlet'
    BY <2>1
  <2> QED
    BY <2>6, <2>7
<1>17. ASSUME NEW r \in Requests, ShipRest(r)
      PROVE  PastMoving' /\ GoodsLeaveTheirOutlet'
  <2> DEFINE o == request[r].o
  <2>1. /\ o \in Orders /\ request[r].kind = "collect" /\ Holder(r, o)
        /\ UNCHANGED <<point, outlet, raced>>
        /\ Ends(r) \/ Goes(r, "undo")
        /\ \/ UNCHANGED <<shipped, from>>
           \/ /\ shipped' = [shipped EXCEPT ![o] = Demand[o]]
              /\ from' = [from EXCEPT ![o] = request[r].at]
    BY SMTT(60), <1>17 DEF ShipRest, At
  <2>2. point[o] = "COLLECTED" /\ (<<"collect", o>> \notin raced => request[r].at = outlet[o])
    BY <2>1
  <2>3. \A q \in Requests : ~(Holder(q, o) /\ request[q].kind = "cancel")
    BY <2>1
  <2>4. \A q \in Requests, p \in Orders :
          Holder(q, p)' /\ request'[q].kind = "cancel" =>
            /\ Holder(q, p) /\ request[q].kind = "cancel"
            /\ request'[q].saw = request[q].saw
    BY <2>1 DEF Ends, Goes, Idle
  <2> HIDE DEF Holder, Has, o
  <2>5. PastMoving'
    <3>1. CASE UNCHANGED <<shipped, from>>
      BY <2>1, <2>4, <3>1
    <3>2. CASE /\ shipped' = [shipped EXCEPT ![o] = Demand[o]]
               /\ from' = [from EXCEPT ![o] = request[r].at]
      BY <2>1, <2>2, <2>3, <2>4, <3>2
    <3> QED
      BY <2>1, <3>1, <3>2
  <2>6. GoodsLeaveTheirOutlet'
    BY <2>1, <2>2
  <2> QED
    BY <2>5, <2>6
<1>18. ASSUME NEW r \in Requests, CollectFails(r)
      PROVE  PastMoving' /\ GoodsLeaveTheirOutlet'
  BY SMTT(60), <1>18 DEF CollectFails, At, Goes
<1>19. ASSUME NEW r \in Requests, Uncollect(r)
      PROVE  PastMoving' /\ GoodsLeaveTheirOutlet'
  BY SMTT(60), <1>19 DEF Uncollect, Uncollected, At, Ends, Idle
<1>20. ASSUME NEW r \in Requests, CancelPoint(r)
      PROVE  PastMoving' /\ GoodsLeaveTheirOutlet'
  <2> DEFINE o == request[r].o
  <2>1. /\ o \in Orders /\ request[r].kind = "cancel" /\ point[o] \in Cancellable
        /\ point' = [point EXCEPT ![o] = "CANCELLED"]
        /\ request' = [request EXCEPT ![r].stage = "claimed"]
        /\ raced \subseteq raced' /\ UNCHANGED <<outlet, shipped, from>>
        /\ <<"cancel", o>> \notin raced' => request[r].saw = point[o]
    BY SMTT(60), <1>20 DEF CancelPoint, Claim, At, Goes, Notable
  <2>2. \A q \in Requests : /\ request'[q].kind = request[q].kind
                            /\ request'[q].saw = request[q].saw
                            /\ request'[q].o = request[q].o
                            /\ q # r => request'[q].stage = request[q].stage
    BY <2>1
  <2>3. \A q \in Requests, p \in Orders : Holder(q, p)' =>
          Holder(q, p) \/ (q = r /\ p = o)
    BY <2>2
  <2>4. \A p \in Orders : p # o => point'[p] = point[p]
    BY <2>1
  <2>5. point'[o] = "CANCELLED"
    BY <2>1
  <2> HIDE DEF Holder, Has, o
  <2>6. PastMoving'
    <3> SUFFICES ASSUME NEW p \in Orders, from[p] # None, <<"cancel", p>> \notin raced'
                 PROVE  /\ shipped[p] = Demand[p]
                        /\ point'[p] \in {"READY_FOR_COLLECTION", "COLLECTED", "CANCELLED"}
                        /\ \A q \in Requests : Holder(q, p)' /\ request'[q].kind = "cancel" =>
                             request'[q].saw = "READY_FOR_COLLECTION"
      BY <2>1
    <3>1. /\ shipped[p] = Demand[p]
          /\ point[p] \in {"READY_FOR_COLLECTION", "COLLECTED", "CANCELLED"}
          /\ \A q \in Requests : Holder(q, p) /\ request[q].kind = "cancel" =>
               request[q].saw = "READY_FOR_COLLECTION"
      BY <2>1
    <3>2. CASE p = o
      <4>1. request[r].saw = "READY_FOR_COLLECTION"
        BY <2>1, <3>1, <3>2 DEF Cancellable
      <4>2. \A q \in Requests : Holder(q, p)' /\ request'[q].kind = "cancel" =>
               request'[q].saw = "READY_FOR_COLLECTION"
        BY <2>2, <2>3, <3>1, <4>1
      <4> QED
        BY <2>5, <3>1, <3>2, <4>2
    <3>3. CASE p # o
      BY <2>2, <2>3, <2>4, <3>1, <3>3
    <3> QED
      BY <3>2, <3>3
  <2>7. GoodsLeaveTheirOutlet'
    BY <2>1
  <2> QED
    BY <2>6, <2>7
<1>21. ASSUME NEW r \in Requests, CancelOrder(r)
      PROVE  PastMoving' /\ GoodsLeaveTheirOutlet'
  <2>1. CASE Ends(r)
    BY SMTT(60), <1>21, <2>1 DEF CancelOrder, At, Ends, Idle
  <2>2. CASE Goes(r, "undo")
    BY SMTT(60), <1>21, <2>2 DEF CancelOrder, At, Goes
  <2>3. Ends(r) \/ Goes(r, "undo")
    BY SMTT(60), <1>21 DEF CancelOrder
  <2> HIDE DEF TypeOK, AboutOrders, HoldersHave, OneHolder, WithinDemand, PastMoving, GoodsLeaveTheirOutlet, Holder, Has, rows
  <2> QED
    BY <2>1, <2>2, <2>3
<1>22. ASSUME NEW r \in Requests, Uncancel(r)
      PROVE  PastMoving' /\ GoodsLeaveTheirOutlet'
  BY SMTT(60), <1>22 DEF Uncancel, Uncancelled, At, Ends, Idle
<1>23. ASSUME NEW r \in Requests,
               At(r, request[r].kind, "read"),
               request[r].kind # "callback", GiveUp(r)
      PROVE  PastMoving' /\ GoodsLeaveTheirOutlet'
  BY <1>23 DEF GiveUp, At, Ends, Idle
<1>24. ASSUME NEW r \in Requests, Crash(r)
      PROVE  PastMoving' /\ GoodsLeaveTheirOutlet'
  BY SMTT(60), <1>24 DEF Crash, Free, Ends, Idle, Notable
<1>25. CASE UNCHANGED vars
  BY <1>25 DEF vars
<1> HIDE DEF TypeOK, AboutOrders, HoldersHave, OneHolder, WithinDemand, PastMoving, GoodsLeaveTheirOutlet, Holder, Has, rows
<1> QED
  BY <1>1, <1>2, <1>3, <1>4, <1>5, <1>6, <1>7, <1>8, <1>9, <1>10, <1>11, <1>12, <1>13,
     <1>14, <1>15, <1>16, <1>17, <1>18, <1>19, <1>20, <1>21, <1>22, <1>23, <1>24,
     <1>25 DEF Next

\* The inductive invariant holds in every reachable state.
LEMMA Invariance == Spec => []IInv
<1>1. Init => IInv
  <2> USE DEF Init, Idle, TypeOK, AboutOrders, Holder
  <2>1. Init => TypeOK /\ AboutOrders
    BY DEF OrderStatuses, PaymentStatuses, PointStatuses, Kinds
  <2>2. Init => HoldersHave /\ OneHolder /\ PastMoving
    BY DEF HoldersHave, OneHolder, PastMoving
  <2>3. Init => WithinDemand
    BY CollectionAssumption DEF WithinDemand
  <2>4. Init => /\ CollectedIsShipped /\ CancelledTogether
                /\ GoodsLeaveTheirOutlet /\ PaidIsConfirmed
    BY DEF CollectedIsShipped, CancelledTogether, GoodsLeaveTheirOutlet, PaidIsConfirmed
  <2> QED
    BY <2>1, <2>2, <2>3, <2>4 DEF IInv
<1>2. IInv /\ [Next]_vars => IInv'
  BY TypeStep, HolderStep, WithinStep, PaidStep, CollectedStep, CancelledStep, OutletStep DEF IInv
<1> QED
  BY <1>1, <1>2, PTL DEF Spec

\* Rows and requests keep their types.
THEOREM TypeCorrect == Spec => []TypeOK
<1>1. IInv => TypeOK
  BY DEF IInv
<1> QED
  BY <1>1, Invariance, PTL

\* A collected order has shipped whole, unless its collection is under way or died, or a
\* cancellation put its status back.
THEOREM CollectionsShip == Spec => []CollectedIsShipped
<1>1. IInv => CollectedIsShipped
  BY DEF IInv
<1> QED
  BY <1>1, Invariance, PTL

\* A cancelled collection has its order cancelled, with exceptions of the same kind.
THEOREM CancellationsMeet == Spec => []CancelledTogether
<1>1. IInv => CancelledTogether
  BY DEF IInv
<1> QED
  BY <1>1, Invariance, PTL

\* Goods leave the stock of the outlet the order is assigned to, at any time after.
THEOREM OutletsShipTheirOwn == Spec => []GoodsLeaveTheirOutlet
<1>1. IInv => GoodsLeaveTheirOutlet
  BY DEF IInv
<1> QED
  BY <1>1, Invariance, PTL

\* A recorded payment's order is confirmed unless the callback is at it or died.
THEOREM PaymentsConfirm == Spec => []PaidIsConfirmed
<1>1. IInv => PaidIsConfirmed
  BY DEF IInv
<1> QED
  BY <1>1, Invariance, PTL
=============================================================================
