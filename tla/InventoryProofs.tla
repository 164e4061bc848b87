---------------------------- MODULE InventoryProofs ----------------------------
(***************************************************************************)
(* Proofs about the two modules of the stock rows, Receiving and Stock,    *)
(* for any documents, rows, quantities and number of overlapping requests. *)
(* Of Receiving, a first invariant settles the types, the order's lock and *)
(* what is decided under it; a second one, Books, relates the rows to the  *)
(* sums over receipts and returns.  Of Stock, in the second half, one      *)
(* invariant, StockInv, does both.                                         *)
(***************************************************************************)
EXTENDS Receiving, Stock, FiniteSetTheorems, TLAPS

\* A transaction is a record of its fields.
Transactions ==
  [doc : Receipts \cup Returns \cup {None}, portion : [Products -> Nat],
   outcome : {"NONE"} \cup Received, claimed : BOOLEAN, todo : SUBSET Products,
   at : Products \cup {None}, seen : [Products -> Nat], basis : [Products -> Nat]]

\* No more goes back of a receipt than was accepted, unless two of its returns overlapped:
\* the first half of ReturnedWithinAccepted.
ReturnsFit ==
  \A g \in Receipts, p \in Products :
    <<g, "returned">> \notin raced => returned[g][p] <= Accepted(g, p)

\* The status of an order says whether anything was received, unless an edit that had checked
\* it before a receipt writes it after: the second half of StatusTellsReceipts.
StatusSaysReceived ==
  \A o \in Orders :
    <<o, "status">> \notin raced => (status[o] \in Received <=> ReceiptsOf(o) # {})

\* All that claims to replace goods rejected on g is recorded against the order of g.
WithinOrder(g) == \A h \in Receipts : Replaces[h] = g => OrderOf[h] = OrderOf[g]

\* A receipt that holds its order still fits what it replaces; a return fits the returned
\* quantities it has read.
RequestOK(r) ==
  LET x == request[r].doc
  IN  /\ x \in Receipts \cup Returns
      /\ x \in Receipts => request[r].outcome \in Received
      /\ request[r].claimed =>
           /\ x \in Receipts
           /\ Replaces[x] # None /\ WithinOrder(Replaces[x]) =>
                \A p \in Products : replaced[Replaces[x]][p] + Delivered[x][p] <= Rejected[Replaces[x]][p]
      /\ x \in Returns =>
           \A p \in Products : Quantity[x][p] <= Accepted(ReceiptOf[x], p) - request[r].basis[p]
RequestsOK == \A r \in Requests : Busy(r) => RequestOK(r)

\* A row lock has one holder.
OneHolder ==
  \A r, s \in Requests :
    request[r].claimed /\ request[s].claimed /\ OrderOf[request[r].doc] = OrderOf[request[s].doc] => r = s

\* An edit that is still to write has checked an order nothing was received for, or is known.
EditsOK ==
  \A o \in Orders : edit[o] # None /\ <<o, "status">> \notin raced => ReceiptsOf(o) = {}

IInv ==
  /\ TypeOK /\ ReplacedWithinRejected /\ ReturnsFit /\ StatusSaysReceived
  /\ RequestsOK /\ OneHolder /\ EditsOK

\* The products of which receipt g brings goods into the stock.
Entering(g) == {p \in Products : Accepted(g, p) > 0}

\* What a receipt in flight has settled fits the totals it read, and the order is complete
\* with it if it says so, as the totals only grow.  It has the stock rows it wrote to itself
\* until it commits: they still hold what it read, but for a race when it wrote.
ReceiptDraft(r) ==
  LET g == request[r].doc
      q == request[r]
  IN  /\ \A p \in Products :
           /\ q.portion[p] <= Accepted(g, p)
           /\ q.portion[p] <= Positive(Ordered[OrderOf[g]][p] - q.basis[p])
      /\ q.outcome = "RECEIVED" => FullyDelivered(g)
      /\ q.todo \subseteq Entering(g) /\ (~q.claimed => q.todo = Entering(g))
      /\ q.at # None => q.claimed /\ q.at \in q.todo
      /\ \A p \in Written(r) : <<p, "stock">> \notin raced => q.seen[p] = onHand[p]

\* The excess part of a return in flight still fits unless its receipt's returned quantities
\* have moved; a return that commits without moving them takes no excess either.
ReturnDraft(r) ==
  LET s == request[r].doc
      g == ReceiptOf[s]
      q == request[r]
  IN  /\ g \in receipts /\ q.at = None
      /\ \A p \in Products : q.basis[p] <= returned[g][p] /\ q.portion[p] <= Quantity[s][p]
      /\ q.basis = returned[g] =>
           \A p \in Products :
             q.portion[p] <= Positive(Accepted(g, p) - payable[g][p] - excess[g][p])

Drafts ==
  \A r \in Requests : Busy(r) =>
    /\ request[r].doc \in Receipts => ReceiptDraft(r)
    /\ request[r].doc \in Returns => ReturnDraft(r)

\* A stock row that is written and not committed has one writer.
WrittenOnce == \A r, s \in Requests : r # s => Written(r) \cap Written(s) = {}

\* The first half of StatusTellsReceipts.
ReceivedIsEarned ==
  \A o \in Orders : status[o] = "RECEIVED" =>
    \A p \in Products : PriorDelivered(o, p) >= Ordered[o][p]

\* The second half of ReturnedWithinAccepted, and nothing goes back before it has come.
ExcessFits ==
  \A g \in Receipts, p \in Products :
    /\ payable[g][p] <= Accepted(g, p)
    /\ g \notin receipts => excess[g][p] = 0
    /\ <<g, "returned">> \notin raced => excess[g][p] <= Accepted(g, p) - payable[g][p]

Books ==
  /\ Drafts /\ WrittenOnce /\ StockFollowsDocuments /\ PayableWithinOrder
  /\ ReceivedIsEarned /\ ExcessFits

-----------------------------------------------------------------------------
(* The laws of sums *)

\* An element with n units has a finite number of them, namely n.
LEMMA UnitsOfOne ==
  ASSUME NEW x, NEW n \in Nat
  PROVE  IsFiniteSet({x} \X (1 .. n)) /\ Cardinality({x} \X (1 .. n)) = n
<1>1. IsFiniteSet(1 .. n) /\ Cardinality(1 .. n) = n
  <2>1. IsFiniteSet(1 .. n) /\ Cardinality(1 .. n) = IF 1 > n THEN 0 ELSE n - 1 + 1
    BY FS_Interval
  <2> QED BY <2>1
<1>2. IsFiniteSet({x}) /\ Cardinality({x}) = 1
  BY FS_Singleton
<1>3. /\ IsFiniteSet({x} \X (1 .. n))
      /\ Cardinality({x} \X (1 .. n)) = Cardinality({x}) * Cardinality(1 .. n)
  BY <1>1, <1>2, FS_Product
<1> QED BY <1>1, <1>2, <1>3

\* The sum of finitely many natural numbers is one.
LEMMA SumType ==
  ASSUME NEW S, IsFiniteSet(S), NEW f, \A x \in S : f[x] \in Nat
  PROVE  IsFiniteSet(Units(f, S)) /\ Sum(f, S) \in Nat
<1> DEFINE part == [x \in S |-> {x} \X (1 .. f[x])]
           parts == {{x} \X (1 .. f[x]) : x \in S}
<1>1. part \in Surjection(S, parts)
  BY DEF Surjection
<1>2. IsFiniteSet(parts)
  BY <1>1, FS_Surjection
<1>3. ASSUME NEW x \in S PROVE IsFiniteSet({x} \X (1 .. f[x]))
  BY UnitsOfOne
<1>4. IsFiniteSet(UNION parts)
  BY <1>2, <1>3, FS_UNION
<1> QED BY <1>4, FS_CardinalityType DEF Units, Sum

LEMMA SumEmpty == \A f : Sum(f, {}) = 0
BY FS_EmptySet DEF Sum, Units

\* One more element adds its term.
LEMMA SumAdd ==
  ASSUME NEW S, IsFiniteSet(S), NEW x, x \notin S, NEW f, \A y \in S \cup {x} : f[y] \in Nat
  PROVE  Sum(f, S \cup {x}) = Sum(f, S) + f[x]
<1> DEFINE one == {x} \X (1 .. f[x])
<1>1. Units(f, S \cup {x}) = Units(f, S) \cup one /\ Units(f, S) \cap one = {}
  BY DEF Units
<1>2. IsFiniteSet(one) /\ Cardinality(one) = f[x] /\ f[x] \in Nat
  BY UnitsOfOne
<1>3. IsFiniteSet(Units(f, S)) /\ Cardinality(Units(f, S)) \in Nat
  BY SumType DEF Sum
<1> HIDE DEF one
<1>4. Cardinality(Units(f, S) \cup one) =
        Cardinality(Units(f, S)) + Cardinality(one) - Cardinality(Units(f, S) \cap one)
  BY <1>2, <1>3, FS_Union
<1>5. Cardinality(Units(f, S) \cap one) = 0
  BY <1>1, FS_EmptySet
<1>6. Cardinality(Units(f, S) \cup one) = Cardinality(Units(f, S)) + f[x]
  BY <1>2, <1>3, <1>4, <1>5
<1> QED BY <1>1, <1>6 DEF Sum

\* A sum grows with its terms and with their number.
LEMMA SumMonotone ==
  ASSUME NEW T, IsFiniteSet(T), NEW S \in SUBSET T, NEW f, NEW h,
         \A x \in T : h[x] \in Nat, \A x \in S : f[x] \in Nat /\ f[x] <= h[x]
  PROVE  Sum(f, S) <= Sum(h, T)
<1>1. Units(f, S) \subseteq Units(h, T)
  BY DEF Units
<1> QED BY <1>1, SumType, FS_Subset DEF Sum

\* A sum depends on its terms only.
LEMMA SumEqual ==
  ASSUME NEW S, NEW f, NEW h, \A x \in S : f[x] = h[x]
  PROVE  Sum(f, S) = Sum(h, S)
<1>1. Units(f, S) = Units(h, S)
  BY DEF Units
<1> QED BY <1>1 DEF Sum

\* The sum over a set that may have gained x.
LEMMA SumGains ==
  ASSUME NEW S, IsFiniteSet(S), NEW x, x \notin S, NEW T, T \ {x} = S,
         NEW f, \A y \in S \cup {x} : f[y] \in Nat
  PROVE  Sum(f, T) = Sum(f, S) + IF x \in T THEN f[x] ELSE 0
<1>1. CASE x \in T
  <2>1. T = S \cup {x}
    BY <1>1
  <2>2. Sum(f, S \cup {x}) = Sum(f, S) + f[x]
    BY SumAdd
  <2> QED BY <1>1, <2>1, <2>2
<1>2. CASE x \notin T
  <2>1. T = S /\ Sum(f, S) \in Nat
    BY <1>2, SumType
  <2> QED BY <1>2, <2>1
<1> QED BY <1>1, <1>2

-----------------------------------------------------------------------------
LEMMA Shapes ==
  /\ \A g \in Receipts, p \in Products :
       /\ Delivered[g][p] \in Nat /\ Rejected[g][p] \in Nat
       /\ Accepted(g, p) \in Nat
  /\ \A g \in Receipts : OrderOf[g] \in Orders /\ Replaces[g] \in Receipts \cup {None}
  /\ \A s \in Returns : ReceiptOf[s] \in Receipts /\ \A p \in Products : Quantity[s][p] \in Nat
  /\ Receipts \cap Returns = {}
  /\ None \notin Receipts /\ None \notin Returns /\ None \notin Products
<1>1. \A g \in Receipts, p \in Products :
        Delivered[g][p] \in Nat /\ Rejected[g][p] \in Nat /\ Rejected[g][p] <= Delivered[g][p]
  BY ReceivingAssumption
<1> QED BY <1>1, ReceivingAssumption DEF Accepted

LEMMA IdleTyped ==
  /\ Idle \in Transactions /\ Idle.doc = None /\ Idle.claimed = FALSE
  /\ Idle.todo = {} /\ Idle.at = None
BY DEF Transactions, Idle, Transaction, Zero

LEMMA TransactionTyped ==
  ASSUME NEW x \in Receipts \cup Returns, NEW portion \in [Products -> Nat],
         NEW outcome \in {"NONE"} \cup Received,
         NEW todo \in SUBSET Products, NEW basis \in [Products -> Nat]
  PROVE  LET q == Transaction(x, portion, outcome, todo, basis)
         IN  /\ q \in Transactions /\ q.doc = x /\ q.outcome = outcome /\ ~q.claimed
             /\ q.basis = basis /\ q.portion = portion /\ q.todo = todo /\ q.at = None
  BY DEF Transactions, Transaction, Zero

\* Writing one slot.
LEMMA OneSlot ==
  ASSUME TypeOK, NEW r \in Requests, NEW q \in Transactions, request' = [request EXCEPT ![r] = q]
  PROVE  /\ request'[r] = q /\ \A s \in Requests \ {r} : request'[s] = request[s]
         /\ request' \in [Requests -> Transactions]
<1>1. request \in [Requests -> Transactions]
  BY DEF TypeOK, Transactions
<1> QED BY <1>1

\* What is computed from the totals is a quantity.
LEMMA TotalsTyped ==
  ASSUME TypeOK
  PROVE  /\ IsFiniteSet(receipts) /\ IsFiniteSet(returns)
         /\ \A o \in Orders : IsFiniteSet(ReceiptsOf(o)) /\ ReceiptsOf(o) \subseteq Receipts
         /\ \A o \in Orders, p \in Products :
              PriorDelivered(o, p) \in Nat /\ PriorPayable(o, p) \in Nat
         /\ \A g \in Receipts, p \in Products : PayablePortion(g, p) \in Nat
         /\ \A s \in Returns, p \in Products : ExcessPortion(s, p) \in Nat
<1>1. /\ IsFiniteSet(receipts) /\ IsFiniteSet(returns)
      /\ \A o \in Orders : IsFiniteSet(ReceiptsOf(o)) /\ ReceiptsOf(o) \subseteq Receipts
  BY ReceivingAssumption, FS_Subset DEF TypeOK, ReceiptsOf
<1>2. ASSUME NEW o \in Orders, NEW p \in Products
      PROVE  PriorDelivered(o, p) \in Nat /\ PriorPayable(o, p) \in Nat
  <2> DEFINE f == [g \in Receipts |-> Delivered[g][p]]
             h == [g \in Receipts |-> payable[g][p]]
  <2>1. \A g \in ReceiptsOf(o) : f[g] \in Nat /\ h[g] \in Nat
    BY <1>1, Shapes DEF TypeOK
  <2> HIDE DEF f, h
  <2>2. Sum(f, ReceiptsOf(o)) \in Nat /\ Sum(h, ReceiptsOf(o)) \in Nat
    BY <1>1, <2>1, SumType
  <2> QED BY <2>2 DEF f, h, PriorDelivered, PriorPayable
<1>3. ASSUME NEW g \in Receipts, NEW p \in Products PROVE PayablePortion(g, p) \in Nat
  <2>1. OrderOf[g] \in Orders /\ Ordered[OrderOf[g]][p] \in Nat
    BY ReceivingAssumption
  <2> QED BY <2>1, <1>2, Shapes DEF PayablePortion, Least, Positive
<1>4. ASSUME NEW s \in Returns, NEW p \in Products PROVE ExcessPortion(s, p) \in Nat
  <2>1. /\ ReceiptOf[s] \in Receipts /\ Quantity[s][p] \in Nat /\ Accepted(ReceiptOf[s], p) \in Nat
        /\ payable[ReceiptOf[s]][p] \in Nat /\ excess[ReceiptOf[s]][p] \in Nat
    BY Shapes DEF TypeOK
  <2> QED BY <2>1 DEF ExcessPortion, Least, Positive
<1> QED BY <1>1, <1>2, <1>3, <1>4

-----------------------------------------------------------------------------
(* What each step does to its slot *)

LEMMA OpenReceiptEffect ==
  ASSUME TypeOK, NEW r \in Requests, NEW g \in Receipts, OpenReceipt(r, g)
  PROVE  /\ request' \in [Requests -> Transactions]
         /\ \A s \in Requests \ {r} : request'[s] = request[s]
         /\ UNCHANGED <<status, docVars, onHand, edit, raced>>
         /\ request'[r].doc = g /\ ~request'[r].claimed /\ request'[r].at = None
         /\ request'[r].todo = Entering(g)
         /\ request'[r].outcome \in Received
         /\ request'[r].outcome = "RECEIVED" => FullyDelivered(g)
         /\ \A p \in Products : /\ request'[r].portion[p] = PayablePortion(g, p)
                                /\ request'[r].basis[p] = PriorPayable(OrderOf[g], p)
<1> DEFINE portion == [p \in Products |-> PayablePortion(g, p)]
           outcome == IF FullyDelivered(g) THEN "RECEIVED" ELSE "PARTIALLY_RECEIVED"
           basis == [p \in Products |-> PriorPayable(OrderOf[g], p)]
           q == Transaction(g, portion, outcome, Entering(g), basis)
<1>1. /\ request' = [request EXCEPT ![r] = q]
      /\ UNCHANGED <<status, docVars, onHand, edit, raced>>
  BY DEF OpenReceipt, Entering
<1>2. /\ outcome \in Received /\ outcome \in {"NONE"} \cup Received
      /\ outcome = "RECEIVED" => FullyDelivered(g)
  BY DEF Received
<1>3. /\ portion \in [Products -> Nat] /\ basis \in [Products -> Nat]
      /\ Entering(g) \in SUBSET Products /\ g \in Receipts \cup Returns
      /\ \A p \in Products : portion[p] = PayablePortion(g, p) /\ basis[p] = PriorPayable(OrderOf[g], p)
  <2>1. OrderOf[g] \in Orders
    BY Shapes
  <2> QED BY <2>1, TotalsTyped DEF Entering
<1> HIDE DEF portion, outcome, basis
<1>4. /\ q \in Transactions /\ q.doc = g /\ q.outcome = outcome /\ ~q.claimed
      /\ q.basis = basis /\ q.portion = portion /\ q.todo = Entering(g) /\ q.at = None
  BY <1>2, <1>3, TransactionTyped
<1> HIDE DEF q
<1> QED BY <1>1, <1>2, <1>3, <1>4, OneSlot

LEMMA OpenReturnEffect ==
  ASSUME TypeOK, NEW r \in Requests, NEW s \in Returns, OpenReturn(r, s)
  PROVE  /\ request' \in [Requests -> Transactions]
         /\ \A x \in Requests \ {r} : request'[x] = request[x]
         /\ UNCHANGED <<status, docVars, onHand, edit, raced>>
         /\ request'[r].doc = s /\ ~request'[r].claimed /\ request'[r].at = None
         /\ request'[r].basis = returned[ReceiptOf[s]]
         /\ \A p \in Products : request'[r].portion[p] = ExcessPortion(s, p)
<1> DEFINE portion == [p \in Products |-> ExcessPortion(s, p)]
           q == Transaction(s, portion, "NONE", {}, returned[ReceiptOf[s]])
<1>1. /\ request' = [request EXCEPT ![r] = q]
      /\ UNCHANGED <<status, docVars, onHand, edit, raced>>
  BY DEF OpenReturn
<1>2. /\ portion \in [Products -> Nat] /\ returned[ReceiptOf[s]] \in [Products -> Nat]
      /\ s \in Receipts \cup Returns
      /\ \A p \in Products : portion[p] = ExcessPortion(s, p)
  BY TotalsTyped, Shapes DEF TypeOK
<1> HIDE DEF portion
<1>3. /\ q \in Transactions /\ q.doc = s /\ ~q.claimed
      /\ q.basis = returned[ReceiptOf[s]] /\ q.portion = portion /\ q.at = None
  BY <1>2, TransactionTyped
<1> HIDE DEF q
<1> QED BY <1>1, <1>2, <1>3, OneSlot

\* The fields that no step but the opening one writes.
SameDraft(r) ==
  /\ request'[r].doc = request[r].doc /\ request'[r].portion = request[r].portion
  /\ request'[r].outcome = request[r].outcome /\ request'[r].basis = request[r].basis

LEMMA ClaimEffect ==
  ASSUME TypeOK, NEW r \in Requests, ClaimOrder(r)
  PROVE  /\ request' \in [Requests -> Transactions]
         /\ \A s \in Requests \ {r} : request'[s] = request[s]
         /\ UNCHANGED <<status, docVars, onHand, edit, raced>>
         /\ SameDraft(r) /\ request'[r].claimed
         /\ request'[r].todo = request[r].todo /\ request'[r].at = request[r].at
<1> DEFINE q == [request[r] EXCEPT !.claimed = TRUE]
<1>1. request[r] \in Transactions
  BY DEF TypeOK, Transactions
<1>2. /\ request' = [request EXCEPT ![r] = q]
      /\ UNCHANGED <<status, docVars, onHand, edit, raced>>
  BY DEF ClaimOrder
<1>3. /\ q \in Transactions /\ q.doc = request[r].doc /\ q.portion = request[r].portion
      /\ q.outcome = request[r].outcome /\ q.basis = request[r].basis /\ q.claimed
      /\ q.todo = request[r].todo /\ q.at = request[r].at
  BY <1>1 DEF Transactions
<1> HIDE DEF q
<1> QED BY <1>2, <1>3, OneSlot DEF SameDraft

LEMMA ReadEffect ==
  ASSUME TypeOK, NEW r \in Requests, NEW p \in Products, ReadStock(r, p)
  PROVE  /\ request' \in [Requests -> Transactions]
         /\ \A s \in Requests \ {r} : request'[s] = request[s]
         /\ UNCHANGED <<status, docVars, onHand, edit, raced>>
         /\ SameDraft(r) /\ request'[r].claimed = request[r].claimed
         /\ request'[r].todo = request[r].todo /\ request'[r].at = p
         /\ \A x \in Products \ {p} : request'[r].seen[x] = request[r].seen[x]
<1> DEFINE new == [request[r].seen EXCEPT ![p] = onHand[p]]
           q == [request[r] EXCEPT !.at = p, !.seen = new]
<1>1. request[r] \in Transactions /\ onHand[p] \in Nat
  BY DEF TypeOK, Transactions
<1>2. /\ request' = [request EXCEPT ![r] = q]
      /\ UNCHANGED <<status, docVars, onHand, edit, raced>>
  BY <1>1 DEF ReadStock, Transactions
<1>3. new \in [Products -> Nat] /\ \A x \in Products \ {p} : new[x] = request[r].seen[x]
  BY <1>1 DEF Transactions
<1> HIDE DEF new
<1>4. /\ q \in Transactions /\ q.doc = request[r].doc /\ q.portion = request[r].portion
      /\ q.outcome = request[r].outcome /\ q.basis = request[r].basis
      /\ q.claimed = request[r].claimed
      /\ q.todo = request[r].todo /\ q.at = p /\ q.seen = new
  BY <1>1, <1>3 DEF Transactions
<1> HIDE DEF q
<1> QED BY <1>2, <1>3, <1>4, OneSlot DEF SameDraft

LEMMA WriteEffect ==
  ASSUME TypeOK, NEW r \in Requests, WriteStock(r)
  PROVE  /\ request' \in [Requests -> Transactions]
         /\ \A s \in Requests \ {r} : request'[s] = request[s]
         /\ UNCHANGED <<status, docVars, onHand, edit>>
         /\ raced' = IF request[r].seen[request[r].at] = onHand[request[r].at]
                     THEN raced ELSE raced \cup {<<request[r].at, "stock">>}
         /\ SameDraft(r) /\ request'[r].claimed = request[r].claimed
         /\ request'[r].todo = request[r].todo \ {request[r].at} /\ request'[r].at = None
         /\ request'[r].seen = request[r].seen
<1> DEFINE new == request[r].todo \ {request[r].at}
           q == [request[r] EXCEPT !.at = None, !.todo = new]
<1>1. request[r] \in Transactions
  BY DEF TypeOK, Transactions
<1>2. /\ request' = [request EXCEPT ![r] = q]
      /\ UNCHANGED <<status, docVars, onHand, edit>>
      /\ raced' = IF request[r].seen[request[r].at] = onHand[request[r].at]
                  THEN raced ELSE raced \cup {<<request[r].at, "stock">>}
  BY <1>1 DEF WriteStock, Transactions
<1>3. new \in SUBSET Products
  BY <1>1 DEF Transactions
<1> HIDE DEF new
<1>4. /\ q \in Transactions /\ q.doc = request[r].doc /\ q.portion = request[r].portion
      /\ q.outcome = request[r].outcome /\ q.basis = request[r].basis
      /\ q.claimed = request[r].claimed
      /\ q.todo = new /\ q.at = None /\ q.seen = request[r].seen
  BY <1>1, <1>3 DEF Transactions
<1> HIDE DEF q
<1> QED BY <1>2, <1>4, OneSlot DEF SameDraft, new

-----------------------------------------------------------------------------
(* Types, locks and what is decided under them *)

LEMMA Initially == Init => IInv
<1> SUFFICES ASSUME Init PROVE IInv
  OBVIOUS
<1> USE DEF Init
<1>1. \A r \in Requests : request[r] = Idle
  OBVIOUS
<1>2. TypeOK
  <2>1. request \in [Requests -> Transactions]
    BY IdleTyped
  <2>2. Zero \in [Products -> Nat]
    BY DEF Zero
  <2>3. Opening \in [Products -> Nat]
    BY ReceivingAssumption
  <2> QED BY <2>1, <2>2, <2>3 DEF TypeOK, OrderStatuses, Transactions
<1>3. ReplacedWithinRejected /\ ReturnsFit
  BY Shapes DEF ReplacedWithinRejected, ReturnsFit, Zero
<1>4. StatusSaysReceived /\ EditsOK
  BY DEF StatusSaysReceived, EditsOK, ReceiptsOf, Received
<1>5. RequestsOK /\ OneHolder
  BY <1>1, IdleTyped DEF RequestsOK, Busy, OneHolder
<1> QED BY <1>2, <1>3, <1>4, <1>5 DEF IInv

\* A step that writes one slot and no row the others rely on.
LEMMA SlotStep ==
  ASSUME IInv, NEW r \in Requests, request' \in [Requests -> Transactions],
         \A s \in Requests \ {r} : request'[s] = request[s],
         UNCHANGED <<status, docVars, onHand, edit>>,
         raced \subseteq raced', \A o \in Orders : <<o, "status">> \in raced' => <<o, "status">> \in raced,
         request'[r] = Idle \/ RequestOK(r)',
         request'[r].claimed => \A s \in Requests \ {r} :
           ~(request[s].claimed /\ OrderOf[request[s].doc] = OrderOf[request'[r].doc])
  PROVE  IInv'
<1> USE DEF IInv, docVars
<1>1. TypeOK'
  BY DEF TypeOK, Transactions
<1>2. ReplacedWithinRejected' /\ ReturnsFit'
  BY DEF ReplacedWithinRejected, ReturnsFit, Accepted
<1>3. StatusSaysReceived' /\ EditsOK'
  BY DEF StatusSaysReceived, EditsOK, ReceiptsOf
<1>4. ASSUME NEW s \in Requests, Busy(s)' PROVE RequestOK(s)'
  <2>1. CASE s = r
    BY <2>1, <1>4 DEF Busy
  <2>2. CASE s # r
    <3>1. request'[s] = request[s] /\ RequestOK(s)
      BY <2>2, <1>4 DEF RequestsOK, Busy
    <3> QED BY <3>1 DEF RequestOK, Accepted, WithinOrder
  <2> QED BY <2>1, <2>2
<1>5. OneHolder'
  BY DEF OneHolder
<1> QED BY <1>1, <1>2, <1>3, <1>4, <1>5 DEF RequestsOK

LEMMA OpenReceiptStep ==
  ASSUME IInv, NEW r \in Requests, NEW g \in Receipts, OpenReceipt(r, g)
  PROVE  IInv'
<1>1. RequestOK(r)'
  BY OpenReceiptEffect, Shapes DEF IInv, RequestOK
<1> QED BY <1>1, OpenReceiptEffect, SlotStep DEF IInv

LEMMA OpenReturnStep ==
  ASSUME IInv, NEW r \in Requests, NEW s \in Returns, OpenReturn(r, s)
  PROVE  IInv'
<1>1. \A p \in Products : Quantity[s][p] <= Accepted(ReceiptOf[s], p) - returned[ReceiptOf[s]][p]
  BY DEF OpenReturn, Remaining
<1>2. s \in Returns /\ s \notin Receipts
  BY Shapes
<1>3. RequestOK(r)'
  BY <1>1, <1>2, OpenReturnEffect DEF IInv, RequestOK, Accepted
<1> QED BY <1>3, OpenReturnEffect, SlotStep DEF IInv

LEMMA ClaimStep ==
  ASSUME IInv, NEW r \in Requests, ClaimOrder(r)
  PROVE  IInv'
<1> DEFINE g == request[r].doc
<1>1. Busy(r) /\ g \in Receipts /\ RequestOK(r)
  BY DEF ClaimOrder, IInv, RequestsOK
<1>2. /\ request'[r].doc = g /\ request'[r].outcome = request[r].outcome /\ replaced' = replaced
  BY ClaimEffect DEF IInv, SameDraft, docVars
<1>3. Replaces[g] # None =>
        \A p \in Products : replaced[Replaces[g]][p] + Delivered[g][p] <= Rejected[Replaces[g]][p]
  <2> SUFFICES ASSUME Replaces[g] # None, NEW p \in Products
               PROVE  replaced[Replaces[g]][p] + Delivered[g][p] <= Rejected[Replaces[g]][p]
    OBVIOUS
  <2>1. Replaces[g] \in Receipts /\ Delivered[g][p] \in Nat /\ Rejected[Replaces[g]][p] \in Nat
    BY <1>1, Shapes
  <2>2. replaced[Replaces[g]][p] \in Nat
    BY <2>1 DEF IInv, TypeOK
  <2>3. Delivered[g][p] <= Rejected[Replaces[g]][p] - replaced[Replaces[g]][p]
    BY DEF ClaimOrder, Replaceable
  <2> QED BY <2>1, <2>2, <2>3
<1>4. RequestOK(r)'
  BY <1>1, <1>2, <1>3, Shapes DEF RequestOK
<1>5. \A s \in Requests \ {r} : ~(request[s].claimed /\ OrderOf[request[s].doc] = OrderOf[g])
  BY DEF ClaimOrder, OrderLocked
<1> QED BY <1>2, <1>4, <1>5, ClaimEffect, SlotStep DEF IInv

\* The steps on a stock row change fields nothing here depends on.
LEMMA StockStep ==
  ASSUME IInv, NEW r \in Requests, (\E p \in Products : ReadStock(r, p)) \/ WriteStock(r)
  PROVE  IInv'
<1>1. Busy(r) /\ RequestOK(r)
  BY DEF ReadStock, WriteStock, IInv, RequestsOK
<1>2. /\ request' \in [Requests -> Transactions]
      /\ \A s \in Requests \ {r} : request'[s] = request[s]
      /\ UNCHANGED <<status, docVars, onHand, edit>>
      /\ SameDraft(r) /\ request'[r].claimed = request[r].claimed
      /\ raced \subseteq raced' /\ \A o \in Orders : <<o, "status">> \in raced' => <<o, "status">> \in raced
  BY ReadEffect, WriteEffect DEF IInv
<1>3. RequestOK(r)'
  BY <1>1, <1>2 DEF RequestOK, Accepted, WithinOrder, SameDraft, docVars
<1>4. request'[r].claimed => \A s \in Requests \ {r} :
        ~(request[s].claimed /\ OrderOf[request[s].doc] = OrderOf[request'[r].doc])
  BY <1>2 DEF IInv, OneHolder, SameDraft
<1> QED BY <1>2, <1>3, <1>4, SlotStep

\* What a receipt's commit writes.
LEMMA ReceiptEffect ==
  ASSUME IInv, NEW r \in Requests, CommitReceipt(r)
  PROVE  LET g == request[r].doc
             o == OrderOf[g]
         IN  /\ g \in Receipts /\ g \notin receipts /\ request[r].claimed
             /\ request' = [request EXCEPT ![r] = Idle]
             /\ status' = [status EXCEPT ![o] = request[r].outcome] /\ receipts' = receipts \cup {g}
             /\ UNCHANGED <<returned, excess, returns, edit>>
             /\ payable' \in [Receipts -> [Products -> Nat]] /\ payable'[g] = request[r].portion
             /\ \A k \in Receipts \ {g} : payable'[k] = payable[k]
             /\ Written(r) = Entering(g) /\ onHand' \in [Products -> Nat]
             /\ \A p \in Products : onHand'[p] =
                  IF p \in Entering(g) THEN request[r].seen[p] + Accepted(g, p) ELSE onHand[p]
             /\ raced \subseteq raced'
             /\ \A k \in Orders : <<k, "payable">> \notin raced' /\ k = o =>
                  \A p \in Products : request[r].basis[p] = PriorPayable(k, p)
             /\ \A p \in Products : <<p, "stock">> \in raced' => <<p, "stock">> \in raced
             /\ \A k \in Receipts : <<k, "returned">> \in raced' => <<k, "returned">> \in raced
<1> DEFINE g == request[r].doc
           o == OrderOf[g]
           late == {<<o, "payable">> : p \in {q \in Products : request[r].basis[q] # PriorPayable(o, q)}}
                     \cup {<<o, "status">> : e \in {edit[o]} \ {None}}
<1>1. /\ g \in Receipts /\ request[r].claimed /\ request[r].todo = {} /\ g \notin receipts
      /\ request[r] \in Transactions
  BY Shapes DEF IInv, RequestsOK, RequestOK, CommitReceipt, TypeOK, Transactions
<1>2. /\ payable' = [payable EXCEPT ![g] = request[r].portion]
      /\ onHand' = [p \in Products |-> IF p \in Written(r) THEN StockOfReceipt(r, p) ELSE onHand[p]]
      /\ raced' = raced \cup late
      /\ request' = [request EXCEPT ![r] = Idle]
      /\ status' = [status EXCEPT ![o] = request[r].outcome] /\ receipts' = receipts \cup {g}
      /\ UNCHANGED <<returned, excess, returns, edit>>
  BY DEF CommitReceipt
<1>3. /\ payable \in [Receipts -> [Products -> Nat]] /\ onHand \in [Products -> Nat]
      /\ request[r].portion \in [Products -> Nat] /\ request[r].seen \in [Products -> Nat]
  BY <1>1 DEF IInv, TypeOK, Transactions
<1>4. /\ payable' \in [Receipts -> [Products -> Nat]] /\ payable'[g] = request[r].portion
      /\ \A k \in Receipts \ {g} : payable'[k] = payable[k]
  BY <1>1, <1>2, <1>3
<1>5. Written(r) = Entering(g)
  BY <1>1 DEF Written, Entering
<1>6. \A p \in Products : onHand'[p] =
        IF p \in Entering(g) THEN request[r].seen[p] + Accepted(g, p) ELSE onHand[p]
  BY <1>2, <1>5 DEF StockOfReceipt
<1>7. onHand' \in [Products -> Nat]
  <2>1. \A p \in Products : onHand'[p] \in Nat
    BY <1>1, <1>3, <1>6, Shapes
  <2> QED BY <2>1, <1>2
<1>8. /\ raced \subseteq raced' /\ \A k \in Orders : <<k, "payable">> \notin raced' /\ k = o =>
           \A p \in Products : request[r].basis[p] = PriorPayable(k, p)
      /\ \A p \in Products : <<p, "stock">> \in raced' => <<p, "stock">> \in raced
      /\ \A k \in Receipts : <<k, "returned">> \in raced' => <<k, "returned">> \in raced
  BY <1>2
<1> HIDE DEF late
<1> QED BY <1>1, <1>2, <1>4, <1>5, <1>6, <1>7, <1>8

LEMMA ReceiptStep ==
  ASSUME IInv, NEW r \in Requests, CommitReceipt(r)
  PROVE  IInv'
<1> DEFINE g == request[r].doc
           o == OrderOf[g]
           h == Replaces[g]
<1> USE DEF IInv
<1>1. Busy(r) /\ RequestOK(r) /\ request[r].claimed
  BY DEF CommitReceipt, RequestsOK
<1>2. g \in Receipts /\ o \in Orders /\ h \in Receipts \cup {None} /\ request[r].outcome \in Received
  BY <1>1, Shapes DEF RequestOK
<1>3. /\ status' = [status EXCEPT ![o] = request[r].outcome] /\ receipts' = receipts \cup {g}
      /\ replaced' = IF h = None THEN replaced
                     ELSE [replaced EXCEPT ![h] = [p \in Products |-> @[p] + Delivered[g][p]]]
      /\ raced' = raced \cup {<<o, "payable">> : p \in {q \in Products : request[r].basis[q] # PriorPayable(o, q)}}
                        \cup {<<o, "status">> : e \in {edit[o]} \ {None}}
      /\ request' = [request EXCEPT ![r] = Idle]
      /\ UNCHANGED <<returned, returns, edit>>
  BY DEF CommitReceipt
<1>4. /\ request'[r] = Idle /\ \A s \in Requests \ {r} : request'[s] = request[s]
      /\ request' \in [Requests -> Transactions]
  BY <1>3, IdleTyped, OneSlot
<1>5. /\ h = None => replaced' = replaced
      /\ h # None => /\ \A p \in Products : replaced'[h][p] = replaced[h][p] + Delivered[g][p]
                     /\ \A k \in Receipts \ {h} : replaced'[k] = replaced[k]
      /\ replaced' \in [Receipts -> [Products -> Nat]]
  <2>1. CASE h = None
    BY <2>1, <1>3 DEF TypeOK
  <2>2. CASE h # None
    <3> DEFINE new == [p \in Products |-> replaced[h][p] + Delivered[g][p]]
    <3>1. h \in Receipts /\ replaced \in [Receipts -> [Products -> Nat]]
      BY <2>2, <1>2 DEF TypeOK
    <3>2. new \in [Products -> Nat]
      BY <3>1, <1>2, Shapes
    <3>3. replaced' = [replaced EXCEPT ![h] = new]
      BY <2>2, <1>3
    <3> QED BY <2>2, <3>1, <3>2, <3>3
  <2> QED BY <2>1, <2>2
<1>6. TypeOK'
  <2>1. status' \in [Orders -> OrderStatuses] /\ receipts' \subseteq Receipts
    BY <1>2, <1>3 DEF TypeOK, Received, OrderStatuses
  <2>2. payable' \in [Receipts -> [Products -> Nat]] /\ onHand' \in [Products -> Nat]
        /\ excess' = excess
    BY ReceiptEffect
  <2> QED BY <2>1, <2>2, <1>3, <1>4, <1>5 DEF TypeOK, Transactions
<1>7. ReplacedWithinRejected'
  <2> SUFFICES ASSUME NEW k \in Receipts, NEW p \in Products,
                      \A j \in Receipts : Replaces[j] = k => OrderOf[j] = OrderOf[k]
               PROVE  replaced'[k][p] <= Rejected[k][p]
    BY DEF ReplacedWithinRejected
  <2>1. replaced[k][p] <= Rejected[k][p]
    BY DEF ReplacedWithinRejected
  <2>2. CASE h = k
    <3>1. h # None /\ WithinOrder(h)
      BY <2>2, Shapes DEF WithinOrder
    <3>2. replaced[h][p] + Delivered[g][p] <= Rejected[h][p]
      BY <3>1, <1>1 DEF RequestOK
    <3> QED BY <3>1, <3>2, <2>2, <1>5
  <2>3. CASE h # k
    BY <2>1, <2>3, <1>5
  <2> QED BY <2>2, <2>3
<1>8. ReturnsFit'
  <2>1. raced \subseteq raced'
    BY <1>3
  <2> QED BY <2>1, <1>3 DEF ReturnsFit, Accepted
<1>9. StatusSaysReceived' /\ EditsOK'
  <2> SUFFICES ASSUME NEW k \in Orders, <<k, "status">> \notin raced'
               PROVE  /\ status'[k] \in Received <=> ReceiptsOf(k)' # {}
                      /\ edit'[k] # None => ReceiptsOf(k)' = {}
    BY DEF StatusSaysReceived, EditsOK
  <2>1. <<k, "status">> \notin raced
    BY <1>3
  <2>2. CASE k = o
    <3>1. edit[k] = None
      <4>1. edit[o] # None => <<o, "status">> \in raced'
        BY <1>3
      <4> QED BY <4>1, <2>2
    <3>2. g \in ReceiptsOf(k)'
      BY <2>2, <1>2, <1>3 DEF ReceiptsOf
    <3>3. status'[k] \in Received
      BY <2>2, <1>2, <1>3 DEF TypeOK
    <3> QED BY <3>1, <3>2, <3>3, <1>3
  <2>3. CASE k # o
    <3>1. ReceiptsOf(k)' = ReceiptsOf(k)
      BY <2>3, <1>3 DEF ReceiptsOf
    <3>2. status'[k] = status[k]
      BY <2>3, <1>3 DEF TypeOK
    <3> QED BY <3>1, <3>2, <2>1, <1>3 DEF StatusSaysReceived, EditsOK
  <2> QED BY <2>2, <2>3
<1>10. ASSUME NEW s \in Requests, Busy(s)' PROVE RequestOK(s)'
  <2>1. s # r /\ request'[s] = request[s] /\ RequestOK(s)
    BY <1>4, <1>10 DEF RequestsOK, Busy
  <2> DEFINE x == request[s].doc
  <2>2. ASSUME request[s].claimed, Replaces[x] # None, WithinOrder(Replaces[x]), NEW p \in Products
        PROVE  replaced'[Replaces[x]][p] = replaced[Replaces[x]][p]
    <3>1. x \in Receipts /\ Replaces[x] \in Receipts
      BY <2>1, <2>2, Shapes DEF RequestOK
    <3>2. h # Replaces[x]
      <4>1. SUFFICES ASSUME h = Replaces[x] PROVE FALSE
        OBVIOUS
      <4>2. OrderOf[g] = OrderOf[x]
        BY <4>1, <3>1, <2>2, <1>2 DEF WithinOrder
      <4> QED BY <4>2, <2>1, <2>2, <1>1 DEF OneHolder
    <3> QED BY <3>1, <3>2, <1>5
  <2>3. request[s].claimed =>
          /\ x \in Receipts
          /\ Replaces[x] # None /\ WithinOrder(Replaces[x]) =>
               \A p \in Products : replaced'[Replaces[x]][p] + Delivered[x][p] <= Rejected[Replaces[x]][p]
    BY <2>1, <2>2 DEF RequestOK
  <2>4. /\ x \in Receipts \cup Returns /\ x \in Receipts => request[s].outcome \in Received
        /\ x \in Returns =>
             \A p \in Products : Quantity[x][p] <= Accepted(ReceiptOf[x], p) - request[s].basis[p]
    BY <2>1 DEF RequestOK
  <2> QED BY <2>1, <2>3, <2>4 DEF RequestOK, Accepted, WithinOrder
<1>11. OneHolder'
  BY <1>4, IdleTyped DEF OneHolder
<1> QED BY <1>6, <1>7, <1>8, <1>9, <1>10, <1>11 DEF RequestsOK

\* What a return's commit writes.
LEMMA ReturnEffect ==
  ASSUME IInv, NEW r \in Requests, CommitReturn(r)
  PROVE  LET s == request[r].doc
             g == ReceiptOf[s]
         IN  /\ s \in Returns /\ s \notin Receipts /\ s \notin returns /\ g \in Receipts
             /\ request' = [request EXCEPT ![r] = Idle] /\ returns' = returns \cup {s}
             /\ UNCHANGED <<status, receipts, payable, replaced, edit>>
             /\ raced' = IF request[r].basis = returned[g] THEN raced ELSE raced \cup {<<g, "returned">>}
             /\ onHand' \in [Products -> Nat]
             /\ \A p \in Products : onHand'[p] = onHand[p] - Quantity[s][p]
             /\ \A p \in Products : Quantity[s][p] > 0 => ~StockLocked(p)
             /\ returned' \in [Receipts -> [Products -> Nat]]
             /\ \A p \in Products : returned'[g][p] = returned[g][p] + Quantity[s][p]
             /\ \A k \in Receipts \ {g} : returned'[k] = returned[k]
             /\ excess' \in [Receipts -> [Products -> Nat]]
             /\ \A p \in Products : excess'[g][p] = excess[g][p] + request[r].portion[p]
             /\ \A k \in Receipts \ {g} : excess'[k] = excess[k]
<1> DEFINE s == request[r].doc
           g == ReceiptOf[s]
           back == [p \in Products |-> returned[g][p] + Quantity[s][p]]
           more == [p \in Products |-> excess[g][p] + request[r].portion[p]]
<1>1. /\ s \in Returns /\ s \notin Receipts /\ s \notin returns /\ g \in Receipts
      /\ request[r] \in Transactions
  BY Shapes DEF CommitReturn, IInv, TypeOK, Transactions
<1>2. /\ onHand' = [p \in Products |-> onHand[p] - Quantity[s][p]]
      /\ returned' = [returned EXCEPT ![g] = back] /\ excess' = [excess EXCEPT ![g] = more]
      /\ request' = [request EXCEPT ![r] = Idle] /\ returns' = returns \cup {s}
      /\ UNCHANGED <<status, receipts, payable, replaced, edit>>
      /\ raced' = IF request[r].basis = returned[g] THEN raced ELSE raced \cup {<<g, "returned">>}
  BY DEF CommitReturn
<1>3. /\ returned \in [Receipts -> [Products -> Nat]] /\ excess \in [Receipts -> [Products -> Nat]]
      /\ onHand \in [Products -> Nat] /\ request[r].portion \in [Products -> Nat]
      /\ \A p \in Products : Quantity[s][p] \in Nat
  BY <1>1, Shapes DEF IInv, TypeOK, Transactions
<1>4. /\ back \in [Products -> Nat] /\ \A p \in Products : back[p] = returned[g][p] + Quantity[s][p]
      /\ more \in [Products -> Nat]
      /\ \A p \in Products : more[p] = excess[g][p] + request[r].portion[p]
  BY <1>1, <1>3
<1>5. \A p \in Products : Quantity[s][p] > 0 => ~StockLocked(p) /\ Quantity[s][p] <= onHand[p]
  BY DEF CommitReturn, Available
<1>6. /\ onHand' \in [Products -> Nat]
      /\ \A p \in Products : onHand'[p] = onHand[p] - Quantity[s][p]
  <2>1. \A p \in Products : onHand'[p] = onHand[p] - Quantity[s][p]
    BY <1>2
  <2>2. \A p \in Products : onHand'[p] \in Nat
    BY <2>1, <1>3, <1>5
  <2> QED BY <2>1, <2>2, <1>2
<1> HIDE DEF back, more
<1>7. /\ returned' \in [Receipts -> [Products -> Nat]] /\ excess' \in [Receipts -> [Products -> Nat]]
      /\ returned'[g] = back /\ excess'[g] = more
      /\ \A k \in Receipts \ {g} : returned'[k] = returned[k] /\ excess'[k] = excess[k]
  BY <1>1, <1>2, <1>3, <1>4
<1> QED BY <1>1, <1>2, <1>4, <1>5, <1>6, <1>7

LEMMA ReturnStep ==
  ASSUME IInv, NEW r \in Requests, CommitReturn(r)
  PROVE  IInv'
<1> DEFINE x == request[r].doc
           g == ReceiptOf[x]
           new == [p \in Products |-> returned[g][p] + Quantity[x][p]]
<1> USE DEF IInv
<1>1. Busy(r) /\ RequestOK(r) /\ x \in Returns /\ x \notin Receipts /\ g \in Receipts
  BY Shapes DEF CommitReturn, RequestsOK
<1>2. /\ returned' = [returned EXCEPT ![g] = new] /\ returns' = returns \cup {x}
      /\ raced' = IF request[r].basis = returned[g] THEN raced ELSE raced \cup {<<g, "returned">>}
      /\ request' = [request EXCEPT ![r] = Idle]
      /\ UNCHANGED <<status, receipts, replaced, edit>>
  BY DEF CommitReturn
<1>3. /\ request'[r] = Idle /\ \A s \in Requests \ {r} : request'[s] = request[s]
      /\ request' \in [Requests -> Transactions]
  BY <1>2, IdleTyped, OneSlot
<1>4. new \in [Products -> Nat] /\ returned \in [Receipts -> [Products -> Nat]]
  BY <1>1, Shapes DEF TypeOK
<1>5. TypeOK'
  <2>1. payable' = payable /\ excess' \in [Receipts -> [Products -> Nat]] /\ onHand' \in [Products -> Nat]
    BY ReturnEffect
  <2> QED BY <2>1, <1>1, <1>2, <1>3, <1>4 DEF TypeOK, Transactions
<1>6. ReturnsFit'
  <2> SUFFICES ASSUME NEW k \in Receipts, NEW p \in Products, <<k, "returned">> \notin raced'
               PROVE  returned'[k][p] <= Accepted(k, p)
    BY DEF ReturnsFit, Accepted
  <2>1. <<k, "returned">> \notin raced
    BY <1>2
  <2>2. CASE k = g
    <3>1. request[r].basis = returned[g]
      BY <2>2, <1>2
    <3>2. Quantity[x][p] <= Accepted(g, p) - returned[g][p]
      BY <3>1, <1>1 DEF RequestOK
    <3>3. returned'[g][p] = returned[g][p] + Quantity[x][p]
      BY <1>1, <1>2, <1>4
    <3>4. Quantity[x][p] \in Nat /\ Accepted(g, p) \in Nat /\ returned[g][p] \in Nat
      BY <1>1, <1>4, Shapes
    <3> QED BY <3>2, <3>3, <3>4, <2>2
  <2>3. CASE k # g
    BY <2>1, <2>3, <1>2, <1>4 DEF ReturnsFit
  <2> QED BY <2>2, <2>3
<1>7. ReplacedWithinRejected'
  BY <1>2 DEF ReplacedWithinRejected
<1>8. StatusSaysReceived' /\ EditsOK'
  <2>1. \A o \in Orders : <<o, "status">> \in raced' => <<o, "status">> \in raced
    BY <1>2
  <2>2. raced \subseteq raced'
    BY <1>2
  <2> QED BY <2>1, <2>2, <1>2 DEF StatusSaysReceived, EditsOK, ReceiptsOf
<1>9. ASSUME NEW s \in Requests, Busy(s)' PROVE RequestOK(s)'
  <2>1. request'[s] = request[s] /\ RequestOK(s)
    BY <1>3, <1>9 DEF RequestsOK, Busy
  <2> QED BY <2>1, <1>2 DEF RequestOK, Accepted, WithinOrder
<1>10. OneHolder'
  BY <1>3, IdleTyped DEF OneHolder
<1> QED BY <1>5, <1>6, <1>7, <1>8, <1>9, <1>10 DEF RequestsOK

\* The steps of an edit.
LEMMA EditStep ==
  ASSUME IInv, NEW o \in Orders,
         (\E to \in {"PENDING", "CANCELLED"} : BeginEdit(o, to)) \/ Edit(o) \/ AbandonEdit(o)
  PROVE  IInv'
<1> USE DEF IInv
<1>1. UNCHANGED <<receipts, payable, replaced, returned, excess, returns, onHand, request, raced>>
  BY DEF BeginEdit, Edit, AbandonEdit, docVars
<1>2. status \in [Orders -> OrderStatuses] /\ edit \in [Orders -> {"PENDING", "CANCELLED", None}]
  BY DEF TypeOK
<1>3. status' \in [Orders -> OrderStatuses] /\ edit' \in [Orders -> {"PENDING", "CANCELLED", None}]
  BY <1>2, ReceivingAssumption DEF BeginEdit, Edit, AbandonEdit, OrderStatuses
<1>4. TypeOK'
  BY <1>1, <1>3 DEF TypeOK
<1>5. ReplacedWithinRejected' /\ ReturnsFit' /\ OneHolder'
  BY <1>1 DEF ReplacedWithinRejected, ReturnsFit, Accepted, OneHolder
<1>6. RequestsOK'
  BY <1>1 DEF RequestsOK, RequestOK, Busy, Accepted, WithinOrder
<1>7. ASSUME NEW k \in Orders, <<k, "status">> \notin raced'
      PROVE  /\ status'[k] \in Received <=> ReceiptsOf(k)' # {}
             /\ edit'[k] # None => ReceiptsOf(k)' = {}
  <2>1. ReceiptsOf(k)' = ReceiptsOf(k) /\ <<k, "status">> \notin raced
    BY <1>1, <1>7 DEF ReceiptsOf
  <2>2. /\ status[k] \in Received <=> ReceiptsOf(k) # {}
        /\ edit[k] # None => ReceiptsOf(k) = {}
    BY <2>1 DEF StatusSaysReceived, EditsOK
  <2>3. CASE k # o
    <3>1. status'[k] = status[k] /\ edit'[k] = edit[k]
      BY <2>3, <1>2 DEF BeginEdit, Edit, AbandonEdit
    <3> QED BY <3>1, <2>1, <2>2
  <2>4. CASE k = o
    <3>1. ASSUME NEW to \in {"PENDING", "CANCELLED"}, BeginEdit(o, to)
          PROVE  status' = status /\ status[o] \notin Received
      BY <3>1 DEF BeginEdit, Editable
    <3>2. ASSUME Edit(o)
          PROVE  edit[o] # None /\ status'[o] \notin Received /\ edit'[o] = None
      BY <3>2, <1>2, ReceivingAssumption DEF Edit, Received
    <3>3. ASSUME AbandonEdit(o) PROVE edit'[o] = None /\ status' = status
      BY <3>3, <1>2 DEF AbandonEdit
    <3> QED BY <3>1, <3>2, <3>3, <2>1, <2>2, <2>4
  <2> QED BY <2>3, <2>4
<1>8. StatusSaysReceived' /\ EditsOK'
  BY <1>7 DEF StatusSaysReceived, EditsOK
<1> QED BY <1>4, <1>5, <1>6, <1>8

LEMMA Stepwise == IInv /\ [Next]_vars => IInv'
<1> SUFFICES ASSUME IInv, [Next]_vars PROVE IInv'
  OBVIOUS
<1>1. ASSUME NEW r \in Requests, Rollback(r) PROVE IInv'
  <2>1. /\ request'[r] = Idle /\ \A s \in Requests \ {r} : request'[s] = request[s]
        /\ request' \in [Requests -> Transactions]
    BY <1>1, IdleTyped, OneSlot DEF Rollback, IInv
  <2> QED BY <1>1, <2>1, IdleTyped, SlotStep DEF Rollback
<1>2. CASE UNCHANGED vars
  BY <1>2 DEF vars, docVars, IInv, TypeOK, ReplacedWithinRejected, ReturnsFit, StatusSaysReceived,
              RequestsOK, RequestOK, OneHolder, EditsOK, ReceiptsOf, Busy, Accepted, WithinOrder
<1> QED
  BY <1>1, <1>2, OpenReceiptStep, OpenReturnStep, ClaimStep, StockStep, ReceiptStep, ReturnStep,
     EditStep DEF Next

-----------------------------------------------------------------------------
(* What the documents add up to *)

\* A receipt's commit adds its lines to the totals of its own order.
LEMMA TotalsStep ==
  ASSUME IInv, NEW r \in Requests, CommitReceipt(r), NEW g \in Receipts, g = request[r].doc,
         NEW k \in Orders, NEW p \in Products
  PROVE  /\ k # OrderOf[g] => /\ PriorDelivered(k, p)' = PriorDelivered(k, p)
                              /\ PriorPayable(k, p)' = PriorPayable(k, p)
         /\ k = OrderOf[g] => /\ PriorDelivered(k, p)' = PriorDelivered(k, p) + Delivered[g][p]
                              /\ PriorPayable(k, p)' = PriorPayable(k, p) + request[r].portion[p]
<1> DEFINE d == [x \in Receipts |-> Delivered[x][p]]
           y == [x \in Receipts |-> payable[x][p]]
           z == [x \in Receipts |-> payable'[x][p]]
           S == ReceiptsOf(k)
<1>1. /\ g \notin receipts /\ receipts' = receipts \cup {g}
      /\ payable'[g] = request[r].portion /\ \A x \in Receipts \ {g} : payable'[x] = payable[x]
      /\ payable' \in [Receipts -> [Products -> Nat]]
  BY ReceiptEffect
<1>2. /\ IsFiniteSet(S) /\ S \subseteq Receipts /\ g \notin S
      /\ k # OrderOf[g] => ReceiptsOf(k)' = S
      /\ k = OrderOf[g] => ReceiptsOf(k)' = S \cup {g}
  BY <1>1, TotalsTyped DEF IInv, ReceiptsOf
<1>3. /\ PriorDelivered(k, p) = Sum(d, S) /\ PriorDelivered(k, p)' = Sum(d, ReceiptsOf(k)')
      /\ PriorPayable(k, p) = Sum(y, S) /\ PriorPayable(k, p)' = Sum(z, ReceiptsOf(k)')
  BY DEF PriorDelivered, PriorPayable
<1>4. /\ \A x \in S : y[x] = z[x]
      /\ \A x \in Receipts : d[x] \in Nat /\ z[x] \in Nat
      /\ d[g] = Delivered[g][p] /\ z[g] = request[r].portion[p]
  BY <1>1, <1>2, Shapes
<1> HIDE DEF d, y, z, S
<1>5. Sum(y, S) = Sum(z, S)
  BY <1>4, SumEqual
<1>6. /\ Sum(d, S \cup {g}) = Sum(d, S) + d[g]
      /\ Sum(z, S \cup {g}) = Sum(z, S) + z[g]
  <2>1. \A x \in S \cup {g} : d[x] \in Nat
    BY <1>2, <1>4
  <2>2. \A x \in S \cup {g} : z[x] \in Nat
    BY <1>2, <1>4
  <2>3. Sum(d, S \cup {g}) = Sum(d, S) + d[g]
    BY <2>1, <1>2, SumAdd
  <2>4. Sum(z, S \cup {g}) = Sum(z, S) + z[g]
    BY <2>2, <1>2, SumAdd
  <2> QED BY <2>3, <2>4
<1> QED BY <1>2, <1>3, <1>4, <1>5, <1>6

\* It adds its accepted goods to all that was accepted, and a return's commit its own to all
\* that went back.
LEMMA StockTotals ==
  ASSUME IInv, NEW p \in Products
  PROVE  LET came == Sum([g \in Receipts |-> Accepted(g, p)], receipts)
             went == Sum([s \in Returns |-> Quantity[s][p]], returns)
         IN  /\ came \in Nat /\ went \in Nat
             /\ \A g \in Receipts : g \notin receipts =>
                  Sum([x \in Receipts |-> Accepted(x, p)], receipts \cup {g}) = came + Accepted(g, p)
             /\ \A s \in Returns : s \notin returns =>
                  Sum([x \in Returns |-> Quantity[x][p]], returns \cup {s}) = went + Quantity[s][p]
<1> DEFINE f == [g \in Receipts |-> Accepted(g, p)]
           h == [s \in Returns |-> Quantity[s][p]]
<1>1. /\ \A g \in Receipts : f[g] \in Nat /\ f[g] = Accepted(g, p)
      /\ \A s \in Returns : h[s] \in Nat /\ h[s] = Quantity[s][p]
  BY Shapes
<1>2. IsFiniteSet(receipts) /\ IsFiniteSet(returns) /\ receipts \subseteq Receipts /\ returns \subseteq Returns
  BY TotalsTyped DEF IInv, TypeOK
<1> HIDE DEF f, h
<1>3. Sum(f, receipts) \in Nat /\ Sum(h, returns) \in Nat
  BY <1>1, <1>2, SumType
<1>4. ASSUME NEW g \in Receipts, g \notin receipts
      PROVE  Sum(f, receipts \cup {g}) = Sum(f, receipts) + Accepted(g, p)
  <2>1. \A x \in receipts \cup {g} : f[x] \in Nat
    BY <1>1, <1>2
  <2>2. Sum(f, receipts \cup {g}) = Sum(f, receipts) + f[g]
    BY <2>1, <1>2, <1>4, SumAdd
  <2> QED BY <2>2, <1>1
<1>5. ASSUME NEW s \in Returns, s \notin returns
      PROVE  Sum(h, returns \cup {s}) = Sum(h, returns) + Quantity[s][p]
  <2>1. \A x \in returns \cup {s} : h[x] \in Nat
    BY <1>1, <1>2
  <2>2. Sum(h, returns \cup {s}) = Sum(h, returns) + h[s]
    BY <2>1, <1>2, <1>5, SumAdd
  <2> QED BY <2>2, <1>1
<1> QED BY <1>3, <1>4, <1>5 DEF f, h

LEMMA BooksInitially == Init => Books
<1> SUFFICES ASSUME Init PROVE Books
  OBVIOUS
<1>0. IInv
  BY Initially
<1>1. \A r \in Requests : request[r] = Idle /\ Written(r) = {}
  BY IdleTyped DEF Init, Written
<1>2. Drafts /\ WrittenOnce
  BY <1>1 DEF Drafts, Busy, WrittenOnce
<1>3. StockFollowsDocuments
  <2> SUFFICES ASSUME NEW p \in Products
               PROVE  /\ onHand[p] >= 0
                      /\ onHand[p] = Opening[p] + Sum([g \in Receipts |-> Accepted(g, p)], receipts)
                                                - Sum([s \in Returns |-> Quantity[s][p]], returns)
    BY DEF StockFollowsDocuments
  <2>1. receipts = {} /\ returns = {} /\ onHand[p] = Opening[p] /\ Opening[p] \in Nat
    BY ReceivingAssumption DEF Init
  <2>2. /\ Sum([g \in Receipts |-> Accepted(g, p)], receipts) = 0
        /\ Sum([s \in Returns |-> Quantity[s][p]], returns) = 0
    BY <2>1, SumEmpty
  <2> QED BY <2>1, <2>2
<1>4. PayableWithinOrder
  <2> SUFFICES ASSUME NEW o \in Orders, NEW p \in Products PROVE PriorPayable(o, p) <= Ordered[o][p]
    BY DEF PayableWithinOrder
  <2>1. ReceiptsOf(o) = {}
    BY DEF Init, ReceiptsOf
  <2>2. PriorPayable(o, p) = 0
    BY <2>1, SumEmpty DEF PriorPayable
  <2> QED BY <2>2, ReceivingAssumption
<1>5. ReceivedIsEarned
  BY DEF Init, ReceivedIsEarned
<1>6. ExcessFits
  BY Shapes DEF Init, ExcessFits, Zero
<1> QED BY <1>2, <1>3, <1>4, <1>5, <1>6 DEF Books

\* A step that writes one slot and no row.
LEMMA SlotBooks ==
  ASSUME IInv, Books, NEW r \in Requests,
         \A s \in Requests \ {r} : request'[s] = request[s],
         UNCHANGED <<status, docVars, onHand, edit>>, raced \subseteq raced',
         Busy(r)' => /\ (request[r].doc \in Receipts)' => ReceiptDraft(r)'
                     /\ (request[r].doc \in Returns)' => ReturnDraft(r)',
         \A s \in Requests \ {r} : Written(r)' \cap Written(s) = {}
  PROVE  Books'
<1> USE DEF Books, docVars
<1>1. \A s \in Requests \ {r} : Written(s)' = Written(s)
  BY DEF Written, Accepted
<1>2. WrittenOnce'
  BY <1>1 DEF WrittenOnce
<1>3. ASSUME NEW s \in Requests, Busy(s)'
      PROVE  /\ (request[s].doc \in Receipts)' => ReceiptDraft(s)'
             /\ (request[s].doc \in Returns)' => ReturnDraft(s)'
  <2>1. CASE s = r
    BY <2>1, <1>3
  <2>2. CASE s # r
    <3>1. request'[s] = request[s] /\ Busy(s)
      BY <2>2, <1>3 DEF Busy
    <3>2. request[s].doc \in Receipts => ReceiptDraft(s)
      BY <3>1 DEF Drafts
    <3>3. request[s].doc \in Returns => ReturnDraft(s)
      BY <3>1 DEF Drafts
    <3>4. FullyDelivered(request[s].doc) => FullyDelivered(request[s].doc)'
      BY <3>1 DEF FullyDelivered, PriorDelivered, ReceiptsOf
    <3>5. request[s].doc \in Receipts => ReceiptDraft(s)'
      BY <3>1, <3>2, <3>4, <1>1, <2>2 DEF ReceiptDraft, Entering, Accepted
    <3>6. request[s].doc \in Returns => ReturnDraft(s)'
      BY <3>1, <3>3 DEF ReturnDraft, Accepted
    <3> QED BY <3>1, <3>5, <3>6
  <2> QED BY <2>1, <2>2
<1>4. Drafts'
  BY <1>3 DEF Drafts
<1>5. StockFollowsDocuments'
  BY DEF StockFollowsDocuments, Accepted
<1>6. PayableWithinOrder' /\ ReceivedIsEarned' /\ ExcessFits'
  BY DEF PayableWithinOrder, PriorPayable, ReceivedIsEarned, PriorDelivered, ReceiptsOf, ExcessFits, Accepted
<1> QED BY <1>2, <1>4, <1>5, <1>6

LEMMA OpenReceiptBooks ==
  ASSUME IInv, Books, NEW r \in Requests, NEW g \in Receipts, OpenReceipt(r, g)
  PROVE  Books'
<1> USE DEF IInv
<1>1. Written(r)' = {}
  BY OpenReceiptEffect DEF Written
<1>2. ASSUME NEW p \in Products
      PROVE  /\ request'[r].portion[p] <= Accepted(g, p)
             /\ request'[r].portion[p] <= Positive(Ordered[OrderOf[g]][p] - request'[r].basis[p])
  <2>1. /\ request'[r].portion[p] = PayablePortion(g, p)
        /\ request'[r].basis[p] = PriorPayable(OrderOf[g], p)
    BY OpenReceiptEffect
  <2>2. Accepted(g, p) \in Nat /\ OrderOf[g] \in Orders /\ Ordered[OrderOf[g]][p] \in Nat
    BY Shapes, ReceivingAssumption
  <2>3. PriorPayable(OrderOf[g], p) \in Nat
    BY <2>2, TotalsTyped
  <2> QED BY <2>1, <2>2, <2>3 DEF PayablePortion, Least, Positive
<1>3. FullyDelivered(g) => FullyDelivered(g)'
  BY OpenReceiptEffect DEF FullyDelivered, PriorDelivered, ReceiptsOf, docVars
<1>4. ReceiptDraft(r)'
  BY <1>1, <1>2, <1>3, OpenReceiptEffect DEF ReceiptDraft, Entering, Accepted
<1> QED BY <1>1, <1>4, OpenReceiptEffect, SlotBooks, Shapes

LEMMA OpenReturnBooks ==
  ASSUME IInv, Books, NEW r \in Requests, NEW s \in Returns, OpenReturn(r, s)
  PROVE  Books'
<1> USE DEF IInv
<1>1. Written(r)' = {}
  BY OpenReturnEffect DEF Written
<1>2. ASSUME NEW p \in Products
      PROVE  /\ request'[r].basis[p] <= returned[ReceiptOf[s]][p]
             /\ request'[r].portion[p] <= Quantity[s][p]
             /\ request'[r].portion[p] <=
                  Positive(Accepted(ReceiptOf[s], p) - payable[ReceiptOf[s]][p] - excess[ReceiptOf[s]][p])
  <2>1. /\ request'[r].portion[p] = ExcessPortion(s, p)
        /\ request'[r].basis = returned[ReceiptOf[s]]
    BY OpenReturnEffect
  <2>2. /\ ReceiptOf[s] \in Receipts /\ Quantity[s][p] \in Nat /\ Accepted(ReceiptOf[s], p) \in Nat
        /\ payable[ReceiptOf[s]][p] \in Nat /\ excess[ReceiptOf[s]][p] \in Nat
        /\ returned[ReceiptOf[s]][p] \in Nat
    BY Shapes DEF TypeOK
  <2> QED BY <2>1, <2>2 DEF ExcessPortion, Least, Positive
<1>3. ReceiptOf[s] \in receipts
  BY DEF OpenReturn
<1>4. ReturnDraft(r)'
  BY <1>2, <1>3, OpenReturnEffect DEF ReturnDraft, Accepted, docVars
<1> QED BY <1>1, <1>4, OpenReturnEffect, SlotBooks, Shapes

LEMMA ClaimBooks ==
  ASSUME IInv, Books, NEW r \in Requests, ClaimOrder(r)
  PROVE  Books'
<1> DEFINE g == request[r].doc
<1> USE DEF IInv
<1>1. Busy(r) /\ g \in Receipts /\ ~request[r].claimed /\ ReceiptDraft(r)
  BY DEF ClaimOrder, Books, Drafts
<1>2. request'[r].doc = g /\ request'[r].todo = Entering(g) /\ request'[r].at = None
  BY <1>1, ClaimEffect DEF ReceiptDraft, SameDraft
<1>3. Written(r)' = {}
  BY <1>2, Shapes DEF Written, Entering, Accepted
<1>4. FullyDelivered(g) => FullyDelivered(g)'
  BY <1>2, ClaimEffect DEF FullyDelivered, PriorDelivered, ReceiptsOf, docVars
<1>5. ReceiptDraft(r)'
  BY <1>1, <1>2, <1>3, <1>4, ClaimEffect DEF ReceiptDraft, SameDraft, Entering, Accepted
<1> QED BY <1>1, <1>2, <1>3, <1>5, ClaimEffect, SlotBooks, Shapes

LEMMA ReadBooks ==
  ASSUME IInv, Books, NEW r \in Requests, NEW p \in Products, ReadStock(r, p)
  PROVE  Books'
<1> DEFINE g == request[r].doc
<1> USE DEF IInv
<1>1. Busy(r) /\ g \in Receipts /\ request[r].claimed /\ p \in request[r].todo /\ ReceiptDraft(r)
  BY DEF ReadStock, RequestsOK, RequestOK, Books, Drafts
<1>2. request'[r].doc = g /\ request'[r].claimed /\ request'[r].todo = request[r].todo /\ request'[r].at = p
  BY <1>1, ReadEffect DEF SameDraft
<1>3. Written(r)' = Written(r) /\ p \notin Written(r)
  BY <1>1, <1>2 DEF Written, Accepted
<1>4. FullyDelivered(g) => FullyDelivered(g)'
  BY <1>2, ReadEffect DEF FullyDelivered, PriorDelivered, ReceiptsOf, docVars
<1>5. \A x \in Written(r) : request'[r].seen[x] = request[r].seen[x]
  BY <1>1, <1>3, ReadEffect DEF Written
<1>6. ReceiptDraft(r)'
  BY <1>1, <1>2, <1>3, <1>4, <1>5, ReadEffect DEF ReceiptDraft, SameDraft, Entering, Accepted
<1>7. \A s \in Requests \ {r} : Written(r)' \cap Written(s) = {}
  BY <1>3 DEF Books, WrittenOnce
<1> QED BY <1>1, <1>2, <1>6, <1>7, ReadEffect, SlotBooks, Shapes

LEMMA WriteBooks ==
  ASSUME IInv, Books, NEW r \in Requests, WriteStock(r)
  PROVE  Books'
<1> DEFINE g == request[r].doc
           p == request[r].at
<1> USE DEF IInv
<1>1. Busy(r) /\ p # None /\ ~StockLocked(p)
  BY DEF WriteStock
<1>2. g \in Receipts /\ ReceiptDraft(r)
  BY <1>1 DEF RequestsOK, RequestOK, Books, Drafts, ReturnDraft
<1>3. request[r].claimed /\ p \in request[r].todo /\ request[r].todo \subseteq Entering(g) /\ p \in Products
  BY <1>1, <1>2 DEF ReceiptDraft, Entering
<1>4. /\ request'[r].doc = g /\ request'[r].claimed /\ request'[r].todo = request[r].todo \ {p}
      /\ request'[r].at = None /\ request'[r].seen = request[r].seen
  BY <1>3, WriteEffect DEF SameDraft
<1>5. Written(r)' = Written(r) \cup {p}
  BY <1>3, <1>4 DEF Written, Accepted, Entering
<1>6. <<p, "stock">> \notin raced' => request[r].seen[p] = onHand[p]
  BY WriteEffect
<1>7. raced \subseteq raced'
  BY WriteEffect
<1>8. \A x \in Written(r)' : <<x, "stock">> \notin raced' => request'[r].seen[x] = onHand'[x]
  BY <1>2, <1>4, <1>5, <1>6, <1>7, WriteEffect DEF ReceiptDraft
<1>9. FullyDelivered(g) => FullyDelivered(g)'
  BY <1>4, WriteEffect DEF FullyDelivered, PriorDelivered, ReceiptsOf, docVars
<1>10. ReceiptDraft(r)'
  BY <1>2, <1>4, <1>8, <1>9, WriteEffect DEF ReceiptDraft, SameDraft, Entering, Accepted
<1>11. \A s \in Requests \ {r} : Written(r)' \cap Written(s) = {}
  BY <1>1, <1>5 DEF Books, WrittenOnce, StockLocked
<1> QED BY <1>2, <1>4, <1>7, <1>10, <1>11, WriteEffect, SlotBooks, Shapes

LEMMA RollbackBooks ==
  ASSUME IInv, Books, NEW r \in Requests, Rollback(r)
  PROVE  Books'
<1>1. /\ request'[r] = Idle /\ \A s \in Requests \ {r} : request'[s] = request[s]
      /\ UNCHANGED <<status, docVars, onHand, edit, raced>>
  BY IdleTyped, OneSlot DEF Rollback, IInv
<1>2. ~Busy(r)' /\ Written(r)' = {}
  BY <1>1, IdleTyped DEF Busy, Written
<1> QED BY <1>1, <1>2, SlotBooks

LEMMA ReceiptBooks ==
  ASSUME IInv, Books, NEW r \in Requests, CommitReceipt(r)
  PROVE  Books'
<1> USE DEF IInv
<1>1. PICK g \in Receipts : g = request[r].doc
  BY ReceiptEffect
<1>2. PICK o \in Orders : o = OrderOf[g]
  BY Shapes
<1>3. Busy(r) /\ ReceiptDraft(r) /\ RequestOK(r)
  BY <1>1 DEF CommitReceipt, RequestsOK, Books, Drafts
<1>4. /\ g \notin receipts /\ receipts' = receipts \cup {g} /\ returns' = returns
      /\ status' = [status EXCEPT ![o] = request[r].outcome]
      /\ returned' = returned /\ excess' = excess
      /\ payable'[g] = request[r].portion /\ \A k \in Receipts \ {g} : payable'[k] = payable[k]
      /\ Written(r) = Entering(g)
      /\ \A p \in Products : onHand'[p] =
           IF p \in Entering(g) THEN request[r].seen[p] + Accepted(g, p) ELSE onHand[p]
      /\ raced \subseteq raced'
      /\ \A p \in Products : <<p, "stock">> \in raced' => <<p, "stock">> \in raced
      /\ \A k \in Receipts : <<k, "returned">> \in raced' => <<k, "returned">> \in raced
  BY <1>1, <1>2, ReceiptEffect
<1>5. <<o, "payable">> \notin raced' => \A p \in Products : request[r].basis[p] = PriorPayable(o, p)
  BY <1>1, <1>2, ReceiptEffect
<1>6. request'[r] = Idle /\ \A s \in Requests \ {r} : request'[s] = request[s]
  BY ReceiptEffect, IdleTyped, OneSlot
<1>7. ASSUME NEW p \in Products
      PROVE  request[r].portion[p] \in Nat /\ onHand[p] \in Nat /\ onHand'[p] \in Nat
             /\ Accepted(g, p) \in Nat /\ Delivered[g][p] \in Nat /\ request[r].basis[p] \in Nat
  <2>1. request[r] \in Transactions
    BY DEF TypeOK, Transactions
  <2> QED BY <2>1, Shapes, ReceiptEffect DEF TypeOK, Transactions
<1>8. ASSUME NEW k \in Orders, NEW p \in Products
      PROVE  /\ k # o => PriorDelivered(k, p)' = PriorDelivered(k, p) /\ PriorPayable(k, p)' = PriorPayable(k, p)
             /\ k = o => /\ PriorDelivered(k, p)' = PriorDelivered(k, p) + Delivered[g][p]
                         /\ PriorPayable(k, p)' = PriorPayable(k, p) + request[r].portion[p]
             /\ PriorDelivered(k, p) \in Nat /\ PriorPayable(k, p) \in Nat /\ Ordered[k][p] \in Nat
             /\ PriorDelivered(k, p) <= PriorDelivered(k, p)'
  BY <1>1, <1>2, <1>7, TotalsStep, TotalsTyped, ReceivingAssumption
<1>9. Written(r)' = {} /\ \A s \in Requests \ {r} : Written(s)' = Written(s) /\ Written(s) \cap Entering(g) = {}
  BY <1>4, <1>6, IdleTyped DEF Written, Accepted, Books, WrittenOnce
<1>10. WrittenOnce'
  BY <1>9 DEF Books, WrittenOnce
<1>11. ASSUME NEW s \in Requests, Busy(s)'
       PROVE  /\ (request[s].doc \in Receipts)' => ReceiptDraft(s)'
              /\ (request[s].doc \in Returns)' => ReturnDraft(s)'
  <2>1. s # r /\ request'[s] = request[s] /\ Busy(s)
    BY <1>6, <1>11 DEF Busy
  <2>2. ASSUME request[s].doc \in Receipts PROVE ReceiptDraft(s)'
    <3>1. ReceiptDraft(s)
      BY <2>1, <2>2 DEF Books, Drafts
    <3>2. FullyDelivered(request[s].doc) => FullyDelivered(request[s].doc)'
      <4>1. PICK h \in Receipts : h = request[s].doc /\ h = request'[s].doc
        BY <2>1, <2>2
      <4>2. OrderOf[h] \in Orders
        BY Shapes
      <4>3. ASSUME FullyDelivered(h) PROVE FullyDelivered(h)'
        <5> SUFFICES ASSUME NEW p \in Products
                     PROVE  PriorDelivered(OrderOf[h], p)' + Delivered[h][p] >= Ordered[OrderOf[h]][p]
          BY DEF FullyDelivered
        <5>1. PriorDelivered(OrderOf[h], p) + Delivered[h][p] >= Ordered[OrderOf[h]][p]
          BY <4>3 DEF FullyDelivered
        <5>2. PriorDelivered(OrderOf[h], p)' = PriorDelivered(OrderOf[h], p)
              \/ PriorDelivered(OrderOf[h], p)' = PriorDelivered(OrderOf[h], p) + Delivered[g][p]
          BY <4>2, <1>8
        <5>3. /\ PriorDelivered(OrderOf[h], p) \in Nat /\ Ordered[OrderOf[h]][p] \in Nat
              /\ Delivered[h][p] \in Nat /\ Delivered[g][p] \in Nat
          BY <4>2, <1>7, <1>8, Shapes
        <5> QED BY <5>1, <5>2, <5>3
      <4> QED BY <4>1, <4>3 DEF FullyDelivered
    <3>3. \A p \in Written(s) : onHand'[p] = onHand[p] /\ p \in Products
      BY <1>4, <1>9, <2>1 DEF Written
    <3> QED BY <3>1, <3>2, <3>3, <2>1, <1>4, <1>9 DEF ReceiptDraft, Entering, Accepted
  <2>3. ASSUME request[s].doc \in Returns PROVE ReturnDraft(s)'
    <3>1. ReturnDraft(s) /\ ReceiptOf[request[s].doc] \in Receipts
      BY <2>1, <2>3, Shapes DEF Books, Drafts
    <3>2. payable'[ReceiptOf[request[s].doc]] = payable[ReceiptOf[request[s].doc]]
      BY <3>1, <1>4 DEF ReturnDraft
    <3> QED BY <3>1, <3>2, <2>1, <1>4 DEF ReturnDraft, Accepted
  <2> QED BY <2>1, <2>2, <2>3
<1>12. Drafts'
  BY <1>11 DEF Drafts
<1>13. StockFollowsDocuments'
  <2> SUFFICES ASSUME NEW p \in Products
               PROVE  /\ onHand'[p] >= 0
                      /\ <<p, "stock">> \notin raced' =>
                           onHand'[p] = Opening[p] + Sum([x \in Receipts |-> Accepted(x, p)], receipts')
                                                   - Sum([s \in Returns |-> Quantity[s][p]], returns')
    BY DEF StockFollowsDocuments, Accepted
  <2> DEFINE came == Sum([x \in Receipts |-> Accepted(x, p)], receipts)
             went == Sum([s \in Returns |-> Quantity[s][p]], returns)
  <2>1. /\ came \in Nat /\ went \in Nat /\ Opening[p] \in Nat
        /\ Sum([x \in Receipts |-> Accepted(x, p)], receipts') = came + Accepted(g, p)
        /\ Sum([s \in Returns |-> Quantity[s][p]], returns') = went
    BY <1>4, StockTotals, ReceivingAssumption
  <2>2. <<p, "stock">> \notin raced => onHand[p] = Opening[p] + came - went
    BY DEF Books, StockFollowsDocuments
  <2>3. <<p, "stock">> \notin raced /\ p \in Entering(g) => request[r].seen[p] = onHand[p]
    BY <1>3, <1>4 DEF ReceiptDraft
  <2>4. p \notin Entering(g) => Accepted(g, p) = 0
    BY <1>7 DEF Entering
  <2>5. <<p, "stock">> \notin raced => onHand'[p] = onHand[p] + Accepted(g, p)
    BY <1>4, <1>7, <2>3, <2>4
  <2> HIDE DEF came, went
  <2>6. <<p, "stock">> \notin raced' => onHand'[p] = Opening[p] + (came + Accepted(g, p)) - went
    BY <1>4, <1>7, <2>1, <2>2, <2>5
  <2> QED BY <1>7, <2>1, <2>6
<1>14. PayableWithinOrder'
  <2> SUFFICES ASSUME NEW k \in Orders, NEW p \in Products, <<k, "payable">> \notin raced'
               PROVE  PriorPayable(k, p)' <= Ordered[k][p]
    BY DEF PayableWithinOrder
  <2>1. PriorPayable(k, p) <= Ordered[k][p]
    BY <1>4 DEF Books, PayableWithinOrder
  <2>2. CASE k # o
    BY <2>1, <2>2, <1>8
  <2>3. CASE k = o
    <3>1. request[r].portion[p] <= Positive(Ordered[o][p] - PriorPayable(o, p))
      BY <2>3, <1>1, <1>2, <1>3, <1>5 DEF ReceiptDraft
    <3> QED BY <2>1, <2>3, <3>1, <1>7, <1>8 DEF Positive
  <2> QED BY <2>2, <2>3
<1>15. ReceivedIsEarned'
  <2> SUFFICES ASSUME NEW k \in Orders, status'[k] = "RECEIVED", NEW p \in Products
               PROVE  PriorDelivered(k, p)' >= Ordered[k][p]
    BY DEF ReceivedIsEarned
  <2>1. CASE k # o
    <3>1. status[k] = "RECEIVED"
      BY <2>1, <1>4 DEF TypeOK
    <3> QED BY <3>1, <1>8, <2>1 DEF Books, ReceivedIsEarned
  <2>2. CASE k = o
    <3>1. request[r].outcome = "RECEIVED"
      BY <2>2, <1>4 DEF TypeOK
    <3>2. PriorDelivered(o, p) + Delivered[g][p] >= Ordered[o][p]
      BY <3>1, <1>1, <1>2, <1>3 DEF ReceiptDraft, FullyDelivered
    <3> QED BY <3>2, <2>2, <1>8
  <2> QED BY <2>1, <2>2
<1>16. ExcessFits'
  <2> SUFFICES ASSUME NEW k \in Receipts, NEW p \in Products
               PROVE  /\ payable'[k][p] <= Accepted(k, p)
                      /\ k \notin receipts' => excess[k][p] = 0
                      /\ <<k, "returned">> \notin raced' => excess[k][p] <= Accepted(k, p) - payable'[k][p]
    BY <1>4 DEF ExcessFits, Accepted
  <2>1. CASE k = g
    <3>1. request[r].portion[p] <= Accepted(g, p)
      BY <1>1, <1>3 DEF ReceiptDraft
    <3>2. excess[g][p] = 0
      BY <1>4 DEF Books, ExcessFits
    <3> QED BY <3>1, <3>2, <2>1, <1>4, <1>7
  <2>2. CASE k # g
    BY <2>2, <1>4 DEF Books, ExcessFits
  <2> QED BY <2>1, <2>2
<1> QED BY <1>10, <1>12, <1>13, <1>14, <1>15, <1>16 DEF Books

LEMMA ReturnBooks ==
  ASSUME IInv, Books, NEW r \in Requests, CommitReturn(r)
  PROVE  Books'
<1> USE DEF IInv
<1>1. PICK s \in Returns : s = request[r].doc
  BY ReturnEffect
<1>2. PICK g \in Receipts : g = ReceiptOf[s]
  BY Shapes
<1>3. Busy(r) /\ ReturnDraft(r)
  BY <1>1 DEF CommitReturn, Books, Drafts
<1>4. /\ s \notin returns /\ returns' = returns \cup {s}
      /\ UNCHANGED <<status, receipts, payable, replaced, edit>>
      /\ raced' = IF request[r].basis = returned[g] THEN raced ELSE raced \cup {<<g, "returned">>}
      /\ \A p \in Products : /\ onHand'[p] = onHand[p] - Quantity[s][p]
                             /\ Quantity[s][p] > 0 => ~StockLocked(p)
                             /\ returned'[g][p] = returned[g][p] + Quantity[s][p]
                             /\ excess'[g][p] = excess[g][p] + request[r].portion[p]
      /\ \A k \in Receipts \ {g} : returned'[k] = returned[k] /\ excess'[k] = excess[k]
  BY <1>1, <1>2, ReturnEffect
<1>5. request'[r] = Idle /\ \A x \in Requests \ {r} : request'[x] = request[x]
  BY ReturnEffect, IdleTyped, OneSlot
<1>6. ASSUME NEW p \in Products
      PROVE  /\ Quantity[s][p] \in Nat /\ request[r].portion[p] \in Nat /\ onHand[p] \in Nat /\ onHand'[p] \in Nat
             /\ Accepted(g, p) \in Nat /\ payable[g][p] \in Nat /\ excess[g][p] \in Nat /\ returned[g][p] \in Nat
  <2>1. request[r] \in Transactions
    BY DEF TypeOK, Transactions
  <2> QED BY <2>1, Shapes, ReturnEffect DEF TypeOK, Transactions
<1>7. raced \subseteq raced' /\ \A x, what : <<x, what>> \in raced' /\ what # "returned" => <<x, what>> \in raced
  BY <1>4
<1>8. Written(r)' = {} /\ \A x \in Requests \ {r} : Written(x)' = Written(x)
  BY <1>5, IdleTyped DEF Written, Accepted
<1>9. WrittenOnce'
  BY <1>8 DEF Books, WrittenOnce
<1>10. ASSUME NEW x \in Requests, Busy(x)'
       PROVE  /\ (request[x].doc \in Receipts)' => ReceiptDraft(x)'
              /\ (request[x].doc \in Returns)' => ReturnDraft(x)'
  <2>1. x # r /\ request'[x] = request[x] /\ Busy(x)
    BY <1>5, <1>10 DEF Busy
  <2>2. ASSUME request[x].doc \in Receipts PROVE ReceiptDraft(x)'
    <3>1. ReceiptDraft(x)
      BY <2>1, <2>2 DEF Books, Drafts
    <3>2. FullyDelivered(request[x].doc) => FullyDelivered(request[x].doc)'
      BY <2>1, <1>4 DEF FullyDelivered, PriorDelivered, ReceiptsOf
    <3>3. \A p \in Written(x) : p \in Products /\ onHand'[p] = onHand[p]
      <4> SUFFICES ASSUME NEW p \in Written(x) PROVE p \in Products /\ onHand'[p] = onHand[p]
        OBVIOUS
      <4>1. p \in Products /\ StockLocked(p)
        BY DEF Written, StockLocked
      <4>2. ~(Quantity[s][p] > 0) /\ onHand'[p] = onHand[p] - Quantity[s][p]
        BY <4>1, <1>4
      <4> QED BY <4>1, <4>2, <1>6
    <3> QED BY <3>1, <3>2, <3>3, <2>1, <1>7, <1>8 DEF ReceiptDraft, Entering, Accepted
  <2>3. ASSUME request[x].doc \in Returns PROVE ReturnDraft(x)'
    <3>1. PICK z \in Returns : z = request[x].doc
      BY <2>3
    <3>2. PICK h \in Receipts : h = ReceiptOf[z]
      BY Shapes
    <3>3. ReturnDraft(x)
      BY <2>1, <2>3 DEF Books, Drafts
    <3>4. CASE h # g
      BY <3>1, <3>2, <3>3, <3>4, <2>1, <1>4 DEF ReturnDraft, Accepted
    <3>5. CASE h = g
      <4>1. \A p \in Products : request[x].basis[p] \in Nat
        <5>1. request[x] \in Transactions
          BY DEF TypeOK, Transactions
        <5> QED BY <5>1 DEF Transactions
      <4>2. \A p \in Products : request[x].basis[p] <= returned[g][p]
        BY <3>1, <3>2, <3>3, <3>5 DEF ReturnDraft
      <4>3. \A p \in Products : request[x].basis[p] <= returned'[g][p]
        BY <4>1, <4>2, <1>4, <1>6
      <4>4. ASSUME request[x].basis = returned'[g], NEW p \in Products
            PROVE  request[x].portion[p] <= Positive(Accepted(g, p) - payable[g][p] - excess'[g][p])
        <5>1. \A q \in Products : returned'[g][q] = returned[g][q] /\ Quantity[s][q] = 0
          BY <4>1, <4>2, <4>4, <1>4, <1>6
        <5>2. returned'[g] = returned[g]
          <6>1. returned[g] \in [Products -> Nat] /\ returned'[g] \in [Products -> Nat]
            BY ReturnEffect DEF TypeOK
          <6> QED BY <6>1, <5>1
        <5>3. request[r].portion[p] = 0
          BY <5>1, <1>1, <1>3, <1>6 DEF ReturnDraft
        <5>4. excess'[g][p] = excess[g][p]
          BY <5>3, <1>4, <1>6
        <5> QED BY <5>2, <5>4, <4>4, <3>1, <3>2, <3>3, <3>5 DEF ReturnDraft
      <4> QED BY <4>3, <4>4, <3>1, <3>2, <3>3, <3>5, <2>1, <1>4 DEF ReturnDraft, Accepted
    <3> QED BY <3>4, <3>5
  <2> QED BY <2>1, <2>2, <2>3
<1>11. Drafts'
  BY <1>10 DEF Drafts
<1>12. StockFollowsDocuments'
  <2> SUFFICES ASSUME NEW p \in Products
               PROVE  /\ onHand'[p] >= 0
                      /\ <<p, "stock">> \notin raced' =>
                           onHand'[p] = Opening[p] + Sum([x \in Receipts |-> Accepted(x, p)], receipts')
                                                   - Sum([x \in Returns |-> Quantity[x][p]], returns')
    BY DEF StockFollowsDocuments, Accepted
  <2> DEFINE came == Sum([x \in Receipts |-> Accepted(x, p)], receipts)
             went == Sum([x \in Returns |-> Quantity[x][p]], returns)
  <2>1. /\ came \in Nat /\ went \in Nat /\ Opening[p] \in Nat
        /\ Sum([x \in Receipts |-> Accepted(x, p)], receipts') = came
        /\ Sum([x \in Returns |-> Quantity[x][p]], returns') = went + Quantity[s][p]
    BY <1>4, StockTotals, ReceivingAssumption
  <2>2. <<p, "stock">> \notin raced => onHand[p] = Opening[p] + came - went
    BY DEF Books, StockFollowsDocuments
  <2> HIDE DEF came, went
  <2>3. <<p, "stock">> \notin raced' => onHand'[p] = Opening[p] + came - (went + Quantity[s][p])
    BY <1>4, <1>6, <1>7, <2>1, <2>2
  <2> QED BY <1>6, <2>1, <2>3
<1>13. PayableWithinOrder' /\ ReceivedIsEarned'
  <2>1. \A o \in Orders, p \in Products :
          PriorPayable(o, p)' = PriorPayable(o, p) /\ PriorDelivered(o, p)' = PriorDelivered(o, p)
    BY <1>4 DEF PriorPayable, PriorDelivered, ReceiptsOf
  <2> QED BY <2>1, <1>4, <1>7 DEF Books, PayableWithinOrder, ReceivedIsEarned
<1>14. ExcessFits'
  <2> SUFFICES ASSUME NEW k \in Receipts, NEW p \in Products
               PROVE  /\ payable[k][p] <= Accepted(k, p)
                      /\ k \notin receipts => excess'[k][p] = 0
                      /\ <<k, "returned">> \notin raced' => excess'[k][p] <= Accepted(k, p) - payable[k][p]
    BY <1>4 DEF ExcessFits, Accepted
  <2>1. CASE k # g
    BY <2>1, <1>4 DEF Books, ExcessFits
  <2>2. CASE k = g
    <3>1. g \in receipts
      BY <1>1, <1>2, <1>3 DEF ReturnDraft
    <3>2. ASSUME <<g, "returned">> \notin raced'
          PROVE  excess'[g][p] <= Accepted(g, p) - payable[g][p]
      <4>1. request[r].basis = returned[g] /\ <<g, "returned">> \notin raced
        BY <3>2, <1>4
      <4>2. request[r].portion[p] <= Positive(Accepted(g, p) - payable[g][p] - excess[g][p])
        BY <4>1, <1>1, <1>2, <1>3 DEF ReturnDraft
      <4>3. excess[g][p] <= Accepted(g, p) - payable[g][p]
        BY <4>1 DEF Books, ExcessFits
      <4> QED BY <4>2, <4>3, <1>4, <1>6 DEF Positive
    <3> QED BY <3>1, <3>2, <2>2 DEF Books, ExcessFits
  <2> QED BY <2>1, <2>2
<1> QED BY <1>9, <1>11, <1>12, <1>13, <1>14 DEF Books

LEMMA EditBooks ==
  ASSUME IInv, Books, NEW o \in Orders,
         (\E to \in {"PENDING", "CANCELLED"} : BeginEdit(o, to)) \/ Edit(o) \/ AbandonEdit(o)
  PROVE  Books'
<1> USE DEF IInv, Books
<1>1. UNCHANGED <<docVars, onHand, request, raced>>
  BY DEF BeginEdit, Edit, AbandonEdit
<1>2. \A k \in Orders, p \in Products :
        PriorPayable(k, p)' = PriorPayable(k, p) /\ PriorDelivered(k, p)' = PriorDelivered(k, p)
  BY <1>1 DEF PriorPayable, PriorDelivered, ReceiptsOf, docVars
<1>3. \A k \in Orders : status'[k] = "RECEIVED" => status[k] = "RECEIVED"
  BY ReceivingAssumption DEF BeginEdit, Edit, AbandonEdit, TypeOK
<1>4. ReceivedIsEarned' /\ PayableWithinOrder'
  BY <1>1, <1>2, <1>3 DEF ReceivedIsEarned, PayableWithinOrder
<1>5. WrittenOnce' /\ StockFollowsDocuments' /\ ExcessFits'
  BY <1>1 DEF WrittenOnce, Written, StockFollowsDocuments, ExcessFits, Accepted, docVars
<1>6. Drafts'
  BY <1>1 DEF Drafts, ReceiptDraft, ReturnDraft, FullyDelivered, PriorDelivered, ReceiptsOf, Written,
              Busy, Entering, Accepted, docVars
<1> QED BY <1>4, <1>5, <1>6

LEMMA BooksStepwise == IInv /\ Books /\ [Next]_vars => Books'
<1> SUFFICES ASSUME IInv, Books, [Next]_vars PROVE Books'
  OBVIOUS
<1>1. CASE UNCHANGED vars
  <2>1. \A k \in Orders, p \in Products :
          PriorPayable(k, p)' = PriorPayable(k, p) /\ PriorDelivered(k, p)' = PriorDelivered(k, p)
    BY <1>1 DEF PriorPayable, PriorDelivered, ReceiptsOf, vars, docVars
  <2>2. ReceivedIsEarned' /\ PayableWithinOrder'
    BY <1>1, <2>1 DEF Books, ReceivedIsEarned, PayableWithinOrder, vars
  <2>3. WrittenOnce' /\ StockFollowsDocuments' /\ ExcessFits'
    BY <1>1 DEF Books, WrittenOnce, Written, StockFollowsDocuments, ExcessFits, Accepted, vars, docVars
  <2>4. Drafts'
    BY <1>1 DEF Books, Drafts, ReceiptDraft, ReturnDraft, FullyDelivered, PriorDelivered, ReceiptsOf, Written,
                Busy, Entering, Accepted, vars, docVars
  <2> QED BY <2>2, <2>3, <2>4 DEF Books
<1> QED
  BY <1>1, OpenReceiptBooks, OpenReturnBooks, ClaimBooks, ReadBooks, WriteBooks, ReceiptBooks,
     ReturnBooks, RollbackBooks, EditBooks DEF Next

-----------------------------------------------------------------------------
\* What a transaction in flight has checked still holds when it writes, but for the overlaps
\* that the history names.
THEOREM Invariance == Spec => []IInv
BY Initially, Stepwise, PTL DEF Spec

\* No more is replaced than was rejected, for any number of overlapping receipts: the check
\* is made while its transaction holds the order, and so survives until it commits.
THEOREM ReplacementsFit == Spec => []ReplacedWithinRejected
<1>1. IInv => ReplacedWithinRejected
  BY DEF IInv
<1> QED BY <1>1, Invariance, PTL

\* Overlapping returns of one receipt are the only way to send back more than was accepted.
THEOREM OnlyRacesOverReturn == Spec => []ReturnsFit
<1>1. IInv => ReturnsFit
  BY DEF IInv
<1> QED BY <1>1, Invariance, PTL

\* An edit under way when a receipt commits is the only way an order's status comes to deny
\* what was received.
THEOREM OnlyEditsHideReceipts == Spec => []StatusSaysReceived
<1>1. IInv => StatusSaysReceived
  BY DEF IInv
<1> QED BY <1>1, Invariance, PTL

-----------------------------------------------------------------------------
\* The sums over receipts and returns agree with the rows written from them, but for the
\* races that the history names.
THEOREM BooksKept == Spec => []Books
BY Invariance, BooksInitially, BooksStepwise, PTL DEF Spec

\* Every variable keeps its type; with it, no quantity in stock, payable, replaced or returned
\* is ever negative.
THEOREM TypesKept == Spec => []TypeOK
<1>1. IInv => TypeOK
  BY DEF IInv
<1> QED BY <1>1, Invariance, PTL

\* A stock row is what came less what went, for any number of overlapping receipts and
\* returns: only a receipt that wrote a row from an outdated read can break the sum.
THEOREM StockIsTheSum == Spec => []StockFollowsDocuments
<1>1. Books => StockFollowsDocuments
  BY DEF Books
<1> QED BY <1>1, BooksKept, PTL

\* The receipts of an order make no more payable than it ordered, however many there are,
\* unless two of them read the earlier totals before either committed.
THEOREM OnlyRacesOverPay == Spec => []PayableWithinOrder
<1>1. Books => PayableWithinOrder
  BY DEF Books
<1> QED BY <1>1, BooksKept, PTL

\* RECEIVED is earned in every interleaving, as the totals a receipt read can only have grown
\* since; that an order says whether it has receipts fails only by an edit under way.
THEOREM StatusIsEarned == Spec => []StatusTellsReceipts
<1>1. IInv /\ Books => StatusTellsReceipts
  BY DEF IInv, Books, StatusSaysReceived, ReceivedIsEarned, StatusTellsReceipts
<1> QED BY <1>1, Invariance, BooksKept, PTL

\* Overlapping returns of one receipt are the only way to send back more than was accepted, or
\* to take for excess what was payable.
THEOREM ReturnsStayWithin == Spec => []ReturnedWithinAccepted
<1>1. IInv /\ Books => ReturnedWithinAccepted
  <2> SUFFICES ASSUME IInv, Books, NEW g \in receipts, NEW p \in Products, <<g, "returned">> \notin raced
               PROVE  /\ returned[g][p] <= Accepted(g, p)
                      /\ excess[g][p] <= Accepted(g, p) - payable[g][p]
    BY DEF ReturnedWithinAccepted
  <2>1. g \in Receipts
    BY DEF IInv, TypeOK
  <2> QED BY <2>1 DEF IInv, ReturnsFit, Books, ExcessFits
<1> QED BY <1>1, Invariance, BooksKept, PTL

-----------------------------------------------------------------------------
(* Stock: what else moves stock rows.                                      *)

\* What a request carries from what it read to what it writes.
Carried(r) ==
  LET t == call[r]
  IN  /\ t.seen >= 0
      /\ t.op = "issue" =>
           t.doc \in Issues /\ t.basis + Amount[t.doc] <= Required[ProductionOf[t.doc]]
      /\ t.op \in {"complete", "completing"} =>
           t.doc \in ProductionOrders /\ t.basis <= Issued(t.doc)
      /\ t.op = "completing" => state[t.doc] = "IN_PROGRESS"
      /\ t.op \in {"issuePart", "cancelPart"} => t.doc \in Parts
      /\ t.op \in {"request", "receive", "receiving", "cancelReturn"} => t.doc \in CustomerReturns
      /\ t.op = "request" => t.basis + Amount[t.doc] <= Shipped[LineOf[t.doc]]
      /\ t.op = "receiving" /\ From[t.doc] # Nil =>
           /\ level[From[t.doc]] >= Amount[t.doc]
           /\ Into[t.doc] = From[t.doc] => t.seen >= Amount[t.doc]

\* A claimed order has one completion, an outlet's row one return that took from it.
OneClaimant ==
  \A q, r \in Slots : q # r =>
    /\ call[q].op = "completing" /\ call[r].op = "completing" => call[q].doc # call[r].doc
    /\ call[q].op = "receiving" /\ call[r].op = "receiving" /\ From[call[q].doc] # Nil =>
         From[call[q].doc] # From[call[r].doc]

\* Until its completion, what an order has in progress is what was issued for it.
InProgressIsIssued ==
  \A o \in ProductionOrders : state[o] # "COMPLETED" => wip[o] = Issued(o)

StockInv ==
  /\ StockTypeOK
  /\ RowsFollowDocuments /\ CompletionClearsWip
  /\ IssuedWithinRequired /\ HeldMatchesReturns
  /\ InProgressIsIssued /\ OneClaimant /\ \A r \in Slots : Carried(r)

-----------------------------------------------------------------------------
\* The kinds of documents are apart, and each names the rows of its kind.
LEMMA KindsApart ==
  /\ \A d \in ProductionOrders :
       d \notin Issues \cup Parts \cup Transfers \cup CustomerReturns \cup Adjustments
  /\ \A d \in Issues :
       d \notin ProductionOrders \cup Parts \cup Transfers \cup CustomerReturns \cup Adjustments
  /\ \A d \in Parts :
       d \notin ProductionOrders \cup Issues \cup Transfers \cup CustomerReturns \cup Adjustments
  /\ \A d \in CustomerReturns :
       d \notin ProductionOrders \cup Issues \cup Parts \cup Transfers \cup Adjustments
  /\ \A d \in Transfers \cup Adjustments :
       d \notin ProductionOrders \cup Issues \cup Parts \cup CustomerReturns
<1> DEFINE K == <<ProductionOrders, Issues, Parts, Transfers, CustomerReturns, Adjustments>>
<1>1. \A j, k \in 1 .. 6 : j # k => K[j] \cap K[k] = {}
  BY StockAssumption DEF Kinds
<1>2. /\ K[1] = ProductionOrders /\ K[2] = Issues /\ K[3] = Parts
      /\ K[4] = Transfers /\ K[5] = CustomerReturns /\ K[6] = Adjustments
  OBVIOUS
<1> HIDE DEF K
<1>3. /\ K[1] \cap K[2] = {} /\ K[1] \cap K[3] = {} /\ K[1] \cap K[4] = {}
      /\ K[1] \cap K[5] = {} /\ K[1] \cap K[6] = {}
  BY <1>1
<1>4. K[2] \cap K[3] = {} /\ K[2] \cap K[4] = {} /\ K[2] \cap K[5] = {} /\ K[2] \cap K[6] = {}
  BY <1>1
<1>5. K[3] \cap K[4] = {} /\ K[3] \cap K[5] = {} /\ K[3] \cap K[6] = {}
  BY <1>1
<1>6. K[4] \cap K[5] = {} /\ K[5] \cap K[6] = {}
  BY <1>1
<1> QED BY <1>2, <1>3, <1>4, <1>5, <1>6

LEMMA Quantities ==
  /\ IsFiniteSet(Documents)
  /\ \A d \in Documents : Amount[d] \in Nat
  /\ \A c \in CustomerReturns : Resalable[c] \in Nat /\ LineOf[c] \in Lines
  /\ \A i \in Issues : ProductionOf[i] \in ProductionOrders
  /\ \A o \in ProductionOrders : Required[o] \in Nat
  /\ \A l \in Lines : Shipped[l] \in Nat
  /\ \A w \in Rows : OpeningLevel[w] \in Nat /\ w # Nil
  /\ Nil \notin Documents
  /\ ProductionOrders \subseteq Documents /\ Issues \subseteq Documents
  /\ Parts \subseteq Documents /\ Transfers \subseteq Documents
  /\ CustomerReturns \subseteq Documents /\ Adjustments \subseteq Documents
BY StockAssumption DEF Documents

\* Two sets of documents that agree but for d have sums that agree but for d's term.
LEMMA SumsDiffer ==
  ASSUME NEW d \in Documents, NEW A \in SUBSET Documents,
         NEW B \in SUBSET Documents, A \ {d} = B \ {d},
         NEW f, \A x \in Documents : f[x] \in Nat
  PROVE  \E rest \in Nat : /\ Sum(f, A) = rest + IF d \in A THEN f[d] ELSE 0
                           /\ Sum(f, B) = rest + IF d \in B THEN f[d] ELSE 0
<1> DEFINE R == A \ {d}
<1>1. d \notin R /\ A \ {d} = R /\ B \ {d} = R
  OBVIOUS
<1>2. IsFiniteSet(R)
  <2>1. R \in SUBSET Documents
    OBVIOUS
  <2> QED BY <2>1, Quantities, FS_Subset
<1>3. \A x \in R \cup {d} : f[x] \in Nat
  OBVIOUS
<1> HIDE DEF R
<1>4. Sum(f, R) \in Nat
  BY <1>2, <1>3, SumType
<1>5. Sum(f, A) = Sum(f, R) + IF d \in A THEN f[d] ELSE 0
  BY <1>1, <1>2, <1>3, SumGains
<1>6. Sum(f, B) = Sum(f, R) + IF d \in B THEN f[d] ELSE 0
  BY <1>1, <1>2, <1>3, SumGains
<1> QED BY <1>4, <1>5, <1>6

\* The status by which a document says that it moved stock.
Done(d) == CASE d \in Issues \cup Parts -> "ISSUED"
             [] d \in CustomerReturns -> "RECEIVED"
             [] OTHER -> "COMPLETED"

LEMMA MovedIs ==
  /\ \A d \in Documents : d \in Moved <=> state[d] = Done(d)
  /\ Moved \subseteq Documents
BY KindsApart DEF Moved, Done, Documents

LEMMA NamedRows ==
  /\ \A o \in ProductionOrders : From[o] = Nil /\ Into[o] \in Rows
  /\ \A d \in Issues \cup Parts : From[d] \in Rows /\ Into[d] = Nil
  /\ \A t \in Transfers : From[t] \in Rows /\ Into[t] \in Rows
  /\ \A c \in CustomerReturns : Into[c] \in Rows /\ From[c] \in Rows \cup {Nil}
  /\ \A j \in Adjustments : \/ From[j] = Nil /\ Into[j] \in Rows
                            \/ From[j] \in Rows /\ Into[j] = Nil
BY Quantities, StockAssumption, RowsAssumption

\* What is issued for an order is a number, and depends on the issues only.
LEMMA IssuedTyped == \A o \in ProductionOrders : Issued(o) \in Nat
<1> SUFFICES ASSUME NEW o \in ProductionOrders PROVE Issued(o) \in Nat
  OBVIOUS
<1> DEFINE T == {i \in Issues : ProductionOf[i] = o /\ state[i] = "ISSUED"}
<1>1. T \in SUBSET Documents
  BY Quantities
<1>2. IsFiniteSet(T) /\ \A i \in T : Amount[i] \in Nat
  BY <1>1, Quantities, FS_Subset
<1>3. Sum(Amount, T) \in Nat
  BY <1>2, SumType
<1> QED BY <1>3 DEF Issued

LEMMA IssuedSame ==
  ASSUME \A i \in Issues : state'[i] = state[i], NEW o \in ProductionOrders
  PROVE  Issued(o)' = Issued(o)
<1>1. {i \in Issues : ProductionOf[i] = o /\ state'[i] = "ISSUED"} =
        {i \in Issues : ProductionOf[i] = o /\ state[i] = "ISSUED"}
  OBVIOUS
<1> QED BY <1>1 DEF Issued

LEMMA IssuedGains ==
  ASSUME NEW i \in Issues, state[i] # "ISSUED", state'[i] = "ISSUED",
         \A x \in Issues \ {i} : state'[x] = state[x], NEW o \in ProductionOrders
  PROVE  Issued(o)' = Issued(o) + IF ProductionOf[i] = o THEN Amount[i] ELSE 0
<1> DEFINE A == {x \in Issues : ProductionOf[x] = o /\ state[x] = "ISSUED"}
           B == {x \in Issues : ProductionOf[x] = o /\ state'[x] = "ISSUED"}
<1>1. /\ A \in SUBSET Documents /\ B \in SUBSET Documents /\ A \ {i} = B \ {i}
      /\ i \notin A
      /\ i \in B <=> ProductionOf[i] = o
      /\ i \in Documents /\ \A x \in Documents : Amount[x] \in Nat
  BY Quantities
<1>2. Issued(o) = Sum(Amount, A) /\ Issued(o)' = Sum(Amount, B)
  BY DEF Issued
<1> HIDE DEF A, B
<1>3. PICK rest \in Nat : /\ Sum(Amount, A) = rest + IF i \in A THEN Amount[i] ELSE 0
                          /\ Sum(Amount, B) = rest + IF i \in B THEN Amount[i] ELSE 0
  BY <1>1, SumsDiffer
<1> QED BY <1>1, <1>2, <1>3

CallRecords ==
  [op : Operations \cup {"none"}, doc : Documents \cup {Nil}, basis : Int, seen : Int]
Calls == /\ call \in [Slots -> CallRecords]
         /\ \A r \in Slots : call[r].op = "none" <=> call[r].doc = Nil

LEMMA StockTypes ==
  StockTypeOK <=> /\ state \in [Documents -> Statuses]
                  /\ wip \in [ProductionOrders -> Int] /\ held \in [Lines -> Int]
                  /\ entered \subseteq CustomerReturns
                  /\ level \in [Rows -> Int]
                  /\ Calls
BY DEF StockTypeOK, Calls, CallRecords

\* A request ends, ...
LEMMA Finished ==
  ASSUME Calls, NEW r \in Slots, Finish(r)
  PROVE  /\ Calls' /\ call'[r] = NoCall /\ Carried(r)'
         /\ \A q \in Slots \ {r} : call'[q] = call[q]
<1>1. call'[r] = NoCall /\ \A q \in Slots \ {r} : call'[q] = call[q]
  BY DEF Finish, Calls
<1>2. NoCall \in CallRecords /\ NoCall.op = "none" /\ NoCall.doc = Nil /\ NoCall.seen = 0
  BY DEF NoCall, CallRecords
<1>3. Calls'
  BY <1>1, <1>2 DEF Finish, Calls
<1> QED BY <1>1, <1>2, <1>3 DEF Carried

\* ... or begins: it knows its document, and what it read of a total leaves room for it.
LEMMA BegunTyped ==
  ASSUME StockInv, NEW r \in Slots, Begun(r)
  PROVE  /\ Calls' /\ Carried(r)' /\ call'[r].op \notin {"completing", "receiving"}
         /\ \A q \in Slots \ {r} : call'[q] = call[q]
         /\ UNCHANGED <<state, wip, held, entered, level, outdated>>
<1> DEFINE Goal == /\ Calls' /\ Carried(r)' /\ call'[r].op \notin {"completing", "receiving"}
                   /\ \A q \in Slots \ {r} : call'[q] = call[q]
                   /\ UNCHANGED <<state, wip, held, entered, level, outdated>>
<1>a. Calls /\ held \in [Lines -> Int]
  BY StockTypes DEF StockInv
<1>1. ASSUME NEW op \in Operations, NEW d \in Documents, NEW basis \in Int,
             Begin(r, op, d, basis, 0), op \notin {"completing", "receiving"}
      PROVE  /\ Calls' /\ call'[r].op \notin {"completing", "receiving"}
             /\ call'[r].op = op /\ call'[r].doc = d /\ call'[r].basis = basis /\ call'[r].seen = 0
             /\ \A q \in Slots \ {r} : call'[q] = call[q]
             /\ UNCHANGED <<state, wip, held, entered, level, outdated>>
  <2>1. call' = [call EXCEPT ![r] = Doing(op, d, basis, 0)]
    BY <1>1 DEF Begin
  <2>2. /\ call'[r] = [op |-> op, doc |-> d, basis |-> basis, seen |-> 0]
        /\ \A q \in Slots \ {r} : call'[q] = call[q]
    BY <2>1, <1>a DEF Doing, Calls
  <2>3. call'[r] \in CallRecords /\ op # "none" /\ d # Nil
    BY <2>2, Quantities DEF CallRecords, Operations
  <2>4. call' \in [Slots -> CallRecords]
    BY <2>1, <2>3, <2>2, <1>a DEF Calls
  <2>5. Calls'
    BY <2>2, <2>3, <2>4, <1>a DEF Calls
  <2> QED BY <2>2, <2>5, <1>1 DEF Begin
<1>2. ASSUME NEW i \in Issues, BeginIssue(r, i)
      PROVE  Goal
  <2>1. PICK basis \in Int : basis = Issued(ProductionOf[i])
    BY IssuedTyped, Quantities
  <2>2. /\ Begin(r, "issue", i, basis, 0) /\ "issue" \in Operations
        /\ i \in Documents
    BY <1>2, <2>1, Quantities DEF BeginIssue, Operations
  <2>3. basis + Amount[i] <= Required[ProductionOf[i]]
    BY <1>2, <2>1, Quantities DEF BeginIssue, Outstanding
  <2> QED BY <2>2, <2>3, <1>1 DEF Carried
<1>3. ASSUME NEW o \in ProductionOrders, BeginCompletion(r, o)
      PROVE  Goal
  <2>1. PICK basis \in Int : basis = Issued(o)
    BY IssuedTyped
  <2>2. /\ Begin(r, "complete", o, basis, 0) /\ "complete" \in Operations
        /\ o \in Documents
    BY <1>3, <2>1, Quantities DEF BeginCompletion, Operations
  <2>3. Issued(o)' = Issued(o)
    BY <2>2, <1>1 DEF Issued
  <2>4. /\ Calls' /\ call'[r].op = "complete" /\ call'[r].doc = o /\ call'[r].basis = basis
        /\ call'[r].seen = 0 /\ \A q \in Slots \ {r} : call'[q] = call[q]
        /\ UNCHANGED <<state, wip, held, entered, level, outdated>>
    BY <2>2, <1>1
  <2>5. Carried(r)'
    BY <2>1, <2>3, <2>4 DEF Carried
  <2> QED BY <2>4, <2>5
<1>4. ASSUME NEW d \in Parts, BeginIssuePart(r, d) \/ BeginCancelPart(r, d)
      PROVE  Goal
  <2>1. PICK op \in {"issuePart", "cancelPart"} : Begin(r, op, d, 0, 0)
    BY <1>4 DEF BeginIssuePart, BeginCancelPart
  <2>2. op \in Operations /\ d \in Documents
    BY Quantities DEF Operations
  <2> QED BY <2>1, <2>2, <1>1 DEF Carried
<1>5. ASSUME NEW c \in CustomerReturns,
             BeginRequest(r, c) \/ BeginReceive(r, c) \/ BeginCancelReturn(r, c)
      PROVE  Goal
  <2>a. LineOf[c] \in Lines /\ held[LineOf[c]] \in Int /\ c \in Documents
        /\ Amount[c] \in Nat /\ Shipped[LineOf[c]] \in Nat
    BY <1>a, Quantities
  <2>1. PICK op \in {"request", "receive", "cancelReturn"}, basis \in Int :
          /\ Begin(r, op, c, basis, 0)
          /\ op = "request" => basis + Amount[c] <= Shipped[LineOf[c]]
    <3>1. CASE BeginRequest(r, c)
      <4>1. PICK basis \in Int : basis = held[LineOf[c]]
        BY <2>a
      <4> QED BY <4>1, <3>1, <2>a DEF BeginRequest
    <3>2. CASE BeginReceive(r, c) \/ BeginCancelReturn(r, c)
      BY <3>2 DEF BeginReceive, BeginCancelReturn
    <3> QED BY <1>5, <3>1, <3>2
  <2>2. op \in Operations
    BY DEF Operations
  <2> QED BY <2>a, <2>1, <2>2, <1>1 DEF Carried
<1>6. Goal
  <2> HIDE DEF Goal
  <2> QED BY <1>2, <1>3, <1>4, <1>5 DEF Begun
<1> QED BY <1>6

\* A request that claims its order, or takes from its outlet's row, reads the row it will write.
LEMMA ClaimedTyped ==
  ASSUME StockInv, NEW r \in Slots, ClaimProduction(r) \/ TakeFromOutlet(r)
  PROVE  /\ Calls' /\ Carried(r)' /\ call'[r].doc = call[r].doc
         /\ call'[r].op = IF call[r].op = "complete" THEN "completing" ELSE "receiving"
         /\ \A q \in Slots \ {r} : call'[q] = call[q]
         /\ UNCHANGED <<state, wip, held, entered, level, outdated>>
<1> DEFINE d == call[r].doc
           new == IF call[r].op = "complete" THEN "completing" ELSE "receiving"
<1>a. /\ Calls /\ level \in [Rows -> Int] /\ Carried(r) /\ \A w \in Rows : level[w] >= 0
      /\ \A w \in Rows : w # Nil
  BY StockTypes, Quantities DEF StockInv, RowsFollowDocuments
<1>1. /\ call[r].op \in {"complete", "receive"} /\ Into[d] \in Rows /\ d \in Documents
      /\ call' = [call EXCEPT ![r].op = new, ![r].seen = level[Into[d]]]
      /\ UNCHANGED <<state, wip, held, entered, level, outdated>>
  BY <1>a, NamedRows, Quantities
     DEF ClaimProduction, TakeFromOutlet, At, Carried
<1>2. /\ call'[r] = [call[r] EXCEPT !.op = new, !.seen = level[Into[d]]]
      /\ \A q \in Slots \ {r} : call'[q] = call[q]
  BY <1>1, <1>a DEF Calls
<1> HIDE DEF new
<1>3. /\ call'[r].op = new /\ call'[r].doc = d /\ call'[r].basis = call[r].basis
      /\ call'[r].seen = level[Into[d]]
  BY <1>2, <1>a DEF Calls, CallRecords
<1>4. new \in Operations /\ new # "none" /\ d # Nil /\ level[Into[d]] \in Int
  BY <1>1, <1>a, Quantities DEF new, Operations
<1>5. Calls'
  <2>1. call'[r] \in CallRecords
    BY <1>2, <1>4, <1>a DEF Calls, CallRecords
  <2>2. call' \in [Slots -> CallRecords]
    BY <2>1, <1>1, <1>2, <1>a DEF Calls
  <2> QED BY <2>2, <1>2, <1>3, <1>4, <1>a DEF Calls
<1>6. Carried(r)'
  <2>1. CASE ClaimProduction(r)
    <3>1. d \in ProductionOrders /\ state'[d] = "IN_PROGRESS" /\ new = "completing"
      BY <2>1, <1>1, <1>a DEF Carried, ClaimProduction, At, Completable, new
    <3>2. PICK o \in ProductionOrders : o = d
      BY <3>1
    <3>3. call[r].basis <= Issued(o)
      BY <2>1, <3>2, <1>a DEF Carried, ClaimProduction, At
    <3>4. Issued(o)' = Issued(o)
      BY <1>1, IssuedSame
    <3> QED BY <3>1, <3>2, <3>3, <3>4, <1>1, <1>3, <1>a DEF Carried
  <2>2. CASE TakeFromOutlet(r)
    <3>1. d \in CustomerReturns /\ new = "receiving"
      BY <2>2, <1>a DEF Carried, TakeFromOutlet, At, new
    <3>2. From[d] # Nil => level[From[d]] >= Amount[d]
      BY <2>2 DEF TakeFromOutlet, CanTake
    <3> QED BY <3>1, <3>2, <1>1, <1>3, <1>a DEF Carried
  <2> QED BY <2>1, <2>2
<1> QED BY <1>1, <1>2, <1>3, <1>5, <1>6 DEF new

LEMMA StockTypeStep ==
  ASSUME StockInv, [StockNext]_stockVars
  PROVE  StockTypeOK'
<1> DEFINE Goal == /\ state' \in [Documents -> Statuses]
                   /\ wip' \in [ProductionOrders -> Int] /\ held' \in [Lines -> Int]
                   /\ entered' \subseteq CustomerReturns
                   /\ level' \in [Rows -> Int]
                   /\ Calls'
<1>a. /\ state \in [Documents -> Statuses]
      /\ wip \in [ProductionOrders -> Int] /\ held \in [Lines -> Int]
      /\ entered \subseteq CustomerReturns
      /\ level \in [Rows -> Int]
      /\ Calls
  BY StockTypes DEF StockInv
<1>b. \A r \in Slots : Carried(r) /\ call[r] \in CallRecords
  BY <1>a DEF StockInv, Calls
<1>c. {"NONE", "PLANNED", "IN_PROGRESS", "REQUESTED", "COMPLETED", "CANCELLED", "REVERSED",
       "ISSUED", "RECEIVED"} \subseteq Statuses
  BY DEF Statuses
<1>1. ASSUME NEW r \in Slots, Begun(r) PROVE Goal
  BY <1>1, <1>a, BegunTyped
<1>2. ASSUME NEW r \in Slots, ClaimProduction(r) \/ TakeFromOutlet(r) PROVE Goal
  BY <1>2, <1>a, ClaimedTyped
<1>3. ASSUME NEW r \in Slots, IssueMaterial(r) PROVE Goal
  <2> DEFINE i == call[r].doc
  <2>1. Finish(r) /\ i \in Issues /\ Amount[i] \in Nat
    BY <1>3, <1>b, Quantities DEF IssueMaterial, At, Carried
  <2>2. /\ state' = [state EXCEPT ![ProductionOf[i]] = "IN_PROGRESS", ![i] = "ISSUED"]
        /\ wip' = [wip EXCEPT ![ProductionOf[i]] = @ + Amount[i]]
        /\ level' = [level EXCEPT ![From[i]] = @ - Amount[i]]
        /\ UNCHANGED <<held, entered>>
    BY <1>3 DEF IssueMaterial, Take
  <2> HIDE DEF i
  <2>3. state' \in [Documents -> Statuses]
    BY <2>2, <1>a, <1>c
  <2>4. /\ wip[ProductionOf[i]] + Amount[i] \in Int
        /\ level[From[i]] - Amount[i] \in Int
    BY <2>1, <1>a, Quantities, NamedRows
  <2>5. wip' \in [ProductionOrders -> Int]
    BY <2>1, <2>2, <2>4, <1>a
  <2>6. level' \in [Rows -> Int]
    BY <2>1, <2>2, <2>4, <1>a
  <2> QED BY <2>1, <2>2, <2>3, <2>5, <2>6, <1>a, Finished
<1>4. ASSUME NEW r \in Slots, CompleteProduction(r) PROVE Goal
  <2> DEFINE o == call[r].doc
             seen == call[r].seen
             basis == call[r].basis
  <2>1. Finish(r) /\ o \in ProductionOrders /\ Amount[o] \in Nat /\ seen \in Int /\ basis \in Int
    BY <1>4, <1>b, Quantities DEF CompleteProduction, At, Carried, CallRecords
  <2>2. /\ state' = [state EXCEPT ![o] = "COMPLETED"]
        /\ wip' = [wip EXCEPT ![o] = @ - basis]
        /\ level' = [level EXCEPT ![Into[o]] = seen + Amount[o]]
        /\ UNCHANGED <<held, entered>>
    BY <1>4 DEF CompleteProduction, SetStatus
  <2> HIDE DEF o, seen, basis
  <2>3. state' \in [Documents -> Statuses]
    BY <2>2, <1>a, <1>c
  <2>4. wip[o] - basis \in Int /\ seen + Amount[o] \in Int
    BY <2>1, <1>a
  <2>5. wip' \in [ProductionOrders -> Int]
    BY <2>1, <2>2, <2>4, <1>a
  <2>6. level' \in [Rows -> Int]
    BY <2>1, <2>2, <2>4, <1>a
  <2> QED BY <2>1, <2>2, <2>3, <2>5, <2>6, <1>a, Finished
<1>5. ASSUME NEW r \in Slots, IssuePart(r) \/ CancelPart(r) PROVE Goal
  <2> DEFINE d == call[r].doc
  <2>1. Finish(r) /\ d \in Parts /\ Amount[d] \in Nat /\ UNCHANGED <<wip, held, entered>>
    BY <1>5, <1>b, Quantities DEF IssuePart, CancelPart, At, Carried
  <2>2. /\ \/ state' = [state EXCEPT ![d] = "ISSUED"]
           \/ state' = [state EXCEPT ![d] = "CANCELLED"]
        /\ level' = level \/ level' = [level EXCEPT ![From[d]] = @ - Amount[d]]
    BY <1>5 DEF IssuePart, CancelPart, SetStatus, Take
  <2> HIDE DEF d
  <2>3. state' \in [Documents -> Statuses]
    BY <2>2, <1>a, <1>c
  <2>4. level' \in [Rows -> Int]
    BY <2>1, <2>2, <1>a
  <2> QED BY <2>1, <2>3, <2>4, <1>a, Finished
<1>6. ASSUME NEW r \in Slots, RequestReturn(r) \/ CancelReturn(r) PROVE Goal
  <2> DEFINE c == call[r].doc
  <2>1. Finish(r) /\ c \in CustomerReturns /\ Amount[c] \in Nat /\ UNCHANGED <<wip, entered, level>>
    BY <1>6, <1>b, Quantities DEF RequestReturn, CancelReturn, At, Carried
  <2>2. /\ \/ state' = [state EXCEPT ![c] = "REQUESTED"]
           \/ state' = [state EXCEPT ![c] = "CANCELLED"]
        /\ \/ held' = [held EXCEPT ![LineOf[c]] = @ + Amount[c]]
           \/ held' = [held EXCEPT ![LineOf[c]] = @ - Amount[c]]
    BY <1>6 DEF RequestReturn, CancelReturn, SetStatus, Released
  <2> HIDE DEF c
  <2>3. state' \in [Documents -> Statuses]
    BY <2>2, <1>a, <1>c
  <2>4. held' \in [Lines -> Int]
    BY <2>1, <2>2, <1>a
  <2> QED BY <2>1, <2>3, <2>4, <1>a, Finished
<1>7. ASSUME NEW r \in Slots, ReceiveReturn(r) PROVE Goal
  <2> DEFINE c == call[r].doc
             n == Resalable[c]
             seen == call[r].seen
  <2>1. /\ Finish(r) /\ c \in CustomerReturns /\ c \in Documents /\ Amount[c] \in Nat
        /\ n \in Nat /\ seen \in Int /\ UNCHANGED <<wip, held>>
    BY <1>7, <1>b, Quantities DEF ReceiveReturn, At, Carried, CallRecords
  <2>2. /\ state' = [state EXCEPT ![c] = "RECEIVED"]
        /\ level' = [v \in Rows |-> (IF n > 0 /\ v = Into[c] THEN seen + n ELSE level[v])
                                      - (IF v = From[c] THEN Amount[c] ELSE 0)]
        /\ entered' \in {entered, entered \cup {c}}
    BY <1>7 DEF ReceiveReturn, SetStatus
  <2> HIDE DEF c, seen, n
  <2>3. state' \in [Documents -> Statuses]
    BY <2>2, <1>a, <1>c
  <2>4. level' \in [Rows -> Int]
    BY <2>1, <2>2, <1>a
  <2> QED BY <2>1, <2>2, <2>3, <2>4, <1>a, Finished
<1>8. ASSUME NEW r \in Slots, Abort(r) PROVE Goal
  BY <1>8, <1>a, Finished DEF Abort
<1>9. ASSUME NEW o \in ProductionOrders, Plan(o) \/ CancelOrder(o) PROVE Goal
  BY <1>9, <1>a, <1>c DEF Plan, CancelOrder, SetStatus, Calls
<1>10. ASSUME NEW t \in Transfers, CreateTransfer(t) \/ ReverseTransfer(t) PROVE Goal
  <2>1. /\ UNCHANGED <<wip, held, entered, call>>
        /\ \/ state' = [state EXCEPT ![t] = "COMPLETED"]
           \/ state' = [state EXCEPT ![t] = "REVERSED"]
        /\ \/ level' = [u \in Rows |-> level[u] + (IF u = Into[t] THEN Amount[t] ELSE 0)
                                                  - (IF u = From[t] THEN Amount[t] ELSE 0)]
           \/ level' = [u \in Rows |-> level[u] + (IF u = From[t] THEN Amount[t] ELSE 0)
                                                  - (IF u = Into[t] THEN Amount[t] ELSE 0)]
    BY <1>10 DEF CreateTransfer, ReverseTransfer, SetStatus, Move
  <2>2. Amount[t] \in Nat
    BY Quantities
  <2>3. state' \in [Documents -> Statuses]
    BY <2>1, <1>a, <1>c
  <2>4. level' \in [Rows -> Int]
    BY <2>1, <2>2, <1>a
  <2> QED BY <2>1, <2>3, <2>4, <1>a DEF Calls
<1>11. ASSUME NEW j \in Adjustments, AdjustStock(j) PROVE Goal
  <2>1. /\ UNCHANGED <<wip, held, entered, call>>
        /\ state' = [state EXCEPT ![j] = "COMPLETED"]
        /\ \/ level' = [level EXCEPT ![Into[j]] = @ + Amount[j]]
           \/ level' = [level EXCEPT ![From[j]] = @ - Amount[j]]
    BY <1>11 DEF AdjustStock, SetStatus, Take
  <2>2. Amount[j] \in Nat
    BY Quantities
  <2>3. state' \in [Documents -> Statuses]
    BY <2>1, <1>a, <1>c
  <2>4. level' \in [Rows -> Int]
    BY <2>1, <2>2, <1>a
  <2> QED BY <2>1, <2>3, <2>4, <1>a DEF Calls
<1>12. ASSUME UNCHANGED stockVars PROVE Goal
  BY <1>12, <1>a DEF stockVars, Calls
<1>13. Goal
  <2> HIDE DEF Goal
  <2> QED BY <1>1, <1>2, <1>3, <1>4, <1>5, <1>6, <1>7, <1>8, <1>9, <1>10, <1>11, <1>12 DEF StockNext
<1> QED BY <1>13, StockTypes DEF StockTypeOK, Calls, CallRecords

\* What document d says it did to row w, once it is done.
Net(d, w) == Brought(w)[d] - Taken(w)[d]

\* What StockFollowsDocuments says of the quantity in a row.
Balanced(w) ==
  \/ <<w, "stock">> \in outdated
  \/ \E d \in Documents : w \in {From[d], Into[d]} /\ <<d, "status">> \in outdated
  \/ level[w] = OpeningLevel[w] + Sum(Brought(w), Moved)
                          - Sum(Taken(w), Moved)

LEMMA NetIs ==
  ASSUME NEW d \in Documents, NEW w \in Rows
  PROVE  /\ Brought(w)[d] \in Nat /\ Taken(w)[d] \in Nat
         /\ Net(d, w) = (IF Into[d] # w THEN 0
                         ELSE IF d \in CustomerReturns THEN Resalable[d] ELSE Amount[d])
                          - (IF From[d] = w THEN Amount[d] ELSE 0)
BY Quantities DEF Net, Brought, Taken

LEMMA MovedNext ==
  /\ \A d \in Documents : d \in Moved' <=> state'[d] = Done(d)
  /\ Moved' \subseteq Documents
BY KindsApart DEF Moved, Done, Documents

\* The sums stay as they are while the same documents are done, ...
LEMMA BalancedSame ==
  ASSUME NEW w \in Rows, Balanced(w), level'[w] = level[w], outdated \subseteq outdated',
         \A x \in Documents : state'[x] = Done(x) <=> state[x] = Done(x)
  PROVE  Balanced(w)'
<1>1. Moved' = Moved
  BY MovedIs, MovedNext
<1>2. \/ <<w, "stock">> \in outdated'
      \/ \E d \in Documents : w \in {From[d], Into[d]} /\ <<d, "status">> \in outdated'
      \/ level'[w] = OpeningLevel[w] + Sum(Brought(w), Moved)
                               - Sum(Taken(w), Moved)
  BY DEF Balanced
<1> QED BY <1>1, <1>2 DEF Balanced

\* ... and follow the one document that is done or undone when its rows do.
LEMMA BalancedStep ==
  ASSUME NEW w \in Rows, Balanced(w), level[w] \in Int, level'[w] \in Int,
         outdated \subseteq outdated', NEW d \in Documents,
         \A x \in Documents \ {d} : state'[x] = Done(x) <=> state[x] = Done(x),
         \/ <<w, "stock">> \in outdated'
         \/ w \in {From[d], Into[d]} /\ <<d, "status">> \in outdated'
         \/ level'[w] - (IF state'[d] = Done(d) THEN Net(d, w) ELSE 0)
              = level[w] - (IF state[d] = Done(d) THEN Net(d, w) ELSE 0)
  PROVE  Balanced(w)'
<1> DEFINE M == Moved
           N == Moved'
           brought == Brought(w)
           taken == Taken(w)
           exempt == \/ <<w, "stock">> \in outdated'
                     \/ \E x \in Documents : w \in {From[x], Into[x]} /\ <<x, "status">> \in outdated'
<1>1. /\ M \in SUBSET Documents /\ N \in SUBSET Documents /\ M \ {d} = N \ {d}
      /\ (d \in M) = (state[d] = Done(d)) /\ (d \in N) = (state'[d] = Done(d))
  BY MovedIs, MovedNext
<1>2. \A x \in Documents : brought[x] \in Nat /\ taken[x] \in Nat
  BY NetIs
<1>3. \/ exempt
      \/ level[w] = OpeningLevel[w] + Sum(brought, M) - Sum(taken, M)
  BY DEF Balanced
<1>4. Balanced(w)' <=> \/ exempt
                       \/ level'[w] = OpeningLevel[w] + Sum(brought, N) - Sum(taken, N)
  BY DEF Balanced
<1>5. OpeningLevel[w] \in Nat /\ Net(d, w) = brought[d] - taken[d]
  BY Quantities DEF Net
<1> HIDE DEF M, N, brought, taken
<1>6. PICK in \in Nat : /\ Sum(brought, M) = in + IF d \in M THEN brought[d] ELSE 0
                        /\ Sum(brought, N) = in + IF d \in N THEN brought[d] ELSE 0
  BY <1>1, <1>2, SumsDiffer
<1>7. PICK out \in Nat : /\ Sum(taken, M) = out + IF d \in M THEN taken[d] ELSE 0
                         /\ Sum(taken, N) = out + IF d \in N THEN taken[d] ELSE 0
  BY <1>1, <1>2, SumsDiffer
<1>8. CASE level'[w] - (IF state'[d] = Done(d) THEN Net(d, w) ELSE 0)
             = level[w] - (IF state[d] = Done(d) THEN Net(d, w) ELSE 0) /\ ~exempt
  <2> DEFINE gone == IF d \in M THEN Net(d, w) ELSE 0
             come == IF d \in N THEN Net(d, w) ELSE 0
  <2>1. level'[w] - come = level[w] - gone
    BY <1>1, <1>8
  <2>2. brought[d] \in Nat /\ taken[d] \in Nat
    BY <1>2
  <2>3. level[w] = OpeningLevel[w] + in - out + gone
    BY <1>3, <1>5, <1>6, <1>7, <1>8, <2>2
  <2>4. gone \in Int /\ come \in Int
    BY <1>5, <2>2
  <2>5. Sum(brought, N) - Sum(taken, N) = in - out + come
    BY <1>5, <1>6, <1>7, <2>2
  <2>6. Sum(brought, N) \in Int /\ Sum(taken, N) \in Int
    BY <1>6, <1>7, <2>2
  <2> HIDE DEF gone, come
  <2>7. level'[w] = OpeningLevel[w] + Sum(brought, N) - Sum(taken, N)
    BY <1>5, <2>1, <2>3, <2>4, <2>5, <2>6
  <2> QED BY <1>4, <2>7
<1>9. CASE exempt
  BY <1>4, <1>9
<1> QED BY <1>8, <1>9

LEMMA StockRowsStep ==
  ASSUME StockInv, [StockNext]_stockVars
  PROVE  RowsFollowDocuments'
<1> DEFINE Goal == \A w \in Rows : level'[w] >= 0 /\ Balanced(w)'
<1>a. /\ state \in [Documents -> Statuses] /\ level \in [Rows -> Int] /\ Calls
      /\ \A w \in Rows : level[w] \in Int /\ level[w] >= 0 /\ Balanced(w)
      /\ \A r \in Slots : Carried(r) /\ call[r] \in CallRecords
  BY StockTypes DEF StockInv, RowsFollowDocuments, Balanced, Calls
<1>b. \A w \in Rows : level'[w] \in Int
  BY StockTypeStep DEF StockTypeOK
<1>1. ASSUME UNCHANGED <<level, outdated>>,
             \A x \in Documents : state'[x] = Done(x) <=> state[x] = Done(x)
      PROVE  Goal
  BY <1>1, <1>a, BalancedSame
<1>2. ASSUME NEW r \in Slots, Begun(r) \/ ClaimProduction(r) \/ TakeFromOutlet(r)
      PROVE  Goal
  BY <1>1, <1>2, BegunTyped, ClaimedTyped
<1>3. ASSUME NEW r \in Slots, IssueMaterial(r) PROVE Goal
  <2>1. PICK i \in Issues : i = call[r].doc
    BY <1>3, <1>a DEF IssueMaterial, At, Carried
  <2>2. PICK o \in ProductionOrders : o = ProductionOf[i]
    BY Quantities
  <2>3. /\ i \in Documents /\ o \in Documents /\ i # o /\ From[i] \in Rows /\ Into[i] = Nil
        /\ Amount[i] \in Nat /\ i \notin CustomerReturns
        /\ Done(i) = "ISSUED" /\ Done(o) = "COMPLETED"
    BY Quantities, KindsApart, NamedRows DEF Done
  <2>4. /\ state[i] = "NONE" /\ state[o] \in {"PLANNED", "IN_PROGRESS"}
        /\ state' = [state EXCEPT ![o] = "IN_PROGRESS", ![i] = "ISSUED"]
        /\ level[From[i]] >= Amount[i]
        /\ level' = [level EXCEPT ![From[i]] = @ - Amount[i]]
        /\ outdated \subseteq outdated'
    BY <1>3, <2>1, <2>2 DEF IssueMaterial, Take, CanTake
  <2>5. /\ state'[i] = Done(i) /\ state[i] # Done(i)
        /\ \A x \in Documents \ {i} : state'[x] = Done(x) <=> state[x] = Done(x)
    BY <2>3, <2>4, <1>a
  <2>6. ASSUME NEW w \in Rows PROVE level'[w] >= 0 /\ Balanced(w)'
    <3>1. Net(i, w) = 0 - (IF From[i] = w THEN Amount[i] ELSE 0)
      BY <2>3, NetIs, Quantities
    <3>2. level'[w] = level[w] - (IF From[i] = w THEN Amount[i] ELSE 0) /\ level[w] \in Int
      BY <2>4, <1>a
    <3>3. level'[w] >= 0
      BY <3>2, <2>3, <2>4, <1>a
    <3>4. level'[w] - Net(i, w) = level[w]
      BY <3>1, <3>2, <2>3
    <3>5. level'[w] - (IF state'[i] = Done(i) THEN Net(i, w) ELSE 0)
            = level[w] - (IF state[i] = Done(i) THEN Net(i, w) ELSE 0)
      BY <3>4, <3>2, <2>5
    <3>6. Balanced(w)'
      BY <3>5, <3>2, <2>3, <2>4, <2>5, <1>a, <1>b, BalancedStep
    <3> QED BY <3>3, <3>6
  <2> QED BY <2>6
<1>4. ASSUME NEW r \in Slots, CompleteProduction(r) PROVE Goal
  <2>1. PICK o \in ProductionOrders : o = call[r].doc
    BY <1>4, <1>a DEF CompleteProduction, At, Carried
  <2>2. PICK seen \in Int : seen = call[r].seen /\ seen >= 0
    BY <1>a DEF CallRecords, Carried
  <2>3. /\ o \in Documents /\ From[o] = Nil /\ Into[o] \in Rows /\ Amount[o] \in Nat
        /\ o \notin CustomerReturns /\ Done(o) = "COMPLETED"
    BY Quantities, KindsApart, NamedRows DEF Done
  <2>4. /\ state[o] = "IN_PROGRESS"
        /\ state' = [state EXCEPT ![o] = "COMPLETED"]
        /\ level' = [level EXCEPT ![Into[o]] = seen + Amount[o]]
        /\ outdated \subseteq outdated'
        /\ level[Into[o]] # seen => <<Into[o], "stock">> \in outdated'
    BY <1>4, <1>a, <2>1, <2>2 DEF CompleteProduction, SetStatus, At, Carried
  <2>5. /\ state'[o] = Done(o) /\ state[o] # Done(o)
        /\ \A x \in Documents \ {o} : state'[x] = Done(x) <=> state[x] = Done(x)
    BY <2>3, <2>4, <1>a
  <2>6. ASSUME NEW w \in Rows PROVE level'[w] >= 0 /\ Balanced(w)'
    <3>1. Net(o, w) = IF Into[o] = w THEN Amount[o] ELSE 0
      BY <2>3, NetIs, Quantities
    <3>2. level'[w] = (IF Into[o] = w THEN seen + Amount[o] ELSE level[w]) /\ level[w] \in Int
      BY <2>4, <1>a
    <3>3. level'[w] >= 0
      BY <3>2, <2>2, <2>3, <1>a
    <3>4. \/ <<w, "stock">> \in outdated'
          \/ level'[w] - Net(o, w) = level[w]
      BY <3>1, <3>2, <2>2, <2>3, <2>4
    <3>5. \/ <<w, "stock">> \in outdated'
          \/ level'[w] - (IF state'[o] = Done(o) THEN Net(o, w) ELSE 0)
               = level[w] - (IF state[o] = Done(o) THEN Net(o, w) ELSE 0)
      BY <3>4, <3>2, <2>5
    <3>6. Balanced(w)'
      BY <3>5, <3>2, <2>3, <2>4, <2>5, <1>a, <1>b, BalancedStep
    <3> QED BY <3>3, <3>6
  <2> QED BY <2>6
<1>5. ASSUME NEW r \in Slots, IssuePart(r) PROVE Goal
  <2>1. PICK d \in Parts : d = call[r].doc
    BY <1>5, <1>a DEF IssuePart, At, Carried
  <2>2. /\ d \in Documents /\ From[d] \in Rows /\ Into[d] = Nil /\ Amount[d] \in Nat
        /\ d \notin CustomerReturns /\ Done(d) = "ISSUED"
    BY Quantities, KindsApart, NamedRows DEF Done
  <2>3. /\ state' = [state EXCEPT ![d] = "ISSUED"]
        /\ level[From[d]] >= Amount[d]
        /\ level' = [level EXCEPT ![From[d]] = @ - Amount[d]]
        /\ outdated \subseteq outdated'
        /\ state[d] # "REQUESTED" => <<d, "status">> \in outdated'
    BY <1>5, <2>1
       DEF IssuePart, Take, CanTake, SetStatus, Overwrites
  <2>4. /\ state'[d] = Done(d)
        /\ \A x \in Documents \ {d} : state'[x] = Done(x) <=> state[x] = Done(x)
    BY <2>2, <2>3, <1>a
  <2>5. ASSUME NEW w \in Rows PROVE level'[w] >= 0 /\ Balanced(w)'
    <3>1. Net(d, w) = 0 - (IF From[d] = w THEN Amount[d] ELSE 0)
      BY <2>2, NetIs, Quantities
    <3>2. level'[w] = level[w] - (IF From[d] = w THEN Amount[d] ELSE 0) /\ level[w] \in Int
      BY <2>3, <1>a
    <3>3. level'[w] >= 0
      BY <3>2, <2>2, <2>3, <1>a
    <3>4. \/ w \in {From[d], Into[d]} /\ <<d, "status">> \in outdated'
          \/ level'[w] - Net(d, w) = level[w] - (IF state[d] = Done(d) THEN Net(d, w) ELSE 0)
      BY <3>1, <3>2, <2>2, <2>3
    <3>5. Balanced(w)'
      BY <3>4, <3>2, <2>2, <2>3, <2>4, <1>a, <1>b, BalancedStep
    <3> QED BY <3>3, <3>5
  <2> QED BY <2>5
<1>6. ASSUME NEW r \in Slots, CancelPart(r) \/ CancelReturn(r) PROVE Goal
  <2>1. PICK d \in Parts \cup CustomerReturns : d = call[r].doc
    BY <1>6, <1>a DEF CancelPart, CancelReturn, At, Carried
  <2>2. /\ d \in Documents /\ Done(d) \in {"ISSUED", "RECEIVED"}
        /\ d \in Parts => Done(d) = "ISSUED"
        /\ d \in CustomerReturns => Done(d) = "RECEIVED"
    BY Quantities, KindsApart DEF Done
  <2>3. /\ state' = [state EXCEPT ![d] = "CANCELLED"] /\ level' = level
        /\ outdated \subseteq outdated'
        /\ state[d] = Done(d) => <<d, "status">> \in outdated'
    <3>1. CASE CancelPart(r)
      <4>1. d \in Parts
        BY <3>1, <2>1, <1>a DEF CancelPart, At, Carried
      <4> QED BY <3>1, <4>1, <2>1, <2>2 DEF CancelPart, SetStatus
    <3>2. CASE CancelReturn(r)
      BY <3>2, <2>1, <2>2 DEF CancelReturn, SetStatus, Overwrites
    <3> QED BY <1>6, <3>1, <3>2
  <2>4. /\ state'[d] # Done(d)
        /\ \A x \in Documents \ {d} : state'[x] = Done(x) <=> state[x] = Done(x)
    BY <2>2, <2>3, <1>a
  <2>5. ASSUME NEW w \in Rows PROVE level'[w] >= 0 /\ Balanced(w)'
    <3>1. \/ w \in {From[d], Into[d]}
          \/ Net(d, w) = 0
      BY <2>2, NetIs
    <3>2. level'[w] = level[w] /\ level[w] \in Int
      BY <2>3, <1>a
    <3>3. \/ w \in {From[d], Into[d]} /\ <<d, "status">> \in outdated'
          \/ level'[w] - 0 = level[w] - (IF state[d] = Done(d) THEN Net(d, w) ELSE 0)
      BY <3>1, <3>2, <2>3
    <3>4. Balanced(w)'
      BY <3>3, <3>2, <2>2, <2>3, <2>4, <1>a, <1>b, BalancedStep
    <3> QED BY <3>2, <3>4, <1>a
  <2> QED BY <2>5
<1>7. ASSUME NEW r \in Slots, RequestReturn(r) PROVE Goal
  <2>1. PICK c \in CustomerReturns : c = call[r].doc
    BY <1>7, <1>a DEF RequestReturn, At, Carried
  <2>2. c \in Documents /\ Done(c) = "RECEIVED"
    BY Quantities, KindsApart DEF Done
  <2>3. /\ state' = [state EXCEPT ![c] = "REQUESTED"] /\ state[c] = "NONE" /\ level' = level
        /\ outdated \subseteq outdated'
    BY <1>7, <2>1 DEF RequestReturn, SetStatus
  <2>4. \A x \in Documents : state'[x] = Done(x) <=> state[x] = Done(x)
    BY <2>2, <2>3, <1>a
  <2> QED BY <2>3, <2>4, <1>a, BalancedSame
<1>8. ASSUME NEW r \in Slots, ReceiveReturn(r) PROVE Goal
  <2>1. PICK c \in CustomerReturns : c = call[r].doc
    BY <1>8, <1>a DEF ReceiveReturn, At, Carried
  <2>2. PICK seen \in Int : seen = call[r].seen /\ seen >= 0
    BY <1>a DEF CallRecords, Carried
  <2>3. /\ c \in Documents /\ Into[c] \in Rows /\ Amount[c] \in Nat /\ Resalable[c] \in Nat
        /\ From[c] \in Rows \cup {Nil} /\ Done(c) = "RECEIVED"
    BY Quantities, KindsApart, NamedRows DEF Done
  <2> DEFINE n == Resalable[c]
  <2>4. /\ state' = [state EXCEPT ![c] = "RECEIVED"]
        /\ level' = [v \in Rows |-> (IF n > 0 /\ v = Into[c] THEN seen + n ELSE level[v])
                                      - (IF v = From[c] THEN Amount[c] ELSE 0)]
        /\ outdated \subseteq outdated'
        /\ state[c] # "REQUESTED" => <<c, "status">> \in outdated'
        /\ n > 0 /\ seen # level[Into[c]] => <<Into[c], "stock">> \in outdated'
    BY <1>8, <2>1, <2>2 DEF ReceiveReturn, SetStatus, Overwrites
  <2>5. /\ state'[c] = Done(c)
        /\ \A x \in Documents \ {c} : state'[x] = Done(x) <=> state[x] = Done(x)
    BY <2>3, <2>4, <1>a
  <2>6. From[c] # Nil => /\ level[From[c]] >= Amount[c]
                         /\ Into[c] = From[c] => seen >= Amount[c]
    BY <1>8, <1>a, <2>1, <2>2 DEF ReceiveReturn, At, Carried
  <2>7. ASSUME NEW w \in Rows PROVE level'[w] >= 0 /\ Balanced(w)'
    <3> DEFINE out == IF From[c] = w THEN Amount[c] ELSE 0
    <3>1. Net(c, w) = (IF Into[c] = w THEN n ELSE 0) - out /\ out \in Nat
      BY <2>3, NetIs
    <3>2. /\ level'[w] = (IF n > 0 /\ Into[c] = w THEN seen + n ELSE level[w]) - out
          /\ level[w] \in Int
      BY <2>4, <1>a
    <3>3. level'[w] >= 0
      <4>1. CASE From[c] = w
        BY <4>1, <3>2, <2>3, <2>6, <2>2, <1>a, Quantities
      <4>2. CASE From[c] # w
        BY <4>2, <3>2, <2>2, <2>3, <1>a
      <4> QED BY <4>1, <4>2
    <3> HIDE DEF out
    <3>4. \/ <<w, "stock">> \in outdated'
          \/ level'[w] - Net(c, w) = level[w]
      BY <3>1, <3>2, <2>2, <2>3, <2>4
    <3>5. \/ <<w, "stock">> \in outdated'
          \/ w \in {From[c], Into[c]} /\ <<c, "status">> \in outdated'
          \/ level'[w] - Net(c, w) = level[w] - (IF state[c] = Done(c) THEN Net(c, w) ELSE 0)
      <4>1. CASE w \in {From[c], Into[c]}
        <5>1. state[c] = "REQUESTED" => state[c] # Done(c)
          BY <2>3
        <5> QED BY <4>1, <5>1, <3>2, <3>4, <2>4
      <4>2. CASE w \notin {From[c], Into[c]}
        <5>1. Net(c, w) = 0
          BY <4>2, <2>3, NetIs
        <5>2. \/ <<w, "stock">> \in outdated'
              \/ level'[w] - 0 = level[w] - (IF state[c] = Done(c) THEN 0 ELSE 0)
          BY <5>1, <3>4, <3>2
        <5> QED BY <5>1, <5>2
      <4> QED BY <4>1, <4>2
    <3>6. Balanced(w)'
      BY <3>5, <3>2, <2>3, <2>4, <2>5, <1>a, <1>b, BalancedStep
    <3> QED BY <3>3, <3>6
  <2> QED BY <2>7
<1>9. ASSUME NEW o \in ProductionOrders, Plan(o) \/ CancelOrder(o) PROVE Goal
  <2>1. o \in Documents /\ Done(o) = "COMPLETED"
    BY Quantities, KindsApart DEF Done
  <2>2. /\ state' = [state EXCEPT ![o] = "PLANNED"] \/ state' = [state EXCEPT ![o] = "CANCELLED"]
        /\ state[o] \in {"DRAFT", "PLANNED"} /\ UNCHANGED <<level, outdated>>
    BY <1>9 DEF Plan, CancelOrder, SetStatus, Cancellable
  <2>3. \A x \in Documents : state'[x] = Done(x) <=> state[x] = Done(x)
    BY <2>1, <2>2, <1>a
  <2> QED BY <2>2, <2>3, <1>1
<1>10. ASSUME NEW t \in Transfers, CreateTransfer(t) \/ ReverseTransfer(t) PROVE Goal
  <2>1. /\ t \in Documents /\ From[t] \in Rows /\ Into[t] \in Rows /\ Amount[t] \in Nat
        /\ t \notin CustomerReturns /\ Done(t) = "COMPLETED"
    BY Quantities, KindsApart, NamedRows DEF Done
  <2>2. /\ \/ /\ state[t] = "NONE" /\ state' = [state EXCEPT ![t] = "COMPLETED"]
              /\ level[From[t]] >= Amount[t]
              /\ level' = [u \in Rows |-> level[u] + (IF u = Into[t] THEN Amount[t] ELSE 0)
                                                   - (IF u = From[t] THEN Amount[t] ELSE 0)]
           \/ /\ state[t] = "COMPLETED" /\ state' = [state EXCEPT ![t] = "REVERSED"]
              /\ level[Into[t]] >= Amount[t]
              /\ level' = [u \in Rows |-> level[u] + (IF u = From[t] THEN Amount[t] ELSE 0)
                                                   - (IF u = Into[t] THEN Amount[t] ELSE 0)]
        /\ outdated' = outdated
    BY <1>10 DEF CreateTransfer, ReverseTransfer, SetStatus, Move,
                 CanTake, Reversible
  <2>3. /\ state'[t] = Done(t) <=> state[t] # Done(t)
        /\ \A x \in Documents \ {t} : state'[x] = Done(x) <=> state[x] = Done(x)
    BY <2>1, <2>2, <1>a
  <2>4. ASSUME NEW w \in Rows PROVE level'[w] >= 0 /\ Balanced(w)'
    <3> DEFINE in == IF Into[t] = w THEN Amount[t] ELSE 0
               out == IF From[t] = w THEN Amount[t] ELSE 0
    <3>1. Net(t, w) = in - out /\ in \in Nat /\ out \in Nat
      BY <2>1, NetIs
    <3>2. /\ level[w] \in Int
          /\ level'[w] = IF state[t] = Done(t) THEN level[w] + out - in ELSE level[w] + in - out
      BY <2>1, <2>2, <1>a
    <3>3. level'[w] >= 0
      <4>1. state[t] = Done(t) => level[w] >= in
        BY <2>1, <2>2, <1>a
      <4>2. state[t] # Done(t) => level[w] >= out
        BY <2>1, <2>2, <1>a
      <4> HIDE DEF in, out
      <4> QED BY <4>1, <4>2, <3>1, <3>2
    <3> HIDE DEF in, out
    <3>4. level'[w] - (IF state'[t] = Done(t) THEN Net(t, w) ELSE 0)
            = level[w] - (IF state[t] = Done(t) THEN Net(t, w) ELSE 0)
      BY <3>1, <3>2, <2>3
    <3>5. Balanced(w)'
      BY <3>4, <3>2, <2>1, <2>2, <2>3, <1>a, <1>b, BalancedStep
    <3> QED BY <3>3, <3>5
  <2> QED BY <2>4
<1>11. ASSUME NEW j \in Adjustments, AdjustStock(j) PROVE Goal
  <2>1. /\ j \in Documents /\ Amount[j] \in Nat /\ j \notin CustomerReturns /\ Done(j) = "COMPLETED"
        /\ \/ From[j] = Nil /\ Into[j] \in Rows
           \/ From[j] \in Rows /\ Into[j] = Nil
    BY Quantities, KindsApart, NamedRows DEF Done
  <2>2. /\ state[j] = "NONE" /\ state' = [state EXCEPT ![j] = "COMPLETED"] /\ outdated' = outdated
        /\ From[j] = Nil => level' = [level EXCEPT ![Into[j]] = @ + Amount[j]]
        /\ From[j] # Nil => /\ level[From[j]] >= Amount[j]
                            /\ level' = [level EXCEPT ![From[j]] = @ - Amount[j]]
    BY <1>11 DEF AdjustStock, SetStatus, Take, CanTake
  <2>3. /\ state'[j] = Done(j) /\ state[j] # Done(j)
        /\ \A x \in Documents \ {j} : state'[x] = Done(x) <=> state[x] = Done(x)
    BY <2>1, <2>2, <1>a
  <2>4. ASSUME NEW w \in Rows PROVE level'[w] >= 0 /\ Balanced(w)'
    <3>1. /\ Net(j, w) = (IF Into[j] = w THEN Amount[j] ELSE 0) - (IF From[j] = w THEN Amount[j] ELSE 0)
          /\ level[w] \in Int /\ level[w] >= 0 /\ w # Nil
      BY <2>1, NetIs, Quantities, <1>a
    <3>2. level'[w] >= 0 /\ level'[w] - Net(j, w) = level[w]
      <4>1. CASE From[j] = Nil
        BY <4>1, <3>1, <2>1, <2>2, <1>a
      <4>2. CASE From[j] # Nil
        BY <4>2, <3>1, <2>1, <2>2, <1>a
      <4> QED BY <4>1, <4>2
    <3>3. level'[w] - (IF state'[j] = Done(j) THEN Net(j, w) ELSE 0)
            = level[w] - (IF state[j] = Done(j) THEN Net(j, w) ELSE 0)
      BY <3>1, <3>2, <2>3
    <3>4. Balanced(w)'
      BY <3>3, <3>1, <2>1, <2>2, <2>3, <1>a, <1>b, BalancedStep
    <3> QED BY <3>2, <3>4
  <2> QED BY <2>4
<1>12. ASSUME NEW r \in Slots, Abort(r) PROVE Goal
  BY <1>1, <1>12 DEF Abort
<1>13. ASSUME UNCHANGED stockVars PROVE Goal
  BY <1>1, <1>13 DEF stockVars
<1>14. Goal
  <2> HIDE DEF Goal
  <2> QED BY <1>2, <1>3, <1>4, <1>5, <1>6, <1>7, <1>8, <1>9, <1>10, <1>11, <1>12, <1>13 DEF StockNext
<1> QED BY <1>14 DEF RowsFollowDocuments, Balanced


\* What a production order may count on: work in progress is never negative and cleared by a
\* completion that read it in time; issues fit the requirement unless two overlapped.
OrderKept(o) ==
  /\ wip[o] >= 0
  /\ state[o] = "COMPLETED" /\ <<o, "wip">> \notin outdated => wip[o] = 0
  /\ <<o, "issued">> \notin outdated => Issued(o) <= Required[o]
  /\ state[o] # "COMPLETED" => wip[o] = Issued(o)

LEMMA OrdersKept ==
  (\A o \in ProductionOrders : OrderKept(o))
    <=> /\ CompletionClearsWip /\ IssuedWithinRequired
        /\ InProgressIsIssued
BY DEF OrderKept, CompletionClearsWip, IssuedWithinRequired, InProgressIsIssued

LEMMA StockOrdersStep ==
  ASSUME StockInv, [StockNext]_stockVars
  PROVE  (\A o \in ProductionOrders : OrderKept(o))'
<1> DEFINE Goal == \A o \in ProductionOrders : OrderKept(o)'
<1>a. /\ state \in [Documents -> Statuses] /\ wip \in [ProductionOrders -> Int] /\ Calls
      /\ \A r \in Slots : Carried(r) /\ call[r] \in CallRecords
      /\ \A o \in ProductionOrders : OrderKept(o) /\ wip[o] \in Int
  BY StockTypes, OrdersKept DEF StockInv, Calls
<1>1. ASSUME wip' = wip, outdated \subseteq outdated', \A i \in Issues : state'[i] = state[i],
             \A o \in ProductionOrders : state'[o] = "COMPLETED" <=> state[o] = "COMPLETED"
      PROVE  Goal
  <2> SUFFICES ASSUME NEW o \in ProductionOrders PROVE OrderKept(o)'
    OBVIOUS
  <2>1. Issued(o)' = Issued(o)
    BY <1>1, IssuedSame
  <2> QED BY <2>1, <1>1, <1>a DEF OrderKept
<1>2. ASSUME NEW r \in Slots, Begun(r) \/ ClaimProduction(r) \/ TakeFromOutlet(r)
      PROVE  Goal
  BY <1>1, <1>2, BegunTyped, ClaimedTyped
<1>3. ASSUME NEW r \in Slots, IssueMaterial(r) PROVE Goal
  <2>1. PICK i \in Issues : i = call[r].doc
    BY <1>3, <1>a DEF IssueMaterial, At, Carried
  <2>2. PICK p \in ProductionOrders : p = ProductionOf[i]
    BY Quantities
  <2>3. PICK basis \in Int : basis = call[r].basis
    BY <1>a DEF CallRecords
  <2>4. /\ state[i] = "NONE" /\ state[p] \in {"PLANNED", "IN_PROGRESS"}
        /\ state' = [state EXCEPT ![p] = "IN_PROGRESS", ![i] = "ISSUED"]
        /\ wip' = [wip EXCEPT ![p] = @ + Amount[i]]
        /\ outdated \subseteq outdated'
        /\ Issued(p) = basis \/ <<p, "issued">> \in outdated'
        /\ basis + Amount[i] <= Required[p]
    BY <1>3, <1>a, <2>1, <2>2, <2>3 DEF IssueMaterial, At, Carried
  <2>5. /\ i \in Documents /\ p \in Documents /\ i \notin ProductionOrders /\ p \notin Issues
        /\ Amount[i] \in Nat /\ Required[p] \in Nat
    BY Quantities, KindsApart
  <2>6. /\ state'[i] = "ISSUED" /\ \A x \in Issues \ {i} : state'[x] = state[x]
        /\ state'[p] = "IN_PROGRESS" /\ \A o \in ProductionOrders \ {p} : state'[o] = state[o]
    BY <2>4, <2>5, <1>a, Quantities
  <2>7. ASSUME NEW o \in ProductionOrders PROVE OrderKept(o)'
    <3>1. Issued(o)' = Issued(o) + (IF p = o THEN Amount[i] ELSE 0)
      BY <2>2, <2>4, <2>6, IssuedGains
    <3>2. Issued(o) \in Nat
      BY IssuedTyped
    <3>3. OrderKept(o) /\ wip[o] \in Int /\ wip'[o] = wip[o] + (IF p = o THEN Amount[i] ELSE 0)
      BY <2>4, <2>5, <1>a
    <3>4. CASE o = p
      <4>1. wip'[o] >= 0 /\ wip'[o] = Issued(o)' /\ state'[o] = "IN_PROGRESS"
        BY <3>1, <3>2, <3>3, <3>4, <2>4, <2>5, <2>6 DEF OrderKept
      <4>2. <<o, "issued">> \notin outdated' => Issued(o)' <= Required[o]
        BY <3>1, <3>4, <2>4
      <4> QED BY <4>1, <4>2 DEF OrderKept
    <3>5. CASE o # p
      <4>1. Issued(o)' = Issued(o) /\ wip'[o] = wip[o] /\ state'[o] = state[o]
        BY <3>1, <3>2, <3>3, <3>5, <2>6
      <4> QED BY <4>1, <3>3, <2>4 DEF OrderKept
    <3> QED BY <3>4, <3>5
  <2> QED BY <2>7
<1>4. ASSUME NEW r \in Slots, CompleteProduction(r) PROVE Goal
  <2>1. PICK p \in ProductionOrders : p = call[r].doc
    BY <1>4, <1>a DEF CompleteProduction, At, Carried
  <2>2. PICK basis \in Int : basis = call[r].basis
    BY <1>a DEF CallRecords
  <2>3. /\ state[p] = "IN_PROGRESS" /\ basis <= Issued(p)
        /\ state' = [state EXCEPT ![p] = "COMPLETED"]
        /\ wip' = [wip EXCEPT ![p] = @ - basis]
        /\ outdated \subseteq outdated'
        /\ basis # Issued(p) => <<p, "wip">> \in outdated'
    BY <1>4, <1>a, <2>1, <2>2
       DEF CompleteProduction, SetStatus, At, Carried
  <2>4. p \in Documents /\ \A x \in Issues : x # p /\ x \in Documents
    BY Quantities, KindsApart
  <2>5. ASSUME NEW o \in ProductionOrders PROVE OrderKept(o)'
    <3>1. Issued(o)' = Issued(o)
      BY <2>3, <2>4, <1>a, IssuedSame
    <3>2. Issued(o) \in Nat
      BY IssuedTyped
    <3>3. /\ OrderKept(o) /\ wip[o] \in Int /\ wip'[o] = wip[o] - (IF o = p THEN basis ELSE 0)
          /\ state'[o] = IF o = p THEN "COMPLETED" ELSE state[o]
      BY <2>3, <1>a, Quantities
    <3>4. CASE o = p
      BY <3>1, <3>2, <3>3, <3>4, <2>3 DEF OrderKept
    <3>5. CASE o # p
      BY <3>1, <3>2, <3>3, <3>5, <2>3 DEF OrderKept
    <3> QED BY <3>4, <3>5
  <2> QED BY <2>5
<1>5. ASSUME NEW d \in Parts \cup Transfers \cup CustomerReturns \cup Adjustments, NEW s,
             state' = [state EXCEPT ![d] = s], wip' = wip, outdated \subseteq outdated'
      PROVE  Goal
  <2>1. \A x \in Issues \cup ProductionOrders : x # d /\ x \in Documents
    BY KindsApart, Quantities
  <2> QED BY <2>1, <1>1, <1>5, <1>a
<1>6. ASSUME NEW r \in Slots, IssuePart(r) \/ CancelPart(r) PROVE Goal
  <2>1. PICK d \in Parts : d = call[r].doc
    BY <1>6, <1>a DEF IssuePart, CancelPart, At, Carried
  <2>2. /\ wip' = wip /\ outdated \subseteq outdated'
        /\ state' = [state EXCEPT ![d] = "ISSUED"] \/ state' = [state EXCEPT ![d] = "CANCELLED"]
    BY <1>6, <2>1 DEF IssuePart, CancelPart, SetStatus, Overwrites
  <2> QED BY <2>2, <1>5
<1>7. ASSUME NEW r \in Slots,
             RequestReturn(r) \/ ReceiveReturn(r) \/ CancelReturn(r)
      PROVE  Goal
  <2>1. PICK c \in CustomerReturns : c = call[r].doc
    BY <1>7, <1>a
       DEF RequestReturn, ReceiveReturn, CancelReturn, At, Carried
  <2>2. /\ wip' = wip /\ outdated \subseteq outdated'
        /\ \/ state' = [state EXCEPT ![c] = "REQUESTED"]
           \/ state' = [state EXCEPT ![c] = "RECEIVED"]
           \/ state' = [state EXCEPT ![c] = "CANCELLED"]
    BY <1>7, <2>1 DEF RequestReturn, ReceiveReturn, CancelReturn,
                      SetStatus, Overwrites
  <2> QED BY <2>2, <1>5
<1>8. ASSUME NEW o \in ProductionOrders, Plan(o) \/ CancelOrder(o) PROVE Goal
  <2>1. /\ state[o] \in {"DRAFT", "PLANNED"} /\ UNCHANGED <<wip, outdated>>
        /\ state' = [state EXCEPT ![o] = "PLANNED"] \/ state' = [state EXCEPT ![o] = "CANCELLED"]
    BY <1>8 DEF Plan, CancelOrder, SetStatus, Cancellable
  <2>2. \A x \in Issues : x # o /\ x \in Documents
    BY KindsApart, Quantities
  <2>3. \A p \in ProductionOrders : p \in Documents
    BY Quantities
  <2>4. /\ \A i \in Issues : state'[i] = state[i]
        /\ \A p \in ProductionOrders : state'[p] = "COMPLETED" <=> state[p] = "COMPLETED"
    BY <2>1, <2>2, <2>3, <1>a
  <2> QED BY <2>1, <2>4, <1>1
<1>9. ASSUME NEW t \in Transfers, CreateTransfer(t) \/ ReverseTransfer(t) PROVE Goal
  BY <1>9, <1>5 DEF CreateTransfer, ReverseTransfer, SetStatus
<1>10. ASSUME NEW j \in Adjustments, AdjustStock(j) PROVE Goal
  BY <1>10, <1>5 DEF AdjustStock, SetStatus
<1>11. ASSUME NEW r \in Slots, Abort(r) PROVE Goal
  BY <1>1, <1>11 DEF Abort
<1>12. ASSUME UNCHANGED stockVars PROVE Goal
  BY <1>1, <1>12 DEF stockVars
<1>13. Goal
  <2> HIDE DEF Goal
  <2> QED BY <1>2, <1>3, <1>4, <1>6, <1>7, <1>8, <1>9, <1>10, <1>11, <1>12 DEF StockNext
<1> QED BY <1>13

\* The returns a fulfilment line counts as returned.
Active(l) ==
  {c \in CustomerReturns : LineOf[c] = l /\ state[c] \in {"REQUESTED", "RECEIVED"}}

\* What HeldMatchesReturns says of a line.
LineKept(l) ==
  \/ \E c \in CustomerReturns : LineOf[c] = l /\ <<c, "status">> \in outdated
  \/ /\ held[l] = Sum(Amount, Active(l))
     /\ <<l, "held">> \notin outdated => held[l] <= Shipped[l]

LEMMA LinesKept == HeldMatchesReturns <=> \A l \in Lines : LineKept(l)
<1>1. \A l : {c \in {x \in CustomerReturns : LineOf[x] = l} : state[c] \in {"REQUESTED", "RECEIVED"}}
               = Active(l)
  BY DEF Active
<1> QED BY <1>1 DEF HeldMatchesReturns, LineKept

LEMMA LineSame ==
  ASSUME NEW l \in Lines, LineKept(l), held'[l] = held[l], outdated \subseteq outdated',
         \A c \in CustomerReturns : state'[c] = state[c]
  PROVE  LineKept(l)'
<1>1. Active(l)' = Active(l)
  BY DEF Active
<1>2. \/ \E c \in CustomerReturns : LineOf[c] = l /\ <<c, "status">> \in outdated'
      \/ /\ held'[l] = Sum(Amount, Active(l))
         /\ <<l, "held">> \notin outdated' => held'[l] <= Shipped[l]
  BY DEF LineKept
<1> QED BY <1>1, <1>2 DEF LineKept

\* A line follows the one return that is counted or no longer counted.
LEMMA LineStep ==
  ASSUME NEW l \in Lines, LineKept(l), held[l] \in Int, held'[l] \in Int,
         outdated \subseteq outdated', NEW c \in CustomerReturns,
         \A x \in CustomerReturns \ {c} : state'[x] = state[x],
         \/ LineOf[c] = l /\ <<c, "status">> \in outdated'
         \/ /\ held'[l] - (IF c \in Active(l)' THEN Amount[c] ELSE 0)
                 = held[l] - (IF c \in Active(l) THEN Amount[c] ELSE 0)
            /\ held'[l] <= held[l] \/ held'[l] <= Shipped[l] \/ <<l, "held">> \in outdated'
  PROVE  LineKept(l)'
<1> DEFINE A == Active(l)
           B == Active(l)'
           exempt == \E x \in CustomerReturns : LineOf[x] = l /\ <<x, "status">> \in outdated'
<1>1. A \in SUBSET Documents /\ B \in SUBSET Documents /\ A \ {c} = B \ {c}
  BY Quantities DEF Active
<1>2. c \in Documents /\ Shipped[l] \in Nat /\ \A x \in Documents : Amount[x] \in Nat
  BY Quantities
<1>3. \/ exempt
      \/ /\ held[l] = Sum(Amount, A)
         /\ <<l, "held">> \notin outdated' => held[l] <= Shipped[l]
  BY DEF LineKept
<1>4. LineKept(l)' <=> \/ exempt
                       \/ /\ held'[l] = Sum(Amount, B)
                          /\ <<l, "held">> \notin outdated' => held'[l] <= Shipped[l]
  BY DEF LineKept
<1>5. \/ exempt
      \/ /\ held'[l] - (IF c \in B THEN Amount[c] ELSE 0) = held[l] - (IF c \in A THEN Amount[c] ELSE 0)
         /\ held'[l] <= held[l] \/ held'[l] <= Shipped[l] \/ <<l, "held">> \in outdated'
  OBVIOUS
<1> HIDE DEF A, B, exempt
<1>6. PICK rest \in Nat : /\ Sum(Amount, A) = rest + IF c \in A THEN Amount[c] ELSE 0
                          /\ Sum(Amount, B) = rest + IF c \in B THEN Amount[c] ELSE 0
  BY <1>1, <1>2, SumsDiffer
<1>7. CASE ~exempt
  <2>1. held'[l] = Sum(Amount, B)
    BY <1>2, <1>3, <1>5, <1>6, <1>7
  <2>2. <<l, "held">> \notin outdated' => held'[l] <= Shipped[l]
    BY <1>2, <1>3, <1>5, <1>7
  <2> QED BY <1>4, <2>1, <2>2
<1> QED BY <1>4, <1>7

LEMMA StockLinesStep ==
  ASSUME StockInv, [StockNext]_stockVars
  PROVE  HeldMatchesReturns'
<1> DEFINE Goal == \A l \in Lines : LineKept(l)'
<1>a. /\ state \in [Documents -> Statuses] /\ held \in [Lines -> Int] /\ Calls
      /\ \A r \in Slots : Carried(r) /\ call[r] \in CallRecords
      /\ \A l \in Lines : LineKept(l) /\ held[l] \in Int
  BY StockTypes, LinesKept DEF StockInv, Calls
<1>b. \A l \in Lines : held'[l] \in Int
  BY StockTypeStep DEF StockTypeOK
<1>1. ASSUME held' = held, outdated \subseteq outdated', \A c \in CustomerReturns : state'[c] = state[c]
      PROVE  Goal
  BY <1>1, <1>a, LineSame
<1>2. ASSUME NEW r \in Slots, Begun(r) \/ ClaimProduction(r) \/ TakeFromOutlet(r)
      PROVE  Goal
  BY <1>1, <1>2, BegunTyped, ClaimedTyped
<1>3. ASSUME NEW r \in Slots, RequestReturn(r) PROVE Goal
  <2>1. PICK c \in CustomerReturns : c = call[r].doc
    BY <1>3, <1>a DEF RequestReturn, At, Carried
  <2>2. PICK basis \in Int : basis = call[r].basis
    BY <1>a DEF CallRecords
  <2>3. /\ c \in Documents /\ Amount[c] \in Nat /\ LineOf[c] \in Lines
        /\ CustomerReturns \subseteq Documents
    BY Quantities
  <2>4. /\ state[c] = "NONE" /\ state' = [state EXCEPT ![c] = "REQUESTED"]
        /\ held' = [held EXCEPT ![LineOf[c]] = @ + Amount[c]]
        /\ outdated \subseteq outdated'
        /\ held[LineOf[c]] = basis \/ <<LineOf[c], "held">> \in outdated'
        /\ basis + Amount[c] <= Shipped[LineOf[c]]
    BY <1>3, <1>a, <2>1, <2>2 DEF RequestReturn, SetStatus, At, Carried
  <2>5. ASSUME NEW l \in Lines PROVE LineKept(l)'
    <3>1. c \notin Active(l) /\ (c \in Active(l)' <=> LineOf[c] = l)
      BY <2>3, <2>4, <1>a DEF Active
    <3>2. held'[l] = held[l] + (IF LineOf[c] = l THEN Amount[c] ELSE 0) /\ held[l] \in Int
      BY <2>4, <1>a
    <3>3. held'[l] - (IF c \in Active(l)' THEN Amount[c] ELSE 0)
            = held[l] - (IF c \in Active(l) THEN Amount[c] ELSE 0)
      BY <3>1, <3>2, <2>3
    <3>4. held'[l] <= held[l] \/ held'[l] <= Shipped[l] \/ <<l, "held">> \in outdated'
      BY <3>2, <2>3, <2>4
    <3>5. \A x \in CustomerReturns \ {c} : state'[x] = state[x]
      BY <2>3, <2>4, <1>a
    <3> QED BY <3>3, <3>4, <3>5, <2>4, <1>a, <1>b, LineStep
  <2> QED BY <2>5
<1>4. ASSUME NEW r \in Slots, ReceiveReturn(r) PROVE Goal
  <2>1. PICK c \in CustomerReturns : c = call[r].doc
    BY <1>4, <1>a DEF ReceiveReturn, At, Carried
  <2>2. c \in Documents /\ Amount[c] \in Nat /\ CustomerReturns \subseteq Documents
    BY Quantities
  <2>3. /\ state' = [state EXCEPT ![c] = "RECEIVED"] /\ held' = held /\ outdated \subseteq outdated'
        /\ state[c] = "REQUESTED" \/ <<c, "status">> \in outdated'
    BY <1>4, <2>1 DEF ReceiveReturn, SetStatus, Overwrites
  <2>4. ASSUME NEW l \in Lines PROVE LineKept(l)'
    <3>1. \A x \in CustomerReturns \ {c} : state'[x] = state[x]
      BY <2>2, <2>3, <1>a
    <3>2. \/ LineOf[c] = l /\ <<c, "status">> \in outdated'
          \/ c \in Active(l)' <=> c \in Active(l)
      BY <2>2, <2>3, <1>a DEF Active
    <3>3. \/ LineOf[c] = l /\ <<c, "status">> \in outdated'
          \/ /\ held'[l] - (IF c \in Active(l)' THEN Amount[c] ELSE 0)
                  = held[l] - (IF c \in Active(l) THEN Amount[c] ELSE 0)
             /\ held'[l] <= held[l]
      BY <3>2, <2>2, <2>3, <1>a
    <3> QED BY <3>1, <3>3, <2>3, <1>a, <1>b, LineStep
  <2> QED BY <2>4
<1>5. ASSUME NEW r \in Slots, CancelReturn(r) PROVE Goal
  <2>1. PICK c \in CustomerReturns : c = call[r].doc
    BY <1>5, <1>a DEF CancelReturn, At, Carried
  <2>2. c \in Documents /\ Amount[c] \in Nat /\ CustomerReturns \subseteq Documents
    BY Quantities
  <2>3. /\ state' = [state EXCEPT ![c] = "CANCELLED"] /\ outdated \subseteq outdated'
        /\ held' = [held EXCEPT ![LineOf[c]] = @ - Amount[c]]
        /\ state[c] = "REQUESTED" \/ <<c, "status">> \in outdated'
    BY <1>5, <2>1 DEF CancelReturn, SetStatus, Overwrites, Released
  <2>4. ASSUME NEW l \in Lines PROVE LineKept(l)'
    <3>1. \A x \in CustomerReturns \ {c} : state'[x] = state[x]
      BY <2>2, <2>3, <1>a
    <3>2. /\ c \notin Active(l)'
          /\ <<c, "status">> \in outdated' \/ (c \in Active(l) <=> LineOf[c] = l)
          /\ c \in Active(l) => LineOf[c] = l
      BY <2>2, <2>3, <1>a DEF Active
    <3>3. held'[l] = held[l] - (IF LineOf[c] = l THEN Amount[c] ELSE 0) /\ held[l] \in Int
      BY <2>3, <1>a
    <3>4. \/ LineOf[c] = l /\ <<c, "status">> \in outdated'
          \/ /\ held'[l] - (IF c \in Active(l)' THEN Amount[c] ELSE 0)
                  = held[l] - (IF c \in Active(l) THEN Amount[c] ELSE 0)
             /\ held'[l] <= held[l]
      BY <3>2, <3>3, <2>2
    <3> QED BY <3>1, <3>4, <2>3, <1>a, <1>b, LineStep
  <2> QED BY <2>4
<1>6. ASSUME NEW d \in ProductionOrders \cup Parts \cup Transfers \cup Adjustments, NEW s,
             state' = [state EXCEPT ![d] = s], held' = held, outdated \subseteq outdated'
      PROVE  Goal
  <2>1. \A x \in CustomerReturns : x # d /\ x \in Documents
    BY KindsApart, Quantities
  <2> QED BY <2>1, <1>1, <1>6, <1>a
<1>7. ASSUME NEW r \in Slots, IssueMaterial(r) PROVE Goal
  <2>1. PICK i \in Issues : i = call[r].doc
    BY <1>7, <1>a DEF IssueMaterial, At, Carried
  <2>2. PICK p \in ProductionOrders : p = ProductionOf[i]
    BY Quantities
  <2>3. /\ state' = [state EXCEPT ![p] = "IN_PROGRESS", ![i] = "ISSUED"]
        /\ held' = held /\ outdated \subseteq outdated'
    BY <1>7, <2>1, <2>2 DEF IssueMaterial
  <2>4. \A x \in CustomerReturns : x # p /\ x # i /\ x \in Documents
    BY KindsApart, Quantities
  <2> QED BY <2>3, <2>4, <1>1, <1>a
<1>8. ASSUME NEW r \in Slots, CompleteProduction(r) PROVE Goal
  <2>1. PICK p \in ProductionOrders : p = call[r].doc
    BY <1>8, <1>a DEF CompleteProduction, At, Carried
  <2>2. state' = [state EXCEPT ![p] = "COMPLETED"] /\ held' = held /\ outdated \subseteq outdated'
    BY <1>8, <2>1 DEF CompleteProduction, SetStatus
  <2> QED BY <2>2, <1>6
<1>9. ASSUME NEW r \in Slots, IssuePart(r) \/ CancelPart(r) PROVE Goal
  <2>1. PICK d \in Parts : d = call[r].doc
    BY <1>9, <1>a DEF IssuePart, CancelPart, At, Carried
  <2>2. /\ held' = held /\ outdated \subseteq outdated'
        /\ state' = [state EXCEPT ![d] = "ISSUED"] \/ state' = [state EXCEPT ![d] = "CANCELLED"]
    BY <1>9, <2>1 DEF IssuePart, CancelPart, SetStatus, Overwrites
  <2> QED BY <2>2, <1>6
<1>10. ASSUME NEW o \in ProductionOrders, Plan(o) \/ CancelOrder(o) PROVE Goal
  BY <1>10, <1>6 DEF Plan, CancelOrder, SetStatus
<1>11. ASSUME NEW t \in Transfers, CreateTransfer(t) \/ ReverseTransfer(t) PROVE Goal
  BY <1>11, <1>6 DEF CreateTransfer, ReverseTransfer, SetStatus
<1>12. ASSUME NEW j \in Adjustments, AdjustStock(j) PROVE Goal
  BY <1>12, <1>6 DEF AdjustStock, SetStatus
<1>13. ASSUME NEW r \in Slots, Abort(r) PROVE Goal
  BY <1>1, <1>13 DEF Abort
<1>14. ASSUME UNCHANGED stockVars PROVE Goal
  BY <1>1, <1>14 DEF stockVars
<1>15. Goal
  <2> HIDE DEF Goal
  <2> QED BY <1>2, <1>3, <1>4, <1>5, <1>7, <1>8, <1>9, <1>10, <1>11, <1>12, <1>13, <1>14 DEF StockNext
<1>16. (\A l \in Lines : LineKept(l))'
  BY <1>15
<1> QED BY <1>16, LinesKept, PTL

\* What was issued for an order is never taken back.
LEMMA IssuedGrows ==
  ASSUME StockInv, [StockNext]_stockVars
  PROVE  \A o \in ProductionOrders :
           Issued(o)' \in Nat /\ Issued(o)' >= Issued(o)
<1> DEFINE Goal == \A o \in ProductionOrders :
                     Issued(o)' \in Nat /\ Issued(o)' >= Issued(o)
<1>a. /\ state \in [Documents -> Statuses] /\ Calls
      /\ \A r \in Slots : Carried(r)
      /\ \A o \in ProductionOrders : Issued(o) \in Nat
  BY StockTypes, IssuedTyped DEF StockInv
<1>1. ASSUME \A i \in Issues : state'[i] = state[i] PROVE Goal
  <2>1. \A o \in ProductionOrders : Issued(o)' = Issued(o)
    BY <1>1, IssuedSame
  <2> QED BY <2>1, <1>a
<1>2. ASSUME NEW r \in Slots, Begun(r) \/ ClaimProduction(r) \/ TakeFromOutlet(r)
      PROVE  Goal
  BY <1>1, <1>2, BegunTyped, ClaimedTyped
<1>3. ASSUME NEW r \in Slots, IssueMaterial(r) PROVE Goal
  <2>1. PICK i \in Issues : i = call[r].doc
    BY <1>3, <1>a DEF IssueMaterial, At, Carried
  <2>2. PICK p \in ProductionOrders : p = ProductionOf[i]
    BY Quantities
  <2>3. state[i] = "NONE" /\ state' = [state EXCEPT ![p] = "IN_PROGRESS", ![i] = "ISSUED"]
    BY <1>3, <2>1, <2>2 DEF IssueMaterial
  <2>4. /\ i \in Documents /\ p \notin Issues /\ Amount[i] \in Nat
        /\ \A x \in Issues : x \in Documents
    BY KindsApart, Quantities
  <2>5. state'[i] = "ISSUED" /\ \A x \in Issues \ {i} : state'[x] = state[x]
    BY <2>3, <2>4, <1>a
  <2>6. ASSUME NEW o \in ProductionOrders
        PROVE  Issued(o)' \in Nat /\ Issued(o)' >= Issued(o)
    <3>1. Issued(o)' = Issued(o) + IF ProductionOf[i] = o THEN Amount[i] ELSE 0
      BY <2>3, <2>5, IssuedGains
    <3> QED BY <3>1, <2>4, <1>a
  <2> QED BY <2>6
<1>4. ASSUME NEW d \in ProductionOrders \cup Parts \cup Transfers \cup CustomerReturns \cup Adjustments,
             NEW s, state' = [state EXCEPT ![d] = s]
      PROVE  Goal
  <2>1. \A x \in Issues : x # d /\ x \in Documents
    BY KindsApart, Quantities
  <2> QED BY <2>1, <1>1, <1>4, <1>a
<1>5. ASSUME NEW r \in Slots,
             \/ CompleteProduction(r) \/ IssuePart(r) \/ CancelPart(r)
             \/ RequestReturn(r) \/ ReceiveReturn(r) \/ CancelReturn(r)
      PROVE  Goal
  <2>1. PICK d \in ProductionOrders \cup Parts \cup CustomerReturns : d = call[r].doc
    BY <1>5, <1>a DEF CompleteProduction, IssuePart, CancelPart, RequestReturn,
                      ReceiveReturn, CancelReturn, At, Carried
  <2>2. \E s : state' = [state EXCEPT ![d] = s]
    BY <1>5, <2>1 DEF CompleteProduction, IssuePart, CancelPart, RequestReturn,
                      ReceiveReturn, CancelReturn, SetStatus
  <2> QED BY <2>2, <1>4
<1>6. ASSUME NEW o \in ProductionOrders, Plan(o) \/ CancelOrder(o) PROVE Goal
  BY <1>6, <1>4 DEF Plan, CancelOrder, SetStatus
<1>7. ASSUME NEW t \in Transfers, CreateTransfer(t) \/ ReverseTransfer(t) PROVE Goal
  BY <1>7, <1>4 DEF CreateTransfer, ReverseTransfer, SetStatus
<1>8. ASSUME NEW j \in Adjustments, AdjustStock(j) PROVE Goal
  BY <1>8, <1>4 DEF AdjustStock, SetStatus
<1>9. ASSUME NEW r \in Slots, Abort(r) PROVE Goal
  BY <1>1, <1>9 DEF Abort
<1>10. ASSUME UNCHANGED stockVars PROVE Goal
  BY <1>1, <1>10 DEF stockVars
<1>11. Goal
  <2> HIDE DEF Goal
  <2> QED BY <1>2, <1>3, <1>5, <1>6, <1>7, <1>8, <1>9, <1>10 DEF StockNext
<1> QED BY <1>11

\* The requests that a step is not about go on as they were.
LEMMA OneRequestMoves ==
  ASSUME StockInv, [StockNext]_stockVars
  PROVE  \/ call' = call
         \/ \E r \in Slots : /\ Carried(r)' /\ \A q \in Slots \ {r} : call'[q] = call[q]
                             /\ \/ call'[r].op \notin {"completing", "receiving"}
                                \/ ClaimProduction(r)
                                \/ TakeFromOutlet(r)
<1> DEFINE Goal(r) == /\ Carried(r)' /\ \A q \in Slots \ {r} : call'[q] = call[q]
                      /\ \/ call'[r].op \notin {"completing", "receiving"}
                         \/ ClaimProduction(r)
                         \/ TakeFromOutlet(r)
<1>1. ASSUME NEW r \in Slots, Begun(r) PROVE Goal(r)
  BY <1>1, BegunTyped
<1>2. ASSUME NEW r \in Slots, ClaimProduction(r) \/ TakeFromOutlet(r) PROVE Goal(r)
  BY <1>2, ClaimedTyped
<1>3. ASSUME NEW r \in Slots, Finish(r) PROVE Goal(r)
  BY <1>3, Finished, StockTypes DEF StockInv, NoCall
<1>4. \/ call' = call
      \/ \E r \in Slots :
           Begun(r) \/ ClaimProduction(r) \/ TakeFromOutlet(r) \/ Finish(r)
  <2>1. ASSUME NEW r \in Slots,
               \/ IssueMaterial(r) \/ CompleteProduction(r)
               \/ IssuePart(r) \/ CancelPart(r) \/ RequestReturn(r)
               \/ ReceiveReturn(r) \/ CancelReturn(r) \/ Abort(r)
        PROVE  Finish(r)
    BY <2>1 DEF IssueMaterial, CompleteProduction, IssuePart, CancelPart,
                RequestReturn, ReceiveReturn, CancelReturn, Abort
  <2>2. ASSUME \/ UNCHANGED stockVars
               \/ \E o \in ProductionOrders : Plan(o) \/ CancelOrder(o)
               \/ \E t \in Transfers : CreateTransfer(t) \/ ReverseTransfer(t)
               \/ \E j \in Adjustments : AdjustStock(j)
        PROVE  call' = call
    BY <2>2 DEF stockVars, Plan, CancelOrder, CreateTransfer, ReverseTransfer,
                AdjustStock
  <2> QED BY <2>1, <2>2 DEF StockNext
<1> HIDE DEF Goal
<1>5. call' = call \/ \E r \in Slots : Goal(r)
  BY <1>1, <1>2, <1>3, <1>4
<1> QED BY <1>5 DEF Goal

\* An order that a completion holds stays as it is until that completion writes it.
LEMMA ClaimHolds ==
  ASSUME StockInv, [StockNext]_stockVars, NEW q \in Slots,
         call[q].op = "completing", call'[q] = call[q]
  PROVE  state'[call[q].doc] = state[call[q].doc]
<1>a. /\ state \in [Documents -> Statuses] /\ Calls /\ OneClaimant
      /\ \A r \in Slots : Carried(r)
  BY StockTypes DEF StockInv
<1>1. PICK o \in ProductionOrders : o = call[q].doc
  BY <1>a DEF Carried
<1>2. o \in Documents /\ ~OrderFree(o)
  BY <1>1, Quantities DEF OrderFree
<1> DEFINE Goal == state'[o] = state[o]
<1>3. ASSUME NEW d, d # o, NEW s, state' = [state EXCEPT ![d] = s] PROVE Goal
  BY <1>3, <1>2, <1>a
<1>4. ASSUME NEW r \in Slots,
             Begun(r) \/ ClaimProduction(r) \/ TakeFromOutlet(r) \/ Abort(r)
      PROVE  Goal
  BY <1>4, BegunTyped, ClaimedTyped DEF Abort
<1>5. ASSUME NEW r \in Slots, IssueMaterial(r) PROVE Goal
  <2>1. PICK i \in Issues : i = call[r].doc
    BY <1>5, <1>a DEF IssueMaterial, At, Carried
  <2>2. PICK p \in ProductionOrders : p = ProductionOf[i]
    BY Quantities
  <2>3. OrderFree(p) /\ state' = [state EXCEPT ![p] = "IN_PROGRESS", ![i] = "ISSUED"]
    BY <1>5, <2>1, <2>2 DEF IssueMaterial
  <2>4. o # p /\ o # i
    BY <2>3, <1>2, KindsApart
  <2> QED BY <2>3, <2>4, <1>2, <1>a
<1>6. ASSUME NEW r \in Slots, CompleteProduction(r) PROVE Goal
  <2>1. call[r].op = "completing" /\ call'[r].op = "none"
    BY <1>6, <1>a, Finished DEF CompleteProduction, At, NoCall
  <2>2. q # r
    BY <2>1
  <2>3. call[r].doc # o
    BY <2>1, <2>2, <1>1, <1>a DEF OneClaimant
  <2> QED BY <2>3, <1>3, <1>6 DEF CompleteProduction, SetStatus
<1>7. ASSUME NEW r \in Slots, IssuePart(r) \/ CancelPart(r) PROVE Goal
  <2>1. call[r].doc # o
    BY <1>7, <1>a, KindsApart DEF IssuePart, CancelPart, At, Carried
  <2> QED BY <2>1, <1>3, <1>7 DEF IssuePart, CancelPart, SetStatus
<1>8. ASSUME NEW r \in Slots,
             RequestReturn(r) \/ ReceiveReturn(r) \/ CancelReturn(r)
      PROVE  Goal
  <2>1. call[r].doc # o
    BY <1>8, <1>a, KindsApart
       DEF RequestReturn, ReceiveReturn, CancelReturn, At, Carried
  <2> QED BY <2>1, <1>3, <1>8
          DEF RequestReturn, ReceiveReturn, CancelReturn, SetStatus
<1>9. ASSUME NEW p \in ProductionOrders, Plan(p) \/ CancelOrder(p) PROVE Goal
  BY <1>2, <1>3, <1>9 DEF Plan, CancelOrder, SetStatus
<1>10. ASSUME NEW t \in Transfers, CreateTransfer(t) \/ ReverseTransfer(t) PROVE Goal
  BY <1>3, <1>10, KindsApart DEF CreateTransfer, ReverseTransfer, SetStatus
<1>11. ASSUME NEW j \in Adjustments, AdjustStock(j) PROVE Goal
  BY <1>3, <1>11, KindsApart DEF AdjustStock, SetStatus
<1>12. ASSUME UNCHANGED stockVars PROVE Goal
  BY <1>12 DEF stockVars
<1>13. Goal
  <2> HIDE DEF Goal
  <2> QED BY <1>4, <1>5, <1>6, <1>7, <1>8, <1>9, <1>10, <1>11, <1>12 DEF StockNext
<1> QED BY <1>13, <1>1

\* An outlet's row that a return holds loses nothing until that return takes from it.
LEMMA RowHolds ==
  ASSUME StockInv, [StockNext]_stockVars, NEW q \in Slots,
         call[q].op = "receiving", call'[q] = call[q], From[call[q].doc] # Nil
  PROVE  level'[From[call[q].doc]] >= level[From[call[q].doc]]
<1>a. /\ level \in [Rows -> Int] /\ Calls /\ OneClaimant
      /\ \A r \in Slots : Carried(r) /\ call[r] \in CallRecords
  BY StockTypes DEF StockInv, Calls
<1>1. PICK w \in Rows : w = From[call[q].doc]
  BY <1>a, NamedRows DEF Carried
<1>2. level[w] \in Int /\ ~RowFree(w)
  BY <1>1, <1>a DEF RowFree
<1> DEFINE Goal == level'[w] >= level[w]
<1>3. ASSUME level'[w] = level[w] PROVE Goal
  BY <1>2, <1>3
<1>4. ASSUME NEW r \in Slots,
             Begun(r) \/ ClaimProduction(r) \/ TakeFromOutlet(r) \/ Abort(r)
      PROVE  Goal
  BY <1>3, <1>4, BegunTyped, ClaimedTyped DEF Abort
<1>5. ASSUME NEW v, RowFree(v), NEW n, level' = [level EXCEPT ![v] = n] PROVE Goal
  BY <1>2, <1>3, <1>5, <1>a
<1>6. ASSUME NEW v, NEW n, Take(v, n) PROVE Goal
  BY <1>5, <1>6 DEF Take, CanTake
<1>7. ASSUME NEW v, NEW u, NEW n, Move(v, u, n) PROVE Goal
  <2>1. w # v /\ w # u
    BY <1>2, <1>7 DEF Move, CanTake
  <2>2. level'[w] = level[w] + 0 - 0
    BY <1>7, <2>1 DEF Move
  <2> QED BY <2>2, <1>2
<1>8. ASSUME NEW r \in Slots, IssueMaterial(r) \/ IssuePart(r) PROVE Goal
  BY <1>6, <1>8 DEF IssueMaterial, IssuePart
<1>9. ASSUME NEW r \in Slots, CompleteProduction(r) PROVE Goal
  BY <1>5, <1>9 DEF CompleteProduction
<1>10. ASSUME NEW r \in Slots,
              CancelPart(r) \/ RequestReturn(r) \/ CancelReturn(r)
       PROVE  Goal
  BY <1>3, <1>10 DEF CancelPart, RequestReturn, CancelReturn
<1>11. ASSUME NEW r \in Slots, ReceiveReturn(r) PROVE Goal
  <2>1. call[r].op = "receiving" /\ call'[r].op = "none"
    BY <1>11, <1>a, Finished DEF ReceiveReturn, At, NoCall
  <2>2. q # r
    BY <2>1
  <2>3. PICK c \in CustomerReturns : c = call[r].doc
    BY <2>1, <1>a DEF Carried
  <2>4. From[c] # w
    BY <2>1, <2>2, <2>3, <1>1, <1>a DEF OneClaimant
  <2>5. Resalable[c] > 0 => Into[c] # w
    BY <1>11, <2>2, <2>3, <1>1 DEF ReceiveReturn
  <2>6. level'[w] = level[w] - 0
    BY <1>11, <2>3, <2>4, <2>5 DEF ReceiveReturn
  <2> QED BY <2>6, <1>2
<1>12. ASSUME NEW o \in ProductionOrders, Plan(o) \/ CancelOrder(o) PROVE Goal
  BY <1>3, <1>12 DEF Plan, CancelOrder
<1>13. ASSUME NEW t \in Transfers, CreateTransfer(t) \/ ReverseTransfer(t) PROVE Goal
  BY <1>7, <1>13 DEF CreateTransfer, ReverseTransfer
<1>14. ASSUME NEW j \in Adjustments, AdjustStock(j) PROVE Goal
  BY <1>5, <1>6, <1>14 DEF AdjustStock
<1>15. ASSUME UNCHANGED stockVars PROVE Goal
  BY <1>3, <1>15 DEF stockVars
<1>16. Goal
  <2> HIDE DEF Goal
  <2> QED BY <1>4, <1>8, <1>9, <1>10, <1>11, <1>12, <1>13, <1>14, <1>15 DEF StockNext
<1> QED BY <1>16, <1>1

LEMMA CarriedStep ==
  ASSUME StockInv, [StockNext]_stockVars
  PROVE  (\A r \in Slots : Carried(r))'
<1>a. /\ Calls /\ level \in [Rows -> Int] /\ \A w \in Rows : level'[w] \in Int
      /\ \A r \in Slots : Carried(r) /\ call[r] \in CallRecords
  BY StockTypes, StockTypeStep DEF StockInv, Calls, StockTypeOK
<1>1. ASSUME NEW q \in Slots, call'[q] = call[q] PROVE Carried(q)'
  <2>1. Carried(q) /\ call[q] \in CallRecords
    BY <1>a
  <2>2. call[q].op \in {"complete", "completing"} => call[q].basis <= Issued(call[q].doc)'
    <3>1. SUFFICES ASSUME call[q].op \in {"complete", "completing"}
                   PROVE  call[q].basis <= Issued(call[q].doc)'
      OBVIOUS
    <3>2. PICK o \in ProductionOrders : o = call[q].doc
      BY <3>1, <2>1 DEF Carried
    <3>3. Issued(o) \in Nat
      BY IssuedTyped
    <3>4. Issued(o)' \in Nat /\ Issued(o)' >= Issued(o)
      BY IssuedGrows
    <3>5. call[q].basis \in Int /\ call[q].basis <= Issued(o)
      BY <3>1, <3>2, <2>1 DEF CallRecords, Carried
    <3>6. call[q].basis <= Issued(o)'
      BY <3>3, <3>4, <3>5
    <3>7. Issued(call[q].doc)' = Issued(o)'
      BY <1>1, <3>2
    <3> QED BY <3>6, <3>7
  <2>3. call[q].op = "completing" => state'[call[q].doc] = "IN_PROGRESS"
    BY <1>1, <2>1, ClaimHolds DEF Carried
  <2>4. call[q].op = "receiving" /\ From[call[q].doc] # Nil =>
          level'[From[call[q].doc]] >= Amount[call[q].doc]
    <3>1. SUFFICES ASSUME call[q].op = "receiving", From[call[q].doc] # Nil
                   PROVE  level'[From[call[q].doc]] >= Amount[call[q].doc]
      OBVIOUS
    <3>2. PICK c \in CustomerReturns : c = call[q].doc
      BY <3>1, <2>1 DEF Carried
    <3>3. From[c] \in Rows /\ Amount[c] \in Nat
      BY <3>1, <3>2, NamedRows, Quantities
    <3>4. level[From[c]] >= Amount[c] /\ level'[From[c]] >= level[From[c]]
      BY <3>1, <3>2, <2>1, <1>1, RowHolds DEF Carried
    <3> QED BY <3>2, <3>3, <3>4, <1>a
  <2> QED BY <1>1, <2>1, <2>2, <2>3, <2>4 DEF Carried
<1>2. CASE call' = call
  BY <1>1, <1>2
<1>3. CASE \E r \in Slots : Carried(r)' /\ \A q \in Slots \ {r} : call'[q] = call[q]
  BY <1>1, <1>3
<1> QED BY <1>2, <1>3, OneRequestMoves

LEMMA OneClaimantStep ==
  ASSUME StockInv, [StockNext]_stockVars
  PROVE  OneClaimant'
<1>a. OneClaimant /\ Calls /\ \A r \in Slots : Carried(r)
  BY StockTypes DEF StockInv
<1>1. CASE call' = call
  BY <1>1, <1>a DEF OneClaimant
<1>2. ASSUME NEW r \in Slots, \A q \in Slots \ {r} : call'[q] = call[q],
             call'[r].op \notin {"completing", "receiving"}
      PROVE  OneClaimant'
  BY <1>2, <1>a DEF OneClaimant
<1>3. ASSUME NEW r \in Slots, ClaimProduction(r) PROVE OneClaimant'
  <2>1. /\ call[r].op = "complete" /\ call'[r].op = "completing" /\ call'[r].doc = call[r].doc
        /\ \A q \in Slots \ {r} : call'[q] = call[q]
    BY <1>3, ClaimedTyped DEF ClaimProduction, At
  <2>2. \A q \in Slots : ~(call[q].op = "completing" /\ call[q].doc = call[r].doc)
    BY <1>3 DEF ClaimProduction, OrderFree
  <2> QED BY <2>1, <2>2, <1>a DEF OneClaimant
<1>4. ASSUME NEW r \in Slots, TakeFromOutlet(r) PROVE OneClaimant'
  <2>1. /\ call[r].op = "receive" /\ call'[r].op = "receiving" /\ call'[r].doc = call[r].doc
        /\ \A q \in Slots \ {r} : call'[q] = call[q]
    BY <1>4, ClaimedTyped DEF TakeFromOutlet, At
  <2>2. From[call[r].doc] # Nil =>
          \A q \in Slots : ~(call[q].op = "receiving" /\ From[call[q].doc] = From[call[r].doc])
    BY <1>4 DEF TakeFromOutlet, CanTake, RowFree
  <2> QED BY <2>1, <2>2, <1>a DEF OneClaimant
<1> QED BY <1>1, <1>2, <1>3, <1>4, OneRequestMoves

LEMMA StockInvInit == ASSUME StockInit PROVE StockInv
<1>1. /\ \A o \in ProductionOrders : state[o] = "DRAFT"
      /\ \A d \in Parts : state[d] = "REQUESTED"
      /\ \A d \in Issues \cup Transfers \cup CustomerReturns \cup Adjustments : state[d] = "NONE"
  <2>1. \A d \in Documents :
          state[d] = CASE d \in ProductionOrders -> "DRAFT" [] d \in Parts -> "REQUESTED"
                       [] OTHER -> "NONE"
    BY DEF StockInit
  <2> QED BY <2>1, KindsApart, Quantities
<1>2. state \in [Documents -> Statuses]
  <2>1. /\ \A d \in Documents : state[d] \in {"DRAFT", "REQUESTED", "NONE"}
        /\ state = [d \in Documents |-> state[d]]
    BY <1>1 DEF StockInit, Documents
  <2> QED BY <2>1 DEF Statuses
<1>3. /\ wip = [o \in ProductionOrders |-> 0] /\ held = [l \in Lines |-> 0] /\ entered = {}
      /\ level = OpeningLevel /\ call = [r \in Slots |-> NoCall]
  BY DEF StockInit
<1>4. Calls /\ \A r \in Slots : call[r] = NoCall
  BY <1>3 DEF Calls, CallRecords, NoCall
<1>5. OpeningLevel \in [Rows -> Nat]
  BY StockAssumption
<1>6. StockTypeOK
  BY <1>2, <1>3, <1>4, <1>5, StockTypes
<1>7. \A f : Sum(f, {}) = 0
  BY SumEmpty
<1>8. RowsFollowDocuments
  <2>1. Moved = {}
    BY <1>1 DEF Moved
  <2>2. \A w \in Rows : level[w] \in Nat /\ level[w] = OpeningLevel[w] + 0 - 0
    BY <1>3, <1>5
  <2> QED BY <1>7, <2>1, <2>2 DEF RowsFollowDocuments
<1>9. \A o \in ProductionOrders : OrderKept(o)
  <2>1. \A o \in ProductionOrders : Issued(o) = 0
    <3>1. \A o : {i \in Issues : ProductionOf[i] = o /\ state[i] = "ISSUED"} = {}
      BY <1>1
    <3> QED BY <1>7, <3>1 DEF Issued
  <2> QED BY <1>1, <1>3, <2>1, Quantities DEF OrderKept
<1>10. \A l \in Lines : LineKept(l)
  <2>1. \A l : Active(l) = {}
    BY <1>1 DEF Active
  <2>2. \A l \in Lines : held[l] = 0 /\ Shipped[l] \in Nat
    BY <1>3, Quantities
  <2>3. \A l \in Lines : held[l] = Sum(Amount, Active(l)) /\ held[l] <= Shipped[l]
    BY <1>7, <2>1, <2>2
  <2> QED BY <2>3 DEF LineKept
<1>11. OneClaimant /\ \A r \in Slots : Carried(r)
  BY <1>4 DEF OneClaimant, Carried, NoCall
<1> QED BY <1>6, <1>8, <1>9, <1>10, <1>11, OrdersKept, LinesKept DEF StockInv

LEMMA StockInvStep == ASSUME StockInv, [StockNext]_stockVars PROVE StockInv'
<1>1. (\A o \in ProductionOrders : OrderKept(o))'
  BY StockOrdersStep
<1>2. /\ CompletionClearsWip' /\ IssuedWithinRequired'
      /\ InProgressIsIssued'
  BY <1>1, OrdersKept, PTL
<1> QED BY <1>2, StockTypeStep, StockRowsStep, StockLinesStep, OneClaimantStep, CarriedStep DEF StockInv

\* The invariant behind the four properties below: types, the properties themselves, what is
\* in progress of an order, who holds what, and what requests carry from read to write.
THEOREM StockInvariance == StockSpec => []StockInv
<1>1. StockInit => StockInv
  BY StockInvInit
<1>2. ASSUME StockInv, [StockNext]_stockVars PROVE StockInv'
  BY <1>2, StockInvStep
<1> QED BY <1>1, <1>2, PTL DEF StockSpec

\* Every stock row that production, transfers, parts, customer returns and adjustments move
\* is never negative and holds what the documents' statuses say, each once - except where a
\* value read too early was written, or a document was decided twice (inventory-stock-
\* concurrency.util.ts, production-run.repository.ts, customer-return.repository.ts).
THEOREM RowsAreTheSum == StockSpec => []RowsFollowDocuments
<1>1. StockInv => RowsFollowDocuments
  BY DEF StockInv
<1> QED BY <1>1, StockInvariance, PTL

\* completeProduction clears the work in progress of its order, and never more than was issued,
\* unless material is issued after the value in progress was read.
THEOREM WipCleared == StockSpec => []CompletionClearsWip
<1>1. StockInv => CompletionClearsWip
  BY DEF StockInv
<1> QED BY <1>1, StockInvariance, PTL

\* issueMaterial issues no more than the order requires, unless two issues of it overlap.
THEOREM IssuesFit == StockSpec => []IssuedWithinRequired
<1>1. StockInv => IssuedWithinRequired
  BY DEF StockInv
<1> QED BY <1>1, StockInvariance, PTL

\* quantityReturned of a fulfilment line is the sum of its requested and received returns, and
\* within what was shipped, unless a return is decided twice or two are requested at once.
THEOREM HeldIsReturns == StockSpec => []HeldMatchesReturns
<1>1. StockInv => HeldMatchesReturns
  BY DEF StockInv
<1> QED BY <1>1, StockInvariance, PTL

=============================================================================
