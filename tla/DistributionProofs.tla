-------------------------- MODULE DistributionProofs --------------------------
(***************************************************************************)
(* Proofs about Distribution, for any fulfilled quantities, documents and  *)
(* number of overlapping transactions.  A transaction acts on what it read *)
(* before: RequestOK says what of that still holds when it writes.  On top *)
(* of that, Columns relates the rows to the sums over the documents.       *)
(***************************************************************************)
EXTENDS Distribution, FiniteSetTheorems, TLAPS

Ends == {"CANCELLED", "FAILED"}
Delivered == {"PARTIALLY_DELIVERED", "DELIVERED"}

\* What a transaction has read of a line, and will write or has written, fits the line's
\* limit; a delivery belongs to a dispatch that exists, and knows if that has ended.
RequestOK(r) ==
  LET x == request[r].doc
  IN  /\ x \in Documents
      /\ request[r].todo \subseteq LinesOf(x)
      /\ request[r].at # None => request[r].at \in request[r].todo
      /\ \A l \in LinesOf(x) :
           l \notin request[r].todo \/ l = request[r].at
             => request[r].seen[l] + Quantity[x][l] <= Limit(Parent(x), l)
      /\ request[r].outcome # "NONE" => x \in Deliveries
      /\ x \in Deliveries => /\ DispatchOf[x] \in recorded
                             /\ status[DispatchOf[x]] \in Ends => "status" \in request[r].outdated
RequestsOK == \A r \in Requests : Busy(r) => RequestOK(r)

\* A dispatch has a status once it has its row.
RowsOK == \A d \in Dispatches : d \in recorded <=> status[d] # "NONE"

IInv == TypeOK /\ WithinLimits /\ DeliveriesTellStatus /\ RowsOK /\ RequestsOK

\* The lines of which a transaction has read the column.
Known(r) == {l \in LinesOf(request[r].doc) : l \notin request[r].todo \/ l = request[r].at}

\* What a transaction read of a column is never more than its documents add up to, and is the
\* column itself unless it knows better: no one else writes the lines it holds.  A delivery
\* that was tallied has written all its lines, is not recorded yet unless it has none, and
\* completes its dispatch if it says so.
Draft(r) ==
  LET x == request[r].doc
      p == Parent(x)
  IN  /\ \A l \in Known(r) :
           /\ request[r].seen[l] <= Recorded(p, l)
           /\ "line" \notin request[r].outdated => request[r].seen[l] = moved[p][l]
      /\ request[r].outcome # "NONE" => request[r].todo = {} /\ (x \notin recorded \/ LinesOf(x) = {})
      /\ request[r].outcome = "DELIVERED" =>
           \A l \in Lines : Recorded(p, l) + Quantity[x][l] >= Quantity[p][l]
Drafts == \A r \in Requests : Busy(r) => Draft(r)

\* A line that is written and not committed has one writer.
OneWriter ==
  \A r, s \in Requests :
    r # s /\ Busy(r) /\ Busy(s) /\ Parent(request[r].doc) = Parent(request[s].doc)
      => Locks(r) \cap Locks(s) = {}

Columns == Drafts /\ OneWriter /\ ColumnsFollowDocuments /\ DeliveredIsEarned

-----------------------------------------------------------------------------
(* The laws of sums *)

\* An element with n units has a finite number of them, namely n.
LEMMA UnitsOfOne ==
  ASSUME NEW x, NEW n \in Nat
  PROVE  IsFiniteSet({x} \X (1 .. n)) /\ Cardinality({x} \X (1 .. n)) = n
<1>1. IsFiniteSet(1 .. n) /\ Cardinality(1 .. n) = n
  <2>1. IsFiniteSet(1 .. n) /\ Cardinality(1 .. n) = IF 1 > n THEN 0 ELSE n - 1 + 1
    BY FS_Interval
  <2> QED BY <2>1
<1>2. IsFiniteSet({x}) /\ Cardinality({x}) = 1
  BY FS_Singleton
<1>3. /\ IsFiniteSet({x} \X (1 .. n))
      /\ Cardinality({x} \X (1 .. n)) = Cardinality({x}) * Cardinality(1 .. n)
  BY <1>1, <1>2, FS_Product
<1> QED BY <1>1, <1>2, <1>3

\* The sum of finitely many natural numbers is one.
LEMMA SumType ==
  ASSUME NEW S, IsFiniteSet(S), NEW f, \A x \in S : f[x] \in Nat
  PROVE  IsFiniteSet(Units(f, S)) /\ Sum(f, S) \in Nat
<1> DEFINE part == [x \in S |-> {x} \X (1 .. f[x])]
           parts == {{x} \X (1 .. f[x]) : x \in S}
<1>1. part \in Surjection(S, parts)
  BY DEF Surjection
<1>2. IsFiniteSet(parts)
  BY <1>1, FS_Surjection
<1>3. ASSUME NEW x \in S PROVE IsFiniteSet({x} \X (1 .. f[x]))
  BY UnitsOfOne
<1>4. IsFiniteSet(UNION parts)
  BY <1>2, <1>3, FS_UNION
<1> QED BY <1>4, FS_CardinalityType DEF Units, Sum

LEMMA SumEmpty == \A f : Sum(f, {}) = 0
BY FS_EmptySet DEF Sum, Units

\* One more element adds its term.
LEMMA SumAdd ==
  ASSUME NEW S, IsFiniteSet(S), NEW x, x \notin S, NEW f, \A y \in S \cup {x} : f[y] \in Nat
  PROVE  Sum(f, S \cup {x}) = Sum(f, S) + f[x]
<1> DEFINE one == {x} \X (1 .. f[x])
<1>1. Units(f, S \cup {x}) = Units(f, S) \cup one /\ Units(f, S) \cap one = {}
  BY DEF Units
<1>2. IsFiniteSet(one) /\ Cardinality(one) = f[x] /\ f[x] \in Nat
  BY UnitsOfOne
<1>3. IsFiniteSet(Units(f, S)) /\ Cardinality(Units(f, S)) \in Nat
  BY SumType DEF Sum
<1> HIDE DEF one
<1>4. Cardinality(Units(f, S) \cup one) =
        Cardinality(Units(f, S)) + Cardinality(one) - Cardinality(Units(f, S) \cap one)
  BY <1>2, <1>3, FS_Union
<1>5. Cardinality(Units(f, S) \cap one) = 0
  BY <1>1, FS_EmptySet
<1>6. Cardinality(Units(f, S) \cup one) = Cardinality(Units(f, S)) + f[x]
  BY <1>2, <1>3, <1>4, <1>5
<1> QED BY <1>1, <1>6 DEF Sum

\* A sum grows with its terms and with their number.
LEMMA SumMonotone ==
  ASSUME NEW T, IsFiniteSet(T), NEW S \in SUBSET T, NEW f, NEW h,
         \A x \in T : h[x] \in Nat, \A x \in S : f[x] \in Nat /\ f[x] <= h[x]
  PROVE  Sum(f, S) <= Sum(h, T)
<1>1. Units(f, S) \subseteq Units(h, T)
  BY DEF Units
<1> QED BY <1>1, SumType, FS_Subset DEF Sum

\* A sum depends on its terms only.
LEMMA SumEqual ==
  ASSUME NEW S, NEW f, NEW h, \A x \in S : f[x] = h[x]
  PROVE  Sum(f, S) = Sum(h, S)
<1>1. Units(f, S) = Units(h, S)
  BY DEF Units
<1> QED BY <1>1 DEF Sum

-----------------------------------------------------------------------------
RequestRecords ==
  [doc : Documents \cup {None}, todo : SUBSET Lines, at : Lines \cup {None},
   seen : [Lines -> Nat], outcome : {"NONE", "PARTIALLY_DELIVERED", "DELIVERED"},
   outdated : SUBSET {"line", "status"}]

\* Limits and quantities are numbers, and a document's parent is a parent.
LEMMA Shapes ==
  /\ \A x \in Documents, l \in Lines : Quantity[x][l] \in Nat
  /\ \A p \in Parents, l \in Lines : Limit(p, l) \in Nat
  /\ \A x \in Documents : Parent(x) \in Parents /\ LinesOf(x) \subseteq Lines
  /\ \A x \in Dispatches : Parent(x) = None
  /\ \A x \in Deliveries : Parent(x) = DispatchOf[x] /\ DispatchOf[x] \in Dispatches /\ x \notin Dispatches
  /\ None \notin Dispatches /\ None \notin Documents /\ None \notin Lines
<1>1. \A x \in Documents, l \in Lines : Quantity[x][l] \in Nat
  BY DistributionAssumption
<1>2. \A p \in Parents, l \in Lines : Limit(p, l) \in Nat
  BY <1>1, DistributionAssumption DEF Limit, Parents, Documents
<1>3. \A x \in Documents : Parent(x) \in Parents /\ LinesOf(x) \subseteq Lines
  BY DistributionAssumption DEF Parent, Parents, Documents, LinesOf
<1>4. \A x \in Deliveries : Parent(x) = DispatchOf[x] /\ DispatchOf[x] \in Dispatches /\ x \notin Dispatches
  BY DistributionAssumption DEF Parent
<1> QED
  BY <1>1, <1>2, <1>3, <1>4, DistributionAssumption DEF Parent, Documents

\* What a transaction leaves of its parent's rows is well typed and within the limits.
LEMMA WrittenFits ==
  ASSUME IInv, NEW r \in Requests, Busy(r)
  PROVE  /\ Written(r) \in [Lines -> Nat]
         /\ \A l \in Lines : Written(r)[l] <= Limit(Parent(request[r].doc), l)
<1> DEFINE x == request[r].doc
<1>1. RequestOK(r)
  BY DEF IInv, RequestsOK
<1>2. request[r] \in RequestRecords /\ x \in Documents
  BY <1>1 DEF IInv, TypeOK, RequestRecords, RequestOK
<1>3. Parent(x) \in Parents /\ moved[Parent(x)] \in [Lines -> Nat]
  BY <1>2, Shapes DEF IInv, TypeOK
<1>4. ASSUME NEW l \in Lines
      PROVE  Written(r)[l] \in Nat /\ Written(r)[l] <= Limit(Parent(x), l)
  <2>1. CASE l \in Locks(r)
    <3>1. l \in LinesOf(x) /\ l \notin request[r].todo
      BY <2>1 DEF Locks
    <3>2. request[r].seen[l] + Quantity[x][l] <= Limit(Parent(x), l)
      BY <3>1, <1>1 DEF RequestOK
    <3>3. request[r].seen[l] \in Nat /\ Quantity[x][l] \in Nat
      BY <1>2, Shapes DEF RequestRecords
    <3>4. Written(r)[l] = request[r].seen[l] + Quantity[x][l]
      BY <2>1 DEF Written
    <3> QED BY <3>2, <3>3, <3>4
  <2>2. CASE l \notin Locks(r)
    <3>1. Written(r)[l] = moved[Parent(x)][l]
      BY <2>2 DEF Written
    <3>2. moved[Parent(x)][l] <= Limit(Parent(x), l)
      BY <1>3 DEF IInv, WithinLimits
    <3> QED BY <3>1, <3>2, <1>3
  <2> QED BY <2>1, <2>2
<1>5. Written(r) \in [Lines -> Nat]
  BY <1>4 DEF Written
<1> QED BY <1>4, <1>5

-----------------------------------------------------------------------------
(* The inductive invariant *)

LEMMA Initially == Init => IInv
<1> SUFFICES ASSUME Init PROVE IInv
  OBVIOUS
<1> USE DEF Init
<1>1. TypeOK
  BY Shapes DEF TypeOK, Statuses, Idle, Parents
<1>2. WithinLimits
  BY Shapes DEF WithinLimits
<1>3. DeliveriesTellStatus /\ RowsOK
  BY DEF DeliveriesTellStatus, RowsOK
<1>4. RequestsOK
  BY DEF RequestsOK, Busy
<1> QED BY <1>1, <1>2, <1>3, <1>4 DEF IInv

\* A request that changes only itself, and keeps RequestOK, keeps the invariant.
LEMMA RequestStep ==
  ASSUME IInv, NEW r \in Requests, NEW q \in RequestRecords,
         request' = [request EXCEPT ![r] = q],
         UNCHANGED <<status, moved, recorded, raced>>,
         q = Idle \/ RequestOK(r)'
  PROVE  IInv'
<1>1. TypeOK'
  BY DEF IInv, TypeOK, RequestRecords
<1>2. WithinLimits' /\ DeliveriesTellStatus' /\ RowsOK'
  BY DEF IInv, WithinLimits, DeliveriesTellStatus, RowsOK
<1>3. request[r]' = q /\ \A s \in Requests \ {r} : request[s]' = request[s]
  BY DEF IInv, TypeOK
<1>4. ASSUME NEW s \in Requests, Busy(s)' PROVE RequestOK(s)'
  <2>1. CASE s = r
    BY <2>1, <1>3, <1>4 DEF Busy
  <2>2. CASE s # r
    <3>1. request[s]' = request[s]
      BY <2>2, <1>3
    <3>2. RequestOK(s)
      BY <3>1, <1>4 DEF IInv, RequestsOK, Busy
    <3> QED BY <3>1, <3>2 DEF RequestOK
  <2> QED BY <2>1, <2>2
<1> QED BY <1>1, <1>2, <1>4 DEF IInv, RequestsOK

LEMMA IdleTyped == Idle \in RequestRecords
BY Shapes DEF Idle, RequestRecords

\* What a transaction starts with fits trivially.
LEMMA OpenStep ==
  ASSUME IInv, NEW r \in Requests, NEW x \in Documents,
         request' = [request EXCEPT ![r] = Transaction(x)],
         UNCHANGED <<status, moved, recorded, raced>>,
         x \in Deliveries => status[DispatchOf[x]] \in Deliverable
  PROVE  IInv'
<1>1. Transaction(x) \in RequestRecords
  BY Shapes DEF Transaction, RequestRecords
<1>2. request[r]' = Transaction(x)
  BY DEF IInv, TypeOK
<1>3. /\ Transaction(x).doc = x /\ Transaction(x).todo = LinesOf(x) /\ Transaction(x).at = None
      /\ Transaction(x).outcome = "NONE"
  BY DEF Transaction
<1>4. x \in Deliveries => DispatchOf[x] \in recorded /\ status[DispatchOf[x]] \notin Ends
  BY Shapes DEF Deliverable, Ends, IInv, RowsOK
<1>5. \A l \in LinesOf(x) : l # None
  BY Shapes
<1>6. RequestOK(r)'
  BY <1>2, <1>3, <1>4, <1>5 DEF RequestOK
<1> QED BY <1>1, <1>6, RequestStep

\* What a request in a new state has to satisfy, when only it has changed.
LEMMA Fits ==
  ASSUME NEW r \in Requests, NEW q, request[r]' = q, UNCHANGED <<status, recorded>>,
         q.doc \in Documents, q.todo \subseteq LinesOf(q.doc), q.at # None => q.at \in q.todo,
         \A k \in LinesOf(q.doc) : k \notin q.todo \/ k = q.at =>
           q.seen[k] + Quantity[q.doc][k] <= Limit(Parent(q.doc), k),
         q.outcome # "NONE" => q.doc \in Deliveries,
         q.doc \in Deliveries => /\ DispatchOf[q.doc] \in recorded
                                 /\ status[DispatchOf[q.doc]] \in Ends => "status" \in q.outdated
  PROVE  RequestOK(r)'
BY DEF RequestOK, Limit

LEMMA ReadStep ==
  ASSUME IInv, NEW r \in Requests, NEW l \in Lines, ReadLine(r, l)
  PROVE  IInv'
<1> DEFINE x == request[r].doc
           q == [request[r] EXCEPT !.at = l, !.seen[l] = moved[Parent(x)][l]]
<1>1. Busy(r) /\ RequestOK(r) /\ request[r] \in RequestRecords
  BY DEF ReadLine, IInv, RequestsOK, TypeOK, RequestRecords
<1>2. x \in Documents /\ moved[Parent(x)][l] \in Nat
  BY <1>1, Shapes DEF RequestOK, IInv, TypeOK
<1>3. q \in RequestRecords
  BY <1>1, <1>2 DEF RequestRecords
<1>4. request' = [request EXCEPT ![r] = q] /\ UNCHANGED <<status, moved, recorded, raced>>
  BY DEF ReadLine
<1>5. request[r]' = q
  BY <1>4 DEF IInv, TypeOK
<1>6. /\ q.doc = x /\ q.todo = request[r].todo /\ q.at = l /\ q.outcome = request[r].outcome
      /\ q.outdated = request[r].outdated /\ q.seen[l] = moved[Parent(x)][l]
      /\ \A k \in Lines \ {l} : q.seen[k] = request[r].seen[k]
  BY <1>1 DEF RequestRecords
<1>7. l \in request[r].todo /\ moved[Parent(x)][l] + Quantity[x][l] <= Limit(Parent(x), l)
  BY DEF ReadLine
<1>8. \A k \in LinesOf(x) : k \notin q.todo \/ k = q.at =>
        q.seen[k] + Quantity[x][k] <= Limit(Parent(x), k)
  <2>1. LinesOf(x) \subseteq Lines
    BY <1>2, Shapes
  <2>2. \A k \in LinesOf(x) \ {l} : k \notin request[r].todo =>
          request[r].seen[k] + Quantity[x][k] <= Limit(Parent(x), k)
    BY <1>1 DEF RequestOK
  <2> QED BY <2>1, <2>2, <1>6, <1>7
<1>9. RequestOK(r)'
  <2>1. /\ x \in Documents /\ q.todo \subseteq LinesOf(x) /\ q.at \in q.todo
        /\ q.outcome # "NONE" => x \in Deliveries
        /\ x \in Deliveries => /\ DispatchOf[x] \in recorded
                               /\ status[DispatchOf[x]] \in Ends => "status" \in q.outdated
    BY <1>1, <1>6, <1>7 DEF RequestOK
  <2>2. q.doc = x /\ (q.at # None => q.at \in q.todo)
    BY <2>1, <1>6
  <2> HIDE DEF q
  <2> QED BY <2>1, <2>2, <1>4, <1>5, <1>8, Fits
<1> QED BY <1>3, <1>4, <1>9, RequestStep

LEMMA WriteStep ==
  ASSUME IInv, NEW r \in Requests, WriteLine(r)
  PROVE  IInv'
<1> DEFINE x == request[r].doc
           l == request[r].at
           q == [request[r] EXCEPT !.at = None, !.todo = @ \ {l}]
<1>1. Busy(r) /\ RequestOK(r) /\ request[r] \in RequestRecords
  BY DEF WriteLine, IInv, RequestsOK, TypeOK, RequestRecords
<1>2. q \in RequestRecords
  BY <1>1 DEF RequestRecords
<1>3. request' = [request EXCEPT ![r] = q] /\ UNCHANGED <<status, moved, recorded, raced>>
  BY DEF WriteLine
<1>4. request[r]' = q
  BY <1>3 DEF IInv, TypeOK
<1>5. /\ q.doc = x /\ q.todo = request[r].todo \ {l} /\ q.at = None /\ q.seen = request[r].seen
      /\ q.outcome = request[r].outcome /\ q.outdated = request[r].outdated
  BY <1>1 DEF RequestRecords
<1>6. \A k \in LinesOf(x) : k \notin q.todo \/ k = q.at =>
        q.seen[k] + Quantity[x][k] <= Limit(Parent(x), k)
  <2>1. \A k \in LinesOf(x) : k # None
    BY <1>1, Shapes DEF RequestOK
  <2> QED BY <2>1, <1>1, <1>5 DEF RequestOK
<1>7. RequestOK(r)'
  <2>1. /\ x \in Documents /\ q.todo \subseteq LinesOf(x)
        /\ q.outcome # "NONE" => x \in Deliveries
        /\ x \in Deliveries => /\ DispatchOf[x] \in recorded
                               /\ status[DispatchOf[x]] \in Ends => "status" \in q.outdated
    BY <1>1, <1>5 DEF RequestOK
  <2>2. q.doc = x /\ q.at = None
    BY <1>5
  <2> HIDE DEF q
  <2> QED BY <2>1, <2>2, <1>3, <1>4, <1>6, Fits
<1> QED BY <1>2, <1>3, <1>7, RequestStep

LEMMA TallyStep ==
  ASSUME IInv, NEW r \in Requests, Tally(r)
  PROVE  IInv'
<1> DEFINE x == request[r].doc
           q == [request[r] EXCEPT !.outcome = Outcome(r)]
<1>1. Busy(r) /\ RequestOK(r) /\ request[r] \in RequestRecords /\ x \in Deliveries
  BY DEF Tally, IInv, RequestsOK, TypeOK, RequestRecords
<1>2. Outcome(r) \in Delivered
  BY DEF Outcome, Delivered
<1>3. q \in RequestRecords
  BY <1>1, <1>2 DEF RequestRecords, Delivered
<1>4. request' = [request EXCEPT ![r] = q] /\ UNCHANGED <<status, moved, recorded, raced>>
  BY DEF Tally
<1>5. request[r]' = q
  BY <1>4 DEF IInv, TypeOK
<1>6. /\ q.doc = x /\ q.todo = request[r].todo /\ q.at = request[r].at
      /\ q.seen = request[r].seen /\ q.outdated = request[r].outdated
  BY <1>1 DEF RequestRecords
<1>7. RequestOK(r)'
  BY <1>1, <1>4, <1>5, <1>6 DEF RequestOK, Limit
<1> QED BY <1>3, <1>4, <1>7, RequestStep

-----------------------------------------------------------------------------
(* Steps that write the rows *)

\* A step of the rows keeps what every request relies on, if what it does to the requests
\* is to end some and to outdate reads of others.
LEMMA OthersKeep ==
  ASSUME IInv, NEW s \in Requests,
         Busy(s)', request[s]' = request[s] \/ \E why \in {"line", "status"} :
           request[s]' = [request[s] EXCEPT !.outdated = @ \cup {why}],
         Busy(s), recorded \subseteq recorded',
         request[s].doc \in Deliveries =>
           \/ status'[DispatchOf[request[s].doc]] \notin Ends
           \/ status'[DispatchOf[request[s].doc]] = status[DispatchOf[request[s].doc]]
           \/ "status" \in request[s]'.outdated
  PROVE  RequestOK(s)'
<1> DEFINE x == request[s].doc
           q == request[s]'
<1>1. RequestOK(s) /\ request[s] \in RequestRecords
  BY DEF IInv, RequestsOK, TypeOK, RequestRecords
<1>2. /\ q.doc = x /\ q.todo = request[s].todo /\ q.at = request[s].at
      /\ q.seen = request[s].seen /\ q.outcome = request[s].outcome
      /\ request[s].outdated \subseteq q.outdated
  BY <1>1 DEF RequestRecords
<1>3. /\ x \in Documents /\ q.todo \subseteq LinesOf(x)
      /\ q.at # None => q.at \in q.todo
      /\ \A l \in LinesOf(x) : l \notin q.todo \/ l = q.at
           => q.seen[l] + Quantity[x][l] <= Limit(Parent(x), l)
      /\ q.outcome # "NONE" => x \in Deliveries
  BY <1>1, <1>2 DEF RequestOK
<1>4. x \in Deliveries => /\ DispatchOf[x] \in recorded'
                          /\ status'[DispatchOf[x]] \in Ends => "status" \in q.outdated
  BY <1>1, <1>2 DEF RequestOK
<1> QED BY <1>2, <1>3, <1>4 DEF RequestOK, Limit

\* After a commit of r the slots are r's, idle, and the others, at most outdated.
LEMMA AfterCommitShape ==
  ASSUME IInv, NEW r \in Requests, request' = AfterCommit(r)
  PROVE  /\ request' \in [Requests -> RequestRecords]
         /\ ~Busy(r)'
         /\ \A s \in Requests \ {r} :
              /\ \/ request[s]' = request[s]
                 \/ request[s]' = [request[s] EXCEPT !.outdated = @ \cup {"line"}]
              /\ Busy(s)' => Busy(s)
<1>1. ASSUME NEW s \in Requests
      PROVE  /\ request'[s] \in RequestRecords
             /\ s = r => request'[s] = Idle
             /\ s # r => \/ request'[s] = request[s]
                         \/ request'[s] = [request[s] EXCEPT !.outdated = @ \cup {"line"}] /\ Busy(s)
  <2>1. request[s] \in RequestRecords
    BY DEF IInv, TypeOK, RequestRecords
  <2>2. [request[s] EXCEPT !.outdated = @ \cup {"line"}] \in RequestRecords
    BY <2>1 DEF RequestRecords
  <2> QED BY <2>1, <2>2, IdleTyped DEF AfterCommit
<1>2. DOMAIN request' = Requests /\ request' = [s \in Requests |-> request'[s]]
  BY DEF AfterCommit
<1>3. request' \in [Requests -> RequestRecords]
  BY <1>1, <1>2
<1> QED BY <1>1, <1>3 DEF Busy

LEMMA OvertakenTyped ==
  ASSUME IInv, NEW r \in Requests, Busy(r)
  PROVE  Overtaken(r) \subseteq Parents \X {"line", "status"}
<1>1. RequestOK(r) /\ request[r] \in RequestRecords
  BY DEF IInv, RequestsOK, TypeOK, RequestRecords
<1>2. Parent(request[r].doc) \in Parents /\ request[r].outdated \subseteq {"line", "status"}
  BY <1>1, Shapes DEF RequestOK, RequestRecords
<1> QED BY <1>2 DEF Overtaken, IInv, TypeOK

LEMMA DispatchStep ==
  ASSUME IInv, NEW r \in Requests, CommitDispatch(r)
  PROVE  IInv'
<1> DEFINE d == request[r].doc
<1>1. Busy(r) /\ d \in Dispatches /\ d \notin recorded
  BY DEF CommitDispatch, KeyFree
<1>2. /\ status' = [status EXCEPT ![d] = "READY"] /\ moved' = [moved EXCEPT ![None] = Written(r)]
      /\ recorded' = recorded \cup {d} /\ raced' = Overtaken(r) /\ request' = AfterCommit(r)
  BY DEF CommitDispatch
<1>3. Parent(d) = None /\ d # None /\ None \in Parents
  BY <1>1, Shapes DEF Parents
<1>4. status[d] = "NONE" /\ status' = [status EXCEPT ![d] = "READY"] /\ status \in [Dispatches -> Statuses]
  BY <1>1, <1>2 DEF IInv, RowsOK, TypeOK
<1>5. TypeOK'
  <2>1. status' \in [Dispatches -> Statuses]
    BY <1>4 DEF Statuses
  <2>2. moved' \in [Parents -> [Lines -> Nat]]
    BY <1>1, <1>2, WrittenFits DEF IInv, TypeOK
  <2>3. recorded' \subseteq Documents
    BY <1>1, <1>2 DEF IInv, TypeOK, Documents
  <2>4. request' \in [Requests -> RequestRecords]
    BY <1>2, AfterCommitShape
  <2>5. raced' \subseteq Parents \X {"line", "status"}
    BY <1>1, <1>2, OvertakenTyped
  <2> QED BY <2>1, <2>2, <2>3, <2>4, <2>5 DEF TypeOK, RequestRecords
<1>6. WithinLimits'
  <2> SUFFICES ASSUME NEW p \in Parents, NEW l \in Lines PROVE moved'[p][l] <= Limit(p, l)
    BY DEF WithinLimits, Limit
  <2>1. CASE p = None
    BY <2>1, <1>1, <1>2, <1>3, WrittenFits DEF IInv, TypeOK
  <2>2. CASE p # None
    BY <2>2, <1>2 DEF IInv, TypeOK, WithinLimits
  <2> QED BY <2>1, <2>2
<1>7. RowsOK'
  BY <1>1, <1>2, <1>4 DEF IInv, RowsOK
<1>8. DeliveriesTellStatus'
  <2> SUFFICES ASSUME NEW e \in Dispatches
               PROVE  (\E x \in recorded' : Parent(x) = e) <=> status'[e] \in Delivered
    BY DEF DeliveriesTellStatus, Delivered
  <2>1. (\E x \in recorded' : Parent(x) = e) <=> \E x \in recorded : Parent(x) = e
    BY <1>2, <1>3, Shapes
  <2>2. (\E x \in recorded : Parent(x) = e) <=> status[e] \in Delivered
    BY DEF IInv, DeliveriesTellStatus, Delivered
  <2>3. status'[e] \in Delivered <=> status[e] \in Delivered
    BY <1>4 DEF Delivered
  <2> QED BY <2>1, <2>2, <2>3
<1>9. RequestsOK'
  <2> SUFFICES ASSUME NEW s \in Requests, Busy(s)' PROVE RequestOK(s)'
    BY DEF RequestsOK
  <2>1. s # r /\ Busy(s)
    BY <1>2, AfterCommitShape
  <2>2. \/ request[s]' = request[s]
        \/ request[s]' = [request[s] EXCEPT !.outdated = @ \cup {"line"}]
    BY <2>1, <1>2, AfterCommitShape
  <2>3. request[s].doc \in Deliveries =>
          \/ status'[DispatchOf[request[s].doc]] \notin Ends
          \/ status'[DispatchOf[request[s].doc]] = status[DispatchOf[request[s].doc]]
    BY <1>4, Shapes DEF Ends
  <2> QED BY <2>1, <2>2, <2>3, <1>2, OthersKeep
<1> QED BY <1>5, <1>6, <1>7, <1>8, <1>9 DEF IInv

LEMMA DeliveryStep ==
  ASSUME IInv, NEW r \in Requests, CommitDelivery(r)
  PROVE  IInv'
<1> DEFINE x == request[r].doc
           d == DispatchOf[x]
<1>1. Busy(r) /\ RequestOK(r) /\ request[r] \in RequestRecords /\ request[r].outcome # "NONE"
  BY DEF CommitDelivery, IInv, RequestsOK, TypeOK, RequestRecords
<1>2. /\ status' = [status EXCEPT ![d] = request[r].outcome] /\ moved' = [moved EXCEPT ![d] = Written(r)]
      /\ recorded' = recorded \cup {x} /\ raced' = Overtaken(r) /\ request' = AfterCommit(r)
  BY DEF CommitDelivery
<1>3. x \in Deliveries /\ d \in recorded
  BY <1>1 DEF RequestOK
<1>4. d \in Dispatches /\ d \in Parents /\ Parent(x) = d /\ x \in Documents /\ x \notin Dispatches
  BY <1>3, Shapes DEF Parents, Documents
<1>5. request[r].outcome \in Delivered /\ status \in [Dispatches -> Statuses]
  BY <1>1 DEF RequestRecords, Delivered, IInv, TypeOK
<1>6. TypeOK'
  <2>1. status' \in [Dispatches -> Statuses]
    BY <1>2, <1>5 DEF Statuses, Delivered
  <2>2. moved' \in [Parents -> [Lines -> Nat]]
    BY <1>1, <1>2, WrittenFits DEF IInv, TypeOK
  <2>3. recorded' \subseteq Documents
    BY <1>2, <1>4 DEF IInv, TypeOK
  <2>4. request' \in [Requests -> RequestRecords]
    BY <1>2, AfterCommitShape
  <2>5. raced' \subseteq Parents \X {"line", "status"}
    BY <1>1, <1>2, OvertakenTyped
  <2> QED BY <2>1, <2>2, <2>3, <2>4, <2>5 DEF TypeOK, RequestRecords
<1>7. WithinLimits'
  <2> SUFFICES ASSUME NEW p \in Parents, NEW l \in Lines PROVE moved'[p][l] <= Limit(p, l)
    BY DEF WithinLimits, Limit
  <2>1. CASE p = d
    BY <2>1, <1>1, <1>2, <1>4, WrittenFits DEF IInv, TypeOK
  <2>2. CASE p # d
    BY <2>2, <1>2 DEF IInv, TypeOK, WithinLimits
  <2> QED BY <2>1, <2>2
<1>8. RowsOK'
  BY <1>2, <1>3, <1>4, <1>5 DEF IInv, RowsOK, Delivered
<1>9. DeliveriesTellStatus'
  <2> SUFFICES ASSUME NEW e \in Dispatches
               PROVE  (\E y \in recorded' : Parent(y) = e) <=> status'[e] \in Delivered
    BY DEF DeliveriesTellStatus, Delivered
  <2>1. CASE e = d
    BY <2>1, <1>2, <1>4, <1>5
  <2>2. CASE e # d
    <3>1. (\E y \in recorded' : Parent(y) = e) <=> \E y \in recorded : Parent(y) = e
      BY <2>2, <1>2, <1>4
    <3>2. (\E y \in recorded : Parent(y) = e) <=> status[e] \in Delivered
      BY DEF IInv, DeliveriesTellStatus, Delivered
    <3> QED BY <3>1, <3>2, <2>2, <1>2, <1>5
  <2> QED BY <2>1, <2>2
<1>10. RequestsOK'
  <2> SUFFICES ASSUME NEW s \in Requests, Busy(s)' PROVE RequestOK(s)'
    BY DEF RequestsOK
  <2>1. s # r /\ Busy(s)
    BY <1>2, AfterCommitShape
  <2>2. \/ request[s]' = request[s]
        \/ request[s]' = [request[s] EXCEPT !.outdated = @ \cup {"line"}]
    BY <2>1, <1>2, AfterCommitShape
  <2>3. request[s].doc \in Deliveries =>
          \/ status'[DispatchOf[request[s].doc]] \notin Ends
          \/ status'[DispatchOf[request[s].doc]] = status[DispatchOf[request[s].doc]]
    BY <1>2, <1>5, Shapes DEF Ends, Delivered
  <2> QED BY <2>1, <2>2, <2>3, <1>2, OthersKeep
<1> QED BY <1>6, <1>7, <1>8, <1>9, <1>10 DEF IInv

\* A move of a dispatch's status that is neither from nor to a delivered status.
LEMMA StatusStep ==
  ASSUME IInv, NEW d \in Dispatches, NEW from, NEW to \in Statuses,
         SetStatus(d, from, to), from \cap (Delivered \cup {"NONE"}) = {},
         to \notin Delivered \cup {"NONE"}
  PROVE  IInv'
<1>1. /\ status[d] \notin Delivered \cup {"NONE"} /\ status' = [status EXCEPT ![d] = to]
      /\ UNCHANGED <<moved, recorded, raced>>
      /\ request' = IF to \in Ends THEN Overruled(d) ELSE request
  BY DEF SetStatus, Ends
<1>2. status \in [Dispatches -> Statuses]
  BY DEF IInv, TypeOK
<1>3. ASSUME NEW s \in Requests
      PROVE  /\ request'[s] \in RequestRecords
             /\ \/ request'[s] = request[s]
                \/ request'[s] = [request[s] EXCEPT !.outdated = @ \cup {"status"}]
             /\ Busy(s)' => Busy(s)
             /\ to \in Ends /\ Busy(s) /\ Parent(request[s].doc) = d => "status" \in request'[s].outdated
  <2>1. request[s] \in RequestRecords
    BY DEF IInv, TypeOK, RequestRecords
  <2>2. /\ [request[s] EXCEPT !.outdated = @ \cup {"status"}] \in RequestRecords
        /\ "status" \in [request[s] EXCEPT !.outdated = @ \cup {"status"}].outdated
    BY <2>1 DEF RequestRecords
  <2>3. CASE to \in Ends
    <3>1. request'[s] = IF Busy(s) /\ Parent(request[s].doc) = d
                        THEN [request[s] EXCEPT !.outdated = @ \cup {"status"}] ELSE request[s]
      BY <2>3, <1>1 DEF Overruled
    <3> QED BY <3>1, <2>1, <2>2 DEF Busy
  <2>4. CASE to \notin Ends
    BY <2>4, <2>1, <1>1 DEF Busy
  <2> QED BY <2>3, <2>4
<1>4. request' \in [Requests -> RequestRecords]
  <2>1. request' = [s \in Requests |-> request'[s]]
    BY <1>1 DEF Overruled, IInv, TypeOK
  <2> QED BY <2>1, <1>3
<1>5. TypeOK'
  BY <1>1, <1>2, <1>4 DEF IInv, TypeOK, RequestRecords
<1>6. WithinLimits' /\ RowsOK'
  BY <1>1, <1>2 DEF IInv, WithinLimits, RowsOK
<1>7. DeliveriesTellStatus'
  BY <1>1, <1>2 DEF IInv, DeliveriesTellStatus, Delivered
<1>8. RequestsOK'
  <2> SUFFICES ASSUME NEW s \in Requests, Busy(s)' PROVE RequestOK(s)'
    BY DEF RequestsOK
  <2>1. RequestOK(s) /\ Busy(s)
    BY <1>3 DEF IInv, RequestsOK
  <2>2. request[s].doc \in Deliveries =>
          \/ status'[DispatchOf[request[s].doc]] \notin Ends
          \/ status'[DispatchOf[request[s].doc]] = status[DispatchOf[request[s].doc]]
          \/ "status" \in request'[s].outdated
    BY <2>1, <1>1, <1>2, <1>3, Shapes
  <2> QED BY <2>1, <2>2, <1>1, <1>3, OthersKeep
<1> QED BY <1>5, <1>6, <1>7, <1>8 DEF IInv

LEMMA MovesKeep ==
  ASSUME IInv, NEW d \in Dispatches, Dispatch(d) \/ MarkInTransit(d) \/ Cancel(d) \/ Fail(d)
  PROVE  IInv'
<1> USE DEF Delivered, Statuses
<1>1. CASE Dispatch(d)
  BY <1>1, StatusStep DEF Dispatch
<1>2. CASE MarkInTransit(d)
  BY <1>2, StatusStep DEF MarkInTransit
<1>3. CASE Cancel(d)
  BY <1>3, StatusStep DEF Cancel, Cancellable
<1>4. CASE Fail(d)
  BY <1>4, StatusStep DEF Fail
<1> QED BY <1>1, <1>2, <1>3, <1>4

LEMMA Stepwise == IInv /\ [Next]_vars => IInv'
<1> SUFFICES ASSUME IInv, [Next]_vars PROVE IInv'
  OBVIOUS
<1>1. ASSUME NEW r \in Requests, NEW d \in Dispatches, OpenDispatch(r, d) PROVE IInv'
  BY <1>1, OpenStep, Shapes DEF OpenDispatch, Documents
<1>2. ASSUME NEW r \in Requests, NEW v \in Deliveries, OpenDelivery(r, v) PROVE IInv'
  BY <1>2, OpenStep DEF OpenDelivery, Documents
<1>3. ASSUME NEW r \in Requests, Rollback(r) PROVE IInv'
  BY <1>3, IdleTyped, RequestStep DEF Rollback
<1>4. CASE UNCHANGED vars
  BY <1>4 DEF vars, IInv, TypeOK, WithinLimits, DeliveriesTellStatus, RowsOK, RequestsOK, RequestOK, Busy
<1> QED
  BY <1>1, <1>2, <1>3, <1>4, ReadStep, WriteStep, TallyStep, DispatchStep, DeliveryStep, MovesKeep DEF Next

-----------------------------------------------------------------------------
(* What the documents add up to *)

\* Terms that are nowhere larger and whose sum is no smaller are the same.
LEMMA SumSqueeze ==
  ASSUME NEW S, IsFiniteSet(S), NEW f, NEW h,
         \A x \in S : f[x] \in Nat /\ h[x] \in Nat /\ f[x] <= h[x], Sum(f, S) >= Sum(h, S)
  PROVE  \A x \in S : f[x] = h[x]
<1>1. Units(f, S) \subseteq Units(h, S)
  BY DEF Units
<1>2. IsFiniteSet(Units(h, S)) /\ Sum(h, S) \in Nat /\ Sum(f, S) \in Nat
  BY SumType
<1>3. Sum(f, S) <= Sum(h, S)
  BY <1>1, <1>2, FS_Subset DEF Sum
<1>4. Units(f, S) = Units(h, S)
  BY <1>1, <1>2, <1>3, FS_Subset DEF Sum
<1> SUFFICES ASSUME NEW x \in S, f[x] < h[x] PROVE FALSE
  OBVIOUS
<1>5. <<x, h[x]>> \in Units(h, S)
  BY DEF Units
<1>6. <<x, h[x]>> \notin Units(f, S)
  BY DEF Units
<1> QED BY <1>4, <1>5, <1>6

LEMMA RecordedType ==
  ASSUME IInv, NEW p \in Parents, NEW l \in Lines
  PROVE  Recorded(p, l) \in Nat
<1> DEFINE S == {x \in recorded : Parent(x) = p}
           f == [x \in Documents |-> Quantity[x][l]]
<1>1. S \subseteq Documents /\ IsFiniteSet(S)
  BY DistributionAssumption, FS_Subset DEF IInv, TypeOK
<1>2. \A x \in S : f[x] \in Nat
  BY <1>1, Shapes
<1> HIDE DEF S, f
<1>3. Sum(f, S) \in Nat
  BY <1>1, <1>2, SumType
<1> QED BY <1>3 DEF Recorded, S, f

\* A document that is recorded adds its lines to its parent's totals.
LEMMA RecordedStep ==
  ASSUME IInv, NEW x \in Documents, recorded' = recorded \cup {x},
         x \notin recorded \/ LinesOf(x) = {}, NEW p \in Parents, NEW l \in Lines
  PROVE  Recorded(p, l)' = Recorded(p, l) + IF Parent(x) = p THEN Quantity[x][l] ELSE 0
<1> DEFINE S == {y \in recorded : Parent(y) = p}
           T == {y \in recorded \cup {x} : Parent(y) = p}
           f == [y \in Documents |-> Quantity[y][l]]
<1>1. S \subseteq Documents /\ IsFiniteSet(S)
  BY DistributionAssumption, FS_Subset DEF IInv, TypeOK
<1>2. (\A y \in S \cup {x} : f[y] \in Nat) /\ f[x] = Quantity[x][l] /\ Quantity[x][l] \in Nat
  BY <1>1, Shapes
<1>3. Recorded(p, l) = Sum(f, S) /\ Recorded(p, l)' = Sum(f, T) /\ Recorded(p, l) \in Nat
  BY RecordedType DEF Recorded
<1>4. CASE x \in recorded
  <2>1. T = S
    BY <1>4
  <2>2. Quantity[x][l] = 0
    BY <1>2, <1>4 DEF LinesOf
  <2> HIDE DEF S, T, f
  <2>3. Recorded(p, l)' = Recorded(p, l) /\ Recorded(p, l) \in Nat
    BY <2>1, <1>3
  <2> QED BY <2>2, <2>3
<1>5. CASE x \notin recorded /\ Parent(x) = p
  <2>1. T = S \cup {x} /\ x \notin S
    BY <1>5
  <2> HIDE DEF S, T, f
  <2>2. Sum(f, S \cup {x}) = Sum(f, S) + f[x]
    BY <2>1, <1>1, <1>2, SumAdd
  <2> QED BY <2>1, <2>2, <1>2, <1>3, <1>5
<1>6. CASE x \notin recorded /\ Parent(x) # p
  <2>1. T = S
    BY <1>6
  <2> HIDE DEF S, T, f
  <2>2. Recorded(p, l)' = Recorded(p, l) /\ Recorded(p, l) \in Nat
    BY <2>1, <1>3
  <2> QED BY <2>2, <1>6
<1> QED BY <1>4, <1>5, <1>6

LEMMA ColumnsInitially == Init => Columns
<1> SUFFICES ASSUME Init PROVE Columns
  OBVIOUS
<1>1. Drafts /\ OneWriter
  BY DEF Init, Drafts, OneWriter, Busy
<1>2. ColumnsFollowDocuments
  <2> SUFFICES ASSUME NEW p \in Parents, NEW l \in Lines PROVE moved[p][l] = 0 /\ Recorded(p, l) = 0
    BY DEF ColumnsFollowDocuments
  <2>1. {x \in recorded : Parent(x) = p} = {}
    BY DEF Init
  <2>2. Recorded(p, l) = 0
    BY <2>1, SumEmpty DEF Recorded
  <2> QED BY <2>2 DEF Init
<1>3. DeliveredIsEarned
  BY DEF Init, DeliveredIsEarned
<1> QED BY <1>1, <1>2, <1>3 DEF Columns

\* The totals depend on what is recorded alone.
LEMMA SameTotals ==
  ASSUME recorded' = recorded
  PROVE  \A p, l : Recorded(p, l)' = Recorded(p, l)
  BY DEF Recorded

\* A slot whose draft is what it was, but that it may know of more outdated reads.
LEMMA SameDraft ==
  ASSUME UNCHANGED <<moved, recorded>>, NEW s \in Requests, Draft(s),
         request'[s].doc = request[s].doc, request'[s].todo = request[s].todo,
         request'[s].at = request[s].at, request'[s].seen = request[s].seen,
         request'[s].outcome = request[s].outcome,
         request[s].outdated \subseteq request'[s].outdated
  PROVE  Draft(s)' /\ Locks(s)' = Locks(s)
  BY SameTotals DEF Draft, Known, Locks

\* A step that writes one slot and no row.
LEMMA SlotColumns ==
  ASSUME IInv, Columns, NEW r \in Requests, \A s \in Requests \ {r} : request'[s] = request[s],
         UNCHANGED <<moved, recorded, raced>>,
         \A d \in Dispatches : status'[d] = "DELIVERED" => status[d] = "DELIVERED",
         Busy(r)' => Draft(r)',
         Busy(r)' => \A s \in Requests \ {r} :
           Busy(s) /\ Parent(request[s].doc) = Parent(request'[r].doc) => Locks(r)' \cap Locks(s) = {}
  PROVE  Columns'
<1> USE DEF Columns
<1>1. \A s \in Requests \ {r} : (Busy(s)' <=> Busy(s)) /\ Locks(s)' = Locks(s)
  BY DEF Busy, Locks
<1>2. Drafts'
  <2> SUFFICES ASSUME NEW s \in Requests, Busy(s)', s # r PROVE Draft(s)'
    BY DEF Drafts
  <2>1. Draft(s)
    BY <1>1 DEF Drafts
  <2> QED BY <2>1, SameDraft
<1>3. OneWriter'
  BY <1>1 DEF OneWriter
<1>4. ColumnsFollowDocuments' /\ DeliveredIsEarned'
  BY SameTotals DEF ColumnsFollowDocuments, DeliveredIsEarned
<1> QED BY <1>2, <1>3, <1>4

LEMMA OpenColumns ==
  ASSUME IInv, Columns, NEW r \in Requests, NEW x \in Documents,
         request' = [request EXCEPT ![r] = Transaction(x)],
         UNCHANGED <<status, moved, recorded, raced>>
  PROVE  Columns'
<1>1. /\ request'[r] = Transaction(x) /\ \A s \in Requests \ {r} : request'[s] = request[s]
      /\ request'[r].doc = x /\ request'[r].todo = LinesOf(x) /\ request'[r].at = None
      /\ request'[r].outcome = "NONE"
  BY DEF IInv, TypeOK, Transaction
<1>2. None \notin LinesOf(x)
  BY Shapes DEF LinesOf
<1>3. Known(r)' = {} /\ Locks(r)' = {}
  BY <1>1, <1>2 DEF Known, Locks
<1>4. Draft(r)'
  BY <1>1, <1>3 DEF Draft
<1> QED BY <1>1, <1>3, <1>4, SlotColumns

LEMMA ReadColumns ==
  ASSUME IInv, Columns, NEW r \in Requests, NEW l \in Lines, ReadLine(r, l)
  PROVE  Columns'
<1> DEFINE x == request[r].doc
           p == Parent(x)
           new == [request[r].seen EXCEPT ![l] = moved[p][l]]
           q == [request[r] EXCEPT !.at = l, !.seen = new]
<1>1. Busy(r) /\ RequestOK(r) /\ request[r] \in RequestRecords /\ Draft(r) /\ l \in request[r].todo
  BY DEF ReadLine, IInv, RequestsOK, TypeOK, RequestRecords, Columns, Drafts
<1>2. x \in Documents /\ p \in Parents /\ moved[p][l] \in Nat /\ moved[p][l] <= Recorded(p, l)
  <2>1. x \in Documents /\ p \in Parents
    BY <1>1, Shapes DEF RequestOK
  <2>2. moved[p][l] \in Nat
    BY <2>1 DEF IInv, TypeOK
  <2> QED BY <2>1, <2>2 DEF Columns, ColumnsFollowDocuments
<1>3. request' = [request EXCEPT ![r] = q] /\ UNCHANGED <<status, moved, recorded, raced>>
  BY <1>1 DEF ReadLine, RequestRecords
<1>4. new[l] = moved[p][l] /\ \A k \in Lines \ {l} : new[k] = request[r].seen[k]
  BY <1>1 DEF RequestRecords
<1> HIDE DEF new
<1>5. /\ q.doc = x /\ q.todo = request[r].todo /\ q.at = l /\ q.seen = new
      /\ q.outcome = request[r].outcome /\ q.outdated = request[r].outdated
  BY <1>1 DEF RequestRecords
<1>6. request'[r] = q /\ \A s \in Requests \ {r} : request'[s] = request[s]
  BY <1>3 DEF IInv, TypeOK
<1> HIDE DEF q
<1>7. Locks(r)' = Locks(r) /\ LinesOf(x) \subseteq Lines
  BY <1>2, <1>5, <1>6, Shapes DEF Locks
<1>8. ASSUME NEW k \in Known(r)'
      PROVE  /\ new[k] <= Recorded(p, k)
             /\ "line" \notin request[r].outdated => new[k] = moved[p][k]
  <2>1. CASE k = l
    BY <2>1, <1>2, <1>4
  <2>2. CASE k # l
    <3>1. k \in Known(r) /\ k \in Lines
      BY <2>2, <1>5, <1>6, <1>7 DEF Known
    <3> QED BY <3>1, <2>2, <1>1, <1>4 DEF Draft
  <2> QED BY <2>1, <2>2
<1>9. Draft(r)'
  BY <1>1, <1>3, <1>5, <1>6, <1>8, SameTotals DEF Draft
<1> QED BY <1>1, <1>3, <1>5, <1>6, <1>7, <1>9, SlotColumns DEF Columns, OneWriter

LEMMA WriteColumns ==
  ASSUME IInv, Columns, NEW r \in Requests, WriteLine(r)
  PROVE  Columns'
<1> DEFINE x == request[r].doc
           l == request[r].at
           todo == request[r].todo \ {l}
           q == [request[r] EXCEPT !.at = None, !.todo = todo]
<1>1. /\ Busy(r) /\ RequestOK(r) /\ request[r] \in RequestRecords /\ Draft(r)
      /\ l # None /\ ~Locked(Parent(x), l)
  BY DEF WriteLine, IInv, RequestsOK, TypeOK, RequestRecords, Columns, Drafts
<1>2. x \in Documents /\ l \in request[r].todo /\ request[r].todo \subseteq LinesOf(x) /\ None \notin LinesOf(x)
  BY <1>1, Shapes DEF RequestOK, LinesOf
<1>3. request' = [request EXCEPT ![r] = q] /\ UNCHANGED <<status, moved, recorded, raced>>
  BY <1>1 DEF WriteLine, RequestRecords
<1>4. /\ q.doc = x /\ q.todo = todo /\ q.at = None /\ q.seen = request[r].seen
      /\ q.outcome = request[r].outcome /\ q.outdated = request[r].outdated
  BY <1>1 DEF RequestRecords
<1>5. request'[r] = q /\ \A s \in Requests \ {r} : request'[s] = request[s]
  BY <1>3 DEF IInv, TypeOK
<1> HIDE DEF q
<1>6. Locks(r)' = Locks(r) \cup {l} /\ Known(r)' = Known(r)
  BY <1>2, <1>4, <1>5 DEF Locks, Known
<1>7. request[r].outcome = "NONE"
  BY <1>1, <1>2 DEF Draft
<1>8. Draft(r)'
  BY <1>1, <1>3, <1>4, <1>5, <1>6, <1>7, SameTotals DEF Draft
<1>9. \A s \in Requests \ {r} :
        Busy(s) /\ Parent(request[s].doc) = Parent(x) => Locks(r)' \cap Locks(s) = {}
  BY <1>1, <1>6 DEF Columns, OneWriter, Locked
<1> QED BY <1>3, <1>4, <1>5, <1>8, <1>9, SlotColumns

\* The rows that a tally finds complete are complete in the documents, its own among them.
LEMMA TallyColumns ==
  ASSUME IInv, Columns, NEW r \in Requests, Tally(r)
  PROVE  Columns'
<1> DEFINE q == [request[r] EXCEPT !.outcome = Outcome(r)]
<1>1. /\ Busy(r) /\ RequestOK(r) /\ request[r] \in RequestRecords /\ Draft(r)
      /\ request[r].todo = {} /\ request[r].doc \in Deliveries \ recorded
  BY DEF Tally, IInv, RequestsOK, TypeOK, RequestRecords, Columns, Drafts
<1>2. PICK x \in Deliveries : x = request[r].doc
  BY <1>1
<1>3. PICK d \in Dispatches : d = DispatchOf[x] /\ d = Parent(x) /\ d \in Parents /\ x \in Documents
  BY Shapes DEF Parents, Documents
<1>4. request' = [request EXCEPT ![r] = q] /\ UNCHANGED <<status, moved, recorded, raced>>
  BY DEF Tally
<1>5. /\ q.doc = x /\ q.todo = {} /\ q.at = request[r].at /\ q.seen = request[r].seen
      /\ q.outcome = Outcome(r) /\ q.outdated = request[r].outdated
  BY <1>1, <1>2 DEF RequestRecords
<1>6. request'[r] = q /\ \A s \in Requests \ {r} : request'[s] = request[s]
  BY <1>4 DEF IInv, TypeOK
<1> HIDE DEF q
<1>7. Locks(r) = LinesOf(x) /\ Locks(r)' = LinesOf(x) /\ Known(r)' = Known(r) /\ Known(r) = LinesOf(x)
  BY <1>1, <1>2, <1>5, <1>6 DEF Locks, Known
<1>8. ASSUME Outcome(r) = "DELIVERED", NEW l \in Lines
      PROVE  Recorded(d, l) + Quantity[x][l] >= Quantity[d][l]
  <2>1. Total(Written(r)) >= Total(Quantity[d])
    BY <1>2, <1>3, <1>8 DEF Outcome
  <2>2. \A k \in Lines : Written(r)[k] \in Nat /\ Quantity[d][k] \in Nat /\ Written(r)[k] <= Quantity[d][k]
    <3>1. \A k \in Lines : Limit(d, k) = Quantity[d][k] /\ Quantity[d][k] \in Nat
      BY <1>3, Shapes DEF Limit, Documents
    <3> QED BY <3>1, <1>1, <1>2, <1>3, WrittenFits
  <2>3. Written(r)[l] = Quantity[d][l]
    BY <2>1, <2>2, DistributionAssumption, SumSqueeze DEF Total
  <2>4. /\ Recorded(d, l) \in Nat /\ Quantity[x][l] \in Nat /\ moved[d][l] \in Nat
        /\ moved[d][l] <= Recorded(d, l) /\ request[r].seen[l] \in Nat
    <3>1. Recorded(d, l) \in Nat /\ Quantity[x][l] \in Nat
      BY <1>3, RecordedType, Shapes
    <3>2. moved[d][l] \in Nat /\ moved[d][l] <= Recorded(d, l)
      <4>1. moved[d][l] \in Nat
        BY <1>3 DEF IInv, TypeOK
      <4> QED BY <4>1, <1>3 DEF Columns, ColumnsFollowDocuments
    <3> QED BY <3>1, <3>2, <1>1 DEF RequestRecords
  <2>5. CASE l \in LinesOf(x)
    <3>1. Written(r)[l] = request[r].seen[l] + Quantity[x][l]
      BY <2>5, <1>2, <1>7 DEF Written
    <3>2. request[r].seen[l] <= Recorded(d, l)
      BY <2>5, <1>1, <1>2, <1>3, <1>7 DEF Draft
    <3> QED BY <3>1, <3>2, <2>3, <2>4
  <2>6. CASE l \notin LinesOf(x)
    <3>1. Written(r)[l] = moved[d][l]
      BY <2>6, <1>2, <1>3, <1>7 DEF Written
    <3> QED BY <3>1, <2>3, <2>4
  <2> QED BY <2>5, <2>6
<1>9. Draft(r)'
  BY <1>1, <1>2, <1>3, <1>4, <1>5, <1>6, <1>7, <1>8, SameTotals DEF Draft
<1> QED BY <1>1, <1>2, <1>4, <1>5, <1>6, <1>7, <1>9, SlotColumns DEF Columns, OneWriter

\* With x recorded, the documents of p account for all of p.
Completes(x, p) == \A l \in Lines : Recorded(p, l) + Quantity[x][l] >= Quantity[p][l]

\* The commit of a transaction that has written all its lines.
LEMMA CommitColumns ==
  ASSUME IInv, Columns, NEW r \in Requests, Busy(r), request[r].todo = {},
         NEW x \in Documents, x = request[r].doc, x \notin recorded \/ LinesOf(x) = {},
         NEW p \in Parents, p = Parent(x),
         moved' = [moved EXCEPT ![p] = Written(r)], recorded' = recorded \cup {x},
         raced' = Overtaken(r), request' = AfterCommit(r),
         \A d \in Dispatches : status'[d] = "DELIVERED" =>
           \/ status[d] = "DELIVERED"
           \/ d = p /\ Completes(x, p)
  PROVE  Columns'
<1> USE DEF Columns
<1>1. RequestOK(r) /\ Draft(r) /\ request[r] \in RequestRecords
  BY DEF IInv, RequestsOK, Drafts, TypeOK, RequestRecords
<1>2. Locks(r) = LinesOf(x) /\ Known(r) = LinesOf(x) /\ LinesOf(x) \subseteq Lines
  BY Shapes DEF Locks, Known
<1>3. ASSUME NEW k \in Parents, NEW l \in Lines
      PROVE  /\ Recorded(k, l) \in Nat /\ Quantity[x][l] \in Nat
             /\ Recorded(k, l)' = Recorded(k, l) + IF k = p THEN Quantity[x][l] ELSE 0
             /\ Recorded(k, l) <= Recorded(k, l)'
  <2>1. Recorded(k, l) \in Nat /\ Quantity[x][l] \in Nat
    BY RecordedType, Shapes
  <2>2. Recorded(k, l)' = Recorded(k, l) + IF Parent(x) = k THEN Quantity[x][l] ELSE 0
    BY RecordedStep
  <2> QED BY <2>1, <2>2
<1>4. /\ \A k \in Parents \ {p} : moved'[k] = moved[k]
      /\ \A l \in LinesOf(x) : moved'[p][l] = request[r].seen[l] + Quantity[x][l]
      /\ \A l \in Lines \ LinesOf(x) : moved'[p][l] = moved[p][l] /\ Quantity[x][l] = 0
  <2>1. \A l \in Lines \ LinesOf(x) : Quantity[x][l] = 0
    BY Shapes DEF LinesOf
  <2>2. moved'[p] = Written(r) /\ \A k \in Parents \ {p} : moved'[k] = moved[k]
    BY DEF IInv, TypeOK
  <2> QED BY <2>1, <2>2, <1>2 DEF Written
<1>5. ASSUME NEW s \in Requests, Busy(s)'
      PROVE  /\ s # r /\ Busy(s) /\ Draft(s) /\ RequestOK(s)
             /\ request'[s].doc = request[s].doc /\ request'[s].todo = request[s].todo
             /\ request'[s].at = request[s].at /\ request'[s].seen = request[s].seen
             /\ request'[s].outcome = request[s].outcome
             /\ request[s].outdated \subseteq request'[s].outdated
             /\ Parent(request[s].doc) = p /\ request[s].at \in LinesOf(x) => "line" \in request'[s].outdated
  <2>1. s # r /\ Busy(s)
    BY <1>5, AfterCommitShape
  <2>2. Draft(s) /\ RequestOK(s) /\ request[s] \in RequestRecords
    BY <2>1 DEF IInv, RequestsOK, Drafts, TypeOK, RequestRecords
  <2>3. request'[s] = IF Parent(request[s].doc) = p /\ request[s].at \in LinesOf(x)
                      THEN [request[s] EXCEPT !.outdated = @ \cup {"line"}] ELSE request[s]
    BY <2>1 DEF AfterCommit
  <2> QED BY <2>1, <2>2, <2>3 DEF RequestRecords
<1>6. \A s \in Requests : Busy(s)' => Locks(s)' = Locks(s) /\ Known(s)' = Known(s)
  BY <1>5 DEF Locks, Known
<1>7. OneWriter'
  BY <1>5, <1>6 DEF OneWriter
<1>8. ASSUME NEW s \in Requests, Busy(s)' PROVE Draft(s)'
  <2>1. PICK y \in Documents : y = request[s].doc /\ y = request'[s].doc
    BY <1>5, <1>8 DEF RequestOK
  <2>2. PICK k \in Parents : k = Parent(y)
    BY Shapes
  <2>3. /\ Busy(s) /\ Draft(s) /\ s # r /\ Locks(s)' = Locks(s) /\ Known(s)' = Known(s)
        /\ LinesOf(y) \subseteq Lines /\ Known(s) \subseteq LinesOf(y)
    BY <1>5, <1>6, <1>8, <2>1, Shapes DEF Known
  <2>4. ASSUME NEW l \in Known(s)
        PROVE  /\ request'[s].seen[l] <= Recorded(k, l)'
               /\ "line" \notin request'[s].outdated => request'[s].seen[l] = moved'[k][l]
    <3>1. l \in Lines /\ request[s].seen[l] \in Nat
      BY <2>3 DEF IInv, TypeOK
    <3>2. /\ request[s].seen[l] <= Recorded(k, l)
          /\ "line" \notin request[s].outdated => request[s].seen[l] = moved[k][l]
      BY <2>1, <2>2, <2>3 DEF Draft
    <3>3. request'[s].seen[l] <= Recorded(k, l)'
      BY <3>1, <3>2, <1>3, <1>5, <1>8
    <3>4. ASSUME "line" \notin request'[s].outdated PROVE moved'[k][l] = moved[k][l]
      <4>1. CASE k # p
        BY <4>1, <1>4
      <4>2. CASE k = p /\ l \in LinesOf(x)
        <5>1. l # request[s].at
          BY <4>2, <3>4, <1>5, <1>8, <2>1, <2>2
        <5>2. l \in Locks(s)
          BY <5>1, <2>1, <2>3 DEF Known, Locks
        <5> QED BY <5>2, <4>2, <1>2, <2>1, <2>2, <2>3 DEF OneWriter
      <4>3. CASE k = p /\ l \notin LinesOf(x)
        BY <4>3, <3>1, <1>4
      <4> QED BY <4>1, <4>2, <4>3
    <3>5. "line" \notin request'[s].outdated => "line" \notin request[s].outdated
      BY <1>5, <1>8
    <3> QED BY <3>2, <3>3, <3>4, <3>5, <1>5, <1>8
  <2>5. request'[s].outcome # "NONE" => request'[s].todo = {} /\ (y \notin recorded' \/ LinesOf(y) = {})
    <3> SUFFICES ASSUME request'[s].outcome # "NONE"
                 PROVE  request'[s].todo = {} /\ (y \notin recorded' \/ LinesOf(y) = {})
      OBVIOUS
    <3>1. request[s].todo = {} /\ request'[s].todo = {} /\ (y \notin recorded \/ LinesOf(y) = {})
      BY <2>1, <2>3, <1>5, <1>8 DEF Draft
    <3>2. CASE y = x
      <4>1. Locks(s) = LinesOf(x)
        BY <3>1, <3>2, <2>1 DEF Locks
      <4>2. LinesOf(x) = {}
        BY <4>1, <3>2, <1>2, <2>1, <2>3 DEF OneWriter
      <4> QED BY <4>2, <3>1, <3>2
    <3>3. CASE y # x
      BY <3>1, <3>3
    <3> QED BY <3>2, <3>3
  <2>6. ASSUME request'[s].outcome = "DELIVERED", NEW l \in Lines
        PROVE  Recorded(k, l)' + Quantity[y][l] >= Quantity[k][l]
    <3>1. Recorded(k, l) + Quantity[y][l] >= Quantity[k][l]
      BY <2>1, <2>2, <2>3, <2>6, <1>5, <1>8 DEF Draft
    <3>2. k \in Documents
      <4>1. y \in Deliveries
        BY <2>1, <2>6, <1>5, <1>8 DEF RequestOK
      <4> QED BY <4>1, <2>2, Shapes DEF Documents
    <3>3. Quantity[y][l] \in Nat /\ Quantity[k][l] \in Nat
      BY <3>2, Shapes
    <3>4. Recorded(k, l)' = Recorded(k, l) \/ Recorded(k, l)' = Recorded(k, l) + Quantity[x][l]
      BY <1>3
    <3> QED BY <3>1, <3>3, <3>4, <1>3
  <2> QED BY <2>1, <2>2, <2>3, <2>4, <2>5, <2>6 DEF Draft
<1>9. ColumnsFollowDocuments'
  <2> SUFFICES ASSUME NEW k \in Parents, NEW l \in Lines
               PROVE  /\ moved'[k][l] <= Recorded(k, l)'
                      /\ <<k, "line">> \notin raced' => moved'[k][l] = Recorded(k, l)'
    BY DEF ColumnsFollowDocuments
  <2>1. /\ moved[k][l] <= Recorded(k, l) /\ moved[k][l] \in Nat
        /\ <<k, "line">> \notin raced => moved[k][l] = Recorded(k, l)
    BY DEF ColumnsFollowDocuments, IInv, TypeOK
  <2>2. <<k, "line">> \notin raced' => <<k, "line">> \notin raced
    BY DEF Overtaken
  <2>3. CASE k # p
    BY <2>1, <2>2, <2>3, <1>3, <1>4
  <2>4. CASE k = p /\ l \in LinesOf(x)
    <3>1. /\ request[r].seen[l] <= Recorded(p, l) /\ request[r].seen[l] \in Nat
          /\ "line" \notin request[r].outdated => request[r].seen[l] = moved[p][l]
      BY <2>4, <1>1, <1>2 DEF Draft, RequestRecords
    <3>2. <<p, "line">> \notin raced' => "line" \notin request[r].outdated
      BY DEF Overtaken
    <3> QED BY <3>1, <3>2, <2>1, <2>2, <2>4, <1>3, <1>4
  <2>5. CASE k = p /\ l \notin LinesOf(x)
    BY <2>1, <2>2, <2>5, <1>3, <1>4
  <2> QED BY <2>3, <2>4, <2>5
<1>10. DeliveredIsEarned'
  <2> SUFFICES ASSUME NEW d \in Dispatches, status'[d] = "DELIVERED", NEW l \in Lines
               PROVE  Recorded(d, l)' >= Quantity[d][l]
    BY DEF DeliveredIsEarned
  <2>1. d \in Parents /\ d \in Documents /\ Quantity[d][l] \in Nat
    BY Shapes DEF Parents, Documents
  <2>2. CASE status[d] = "DELIVERED"
    BY <2>1, <2>2, <1>3 DEF DeliveredIsEarned
  <2>3. CASE d = p /\ Completes(x, p)
    <3>1. Recorded(p, l) + Quantity[x][l] >= Quantity[p][l]
      BY <2>3 DEF Completes
    <3> QED BY <3>1, <2>1, <2>3, <1>3
  <2> QED BY <2>2, <2>3
<1> QED BY <1>7, <1>8, <1>9, <1>10 DEF Drafts

LEMMA CommitsKeepColumns ==
  ASSUME IInv, Columns, NEW r \in Requests, CommitDispatch(r) \/ CommitDelivery(r)
  PROVE  Columns'
<1>1. CASE CommitDispatch(r)
  <2>1. PICK x \in Dispatches : x = request[r].doc
    BY <1>1 DEF CommitDispatch
  <2>2. x \in Documents /\ None \in Parents /\ None = Parent(x)
    BY Shapes DEF Parents, Documents
  <2>3. \A d \in Dispatches : status'[d] = "DELIVERED" => status[d] = "DELIVERED"
    BY <1>1 DEF CommitDispatch, IInv, TypeOK
  <2>4. /\ Busy(r) /\ request[r].todo = {} /\ x \notin recorded
        /\ moved' = [moved EXCEPT ![None] = Written(r)] /\ recorded' = recorded \cup {x}
        /\ raced' = Overtaken(r) /\ request' = AfterCommit(r)
    BY <1>1, <2>1 DEF CommitDispatch, KeyFree
  <2>5. PICK p \in Parents : p = None
    BY <2>2
  <2>6. p = Parent(x) /\ moved' = [moved EXCEPT ![p] = Written(r)]
    BY <2>2, <2>4, <2>5
  <2>7. \A d \in Dispatches : status'[d] = "DELIVERED" =>
          \/ status[d] = "DELIVERED"
          \/ d = p /\ Completes(x, p)
    BY <2>3
  <2> QED BY <2>1, <2>2, <2>4, <2>6, <2>7, CommitColumns
<1>2. CASE CommitDelivery(r)
  <2>1. Busy(r) /\ request[r].outcome # "NONE" /\ Draft(r) /\ RequestOK(r)
    BY <1>2 DEF CommitDelivery, Columns, Drafts, IInv, RequestsOK
  <2>2. PICK x \in Deliveries : x = request[r].doc
    BY <2>1 DEF RequestOK
  <2>3. PICK p \in Dispatches : p = DispatchOf[x] /\ p = Parent(x) /\ p \in Parents /\ x \in Documents
    BY Shapes DEF Parents, Documents
  <2>4. /\ status' = [status EXCEPT ![p] = request[r].outcome]
        /\ moved' = [moved EXCEPT ![p] = Written(r)] /\ recorded' = recorded \cup {x}
        /\ raced' = Overtaken(r) /\ request' = AfterCommit(r)
    BY <1>2, <2>2, <2>3 DEF CommitDelivery
  <2>5. /\ request[r].todo = {} /\ (x \notin recorded \/ LinesOf(x) = {})
        /\ request[r].outcome = "DELIVERED" => Completes(x, p)
    BY <2>1, <2>2, <2>3 DEF Draft, Completes
  <2>6. \A d \in Dispatches : status'[d] = "DELIVERED" =>
          \/ status[d] = "DELIVERED"
          \/ d = p /\ Completes(x, p)
    <3> SUFFICES ASSUME NEW d \in Dispatches, status'[d] = "DELIVERED", status[d] # "DELIVERED"
                 PROVE  d = p /\ Completes(x, p)
      OBVIOUS
    <3>1. d = p /\ request[r].outcome = "DELIVERED"
      BY <2>4 DEF IInv, TypeOK
    <3> QED BY <3>1, <2>5
  <2> QED BY <2>1, <2>2, <2>3, <2>4, <2>5, <2>6, CommitColumns
<1> QED BY <1>1, <1>2

\* The moves of a dispatch touch no row of a line and never write DELIVERED.
LEMMA MovesKeepColumns ==
  ASSUME IInv, Columns, NEW d \in Dispatches, Dispatch(d) \/ MarkInTransit(d) \/ Cancel(d) \/ Fail(d)
  PROVE  Columns'
<1>1. PICK from, to : SetStatus(d, from, to) /\ to # "DELIVERED"
  BY DEF Dispatch, MarkInTransit, Cancel, Fail
<1>2. /\ UNCHANGED <<moved, recorded, raced>>
      /\ \A e \in Dispatches : status'[e] = "DELIVERED" => status[e] = "DELIVERED"
  BY <1>1 DEF SetStatus, IInv, TypeOK
<1>3. ASSUME NEW s \in Requests
      PROVE  /\ request'[s].doc = request[s].doc /\ request'[s].todo = request[s].todo
             /\ request'[s].at = request[s].at /\ request'[s].seen = request[s].seen
             /\ request'[s].outcome = request[s].outcome
             /\ request[s].outdated \subseteq request'[s].outdated
             /\ Busy(s)' => Busy(s)
  <2>1. request[s] \in RequestRecords
    BY DEF IInv, TypeOK, RequestRecords
  <2>2. \/ request'[s] = request[s]
        \/ Busy(s) /\ request'[s] = [request[s] EXCEPT !.outdated = @ \cup {"status"}]
    BY <1>1 DEF SetStatus, Overruled
  <2> QED BY <2>1, <2>2 DEF RequestRecords, Busy
<1>4. \A s \in Requests : Draft(s) => Draft(s)' /\ Locks(s)' = Locks(s)
  BY <1>2, <1>3, SameDraft
<1>5. Drafts' /\ OneWriter'
  BY <1>3, <1>4 DEF Columns, Drafts, OneWriter
<1>6. ColumnsFollowDocuments' /\ DeliveredIsEarned'
  BY <1>2, SameTotals DEF Columns, ColumnsFollowDocuments, DeliveredIsEarned
<1> QED BY <1>5, <1>6 DEF Columns

LEMMA ColumnsStepwise == IInv /\ Columns /\ [Next]_vars => Columns'
<1> SUFFICES ASSUME IInv, Columns, [Next]_vars PROVE Columns'
  OBVIOUS
<1>1. ASSUME NEW r \in Requests, NEW d \in Dispatches, OpenDispatch(r, d) PROVE Columns'
  BY <1>1, OpenColumns DEF OpenDispatch, Documents
<1>2. ASSUME NEW r \in Requests, NEW v \in Deliveries, OpenDelivery(r, v) PROVE Columns'
  BY <1>2, OpenColumns DEF OpenDelivery, Documents
<1>3. ASSUME NEW r \in Requests, Rollback(r) PROVE Columns'
  <2>1. ~Busy(r)' /\ \A s \in Requests \ {r} : request'[s] = request[s]
    BY <1>3 DEF Rollback, Busy, IInv, TypeOK
  <2>2. UNCHANGED <<status, moved, recorded, raced>>
    BY <1>3 DEF Rollback
  <2> QED BY <2>1, <2>2, SlotColumns
<1>4. CASE UNCHANGED vars
  <2>1. Drafts' /\ OneWriter'
    BY <1>4, SameTotals DEF vars, Columns, Drafts, Draft, Known, OneWriter, Busy, Locks
  <2>2. ColumnsFollowDocuments' /\ DeliveredIsEarned'
    BY <1>4, SameTotals DEF vars, Columns, ColumnsFollowDocuments, DeliveredIsEarned
  <2> QED BY <2>1, <2>2 DEF Columns
<1> QED
  BY <1>1, <1>2, <1>3, <1>4, ReadColumns, WriteColumns, TallyColumns, CommitsKeepColumns,
     MovesKeepColumns DEF Next

-----------------------------------------------------------------------------
\* Rows are consistent, and what each transaction in flight has read fits the limits and the
\* statuses it will write under.
THEOREM Invariance == Spec => []IInv
BY Initially, Stepwise, PTL DEF Spec

\* Every row and transaction is well typed, for any documents and quantities.
THEOREM TypeCorrect == Spec => []TypeOK
<1>1. IInv => TypeOK
  BY DEF IInv
<1> QED BY <1>1, Invariance, PTL

\* No more is dispatched than was fulfilled, nor delivered than dispatched, although every
\* transaction writes what it computed from an unlocked read.
THEOREM LimitsHold == Spec => []WithinLimits
<1>1. IInv => WithinLimits
  BY DEF IInv
<1> QED BY <1>1, Invariance, PTL

\* A dispatch has deliveries exactly when it is PARTIALLY_DELIVERED or DELIVERED, races of a
\* delivery with a cancellation or a failure included.
THEOREM DeliveriesMeet == Spec => []DeliveriesTellStatus
<1>1. IInv => DeliveriesTellStatus
  BY DEF IInv
<1> QED BY <1>1, Invariance, PTL

\* What transactions in flight have read never exceeds the sums over the documents, and falls
\* short of them only if another transaction has written since.
THEOREM ColumnsKept == Spec => []Columns
BY Invariance, ColumnsInitially, ColumnsStepwise, PTL DEF Spec

\* quantityDispatched and quantityDelivered never exceed what the dispatches and deliveries add
\* up to, and are that sum unless one transaction overwrote another's increment.
THEOREM ColumnsAreTheSum == Spec => []ColumnsFollowDocuments
<1>1. Columns => ColumnsFollowDocuments
  BY DEF Columns
<1> QED BY <1>1, ColumnsKept, PTL

\* A dispatch is DELIVERED only if its deliveries account for all of it, whatever increments
\* were lost on the way.
THEOREM DeliveredEarned == Spec => []DeliveredIsEarned
<1>1. Columns => DeliveredIsEarned
  BY DEF Columns
<1> QED BY <1>1, ColumnsKept, PTL

\* Only a delivery that was under way takes a dispatch out of CANCELLED or FAILED.
THEOREM Finality == Spec => EndsAreFinal
<1> DEFINE Final == \A d \in Dispatches :
             status[d] \in Ends /\ <<d, "status">> \notin raced' => status'[d] = status[d]
<1>1. IInv /\ [Next]_vars => Final
  <2> SUFFICES ASSUME IInv, [Next]_vars, NEW d \in Dispatches,
                      status[d] \in Ends, <<d, "status">> \notin raced'
               PROVE  status'[d] = status[d]
    OBVIOUS
  <2>0. status \in [Dispatches -> Statuses]
    BY DEF IInv, TypeOK
  <2>1. ASSUME NEW r \in Requests, CommitDispatch(r) PROVE status'[d] = status[d]
    BY <2>0, <2>1 DEF CommitDispatch, KeyFree, IInv, RowsOK, Ends
  <2>2. ASSUME NEW r \in Requests, CommitDelivery(r) PROVE status'[d] = status[d]
    <3>1. RequestOK(r) /\ request[r].doc \in Deliveries
      BY <2>2 DEF CommitDelivery, IInv, RequestsOK, RequestOK
    <3>2. CASE DispatchOf[request[r].doc] = d
      <4>1. "status" \in request[r].outdated /\ Parent(request[r].doc) = d
        BY <3>1, <3>2, Shapes DEF RequestOK
      <4>2. <<d, "status">> \in raced'
        BY <4>1, <2>2 DEF CommitDelivery, Overtaken
      <4> QED BY <4>2
    <3>3. CASE DispatchOf[request[r].doc] # d
      BY <3>3, <2>0, <2>2 DEF CommitDelivery
    <3> QED BY <3>2, <3>3
  <2>3. ASSUME NEW e \in Dispatches, NEW from, NEW to, SetStatus(e, from, to), from \cap Ends = {}
        PROVE  status'[d] = status[d]
    BY <2>0, <2>3 DEF SetStatus
  <2>4. ASSUME NEW e \in Dispatches, Dispatch(e) \/ MarkInTransit(e) \/ Cancel(e) \/ Fail(e)
        PROVE  status'[d] = status[d]
    BY <2>3, <2>4 DEF Dispatch, MarkInTransit, Cancel, Fail, Cancellable, Ends
  <2> QED
    BY <2>1, <2>2, <2>4 DEF Next, vars, OpenDispatch, OpenDelivery, ReadLine, WriteLine, Tally, Rollback
<1> QED BY <1>1, Invariance, PTL DEF EndsAreFinal, Ends, Spec

=============================================================================
