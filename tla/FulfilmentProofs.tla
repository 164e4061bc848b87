--------------------------- MODULE FulfilmentProofs ---------------------------
(***************************************************************************)
(* Proofs about Fulfilment, for any orders, products, locations, stock and *)
(* number of overlapping requests.  The inductive invariant adds to the    *)
(* properties what the row locks give: a transaction that took stock keeps *)
(* enough of it in its rows until it commits, and shares them with nobody. *)
(* A second one, Books, relates stock, lines and statuses to the sums over *)
(* the fulfilments.                                                        *)
(***************************************************************************)
EXTENDS Fulfilment, FiniteSetTheorems, TLAPS

Started == {"PARTIALLY_FULFILLED", "FULFILLED"}

\* What request r knows of its order and of its stock.
Fits(r) ==
  LET b == request[r].batch
      o == OrderOf[b]
  IN  /\ request[r].stage = "idle" <=> b = None
      /\ b = None => request[r] = Idle
      /\ b # None => /\ order[o] # "DRAFT"
                     /\ order[o] = "CANCELLED" => request[r].stale
                     /\ ~request[r].stale =>
                          \A p \in Lines(b) : Quantity[b][p] <= Outstanding(o, p)
      /\ request[r].stage = "tallied" => request[r].status \in Started
      /\ HasStockLocks(r) => \A p \in Lines(b) : Quantity[b][p] <= stock[From[b]][p]

RequestsOK == \A r \in Requests : Fits(r)

\* No two transactions hold the same stock row.
LocksOK ==
  \A r, s \in Requests : r # s /\ HasStockLocks(r) /\ HasStockLocks(s) =>
    StockRows(request[r].batch) \cap StockRows(request[s].batch) = {}

JournalOK == journal = {b \in shipped : Lines(b) \cap Costed # {}}

Inv == TypeOK /\ CancelledShipsNothing /\ LinesBounded /\ JournalOK /\ RequestsOK /\ LocksOK

-----------------------------------------------------------------------------
(* The laws of sums *)

\* An element with n units has a finite number of them, namely n.
LEMMA UnitsOfOne ==
  ASSUME NEW x, NEW n \in Nat
  PROVE  IsFiniteSet({x} \X (1 .. n)) /\ Cardinality({x} \X (1 .. n)) = n
<1>1. IsFiniteSet(1 .. n) /\ Cardinality(1 .. n) = n
  <2>1. IsFiniteSet(1 .. n) /\ Cardinality(1 .. n) = IF 1 > n THEN 0 ELSE n - 1 + 1
    BY FS_Interval
  <2> QED BY <2>1
<1>2. IsFiniteSet({x}) /\ Cardinality({x}) = 1
  BY FS_Singleton
<1>3. /\ IsFiniteSet({x} \X (1 .. n))
      /\ Cardinality({x} \X (1 .. n)) = Cardinality({x}) * Cardinality(1 .. n)
  BY <1>1, <1>2, FS_Product
<1> QED BY <1>1, <1>2, <1>3

\* The sum of finitely many natural numbers is one.
LEMMA SumType ==
  ASSUME NEW S, IsFiniteSet(S), NEW f, \A x \in S : f[x] \in Nat
  PROVE  IsFiniteSet(Units(f, S)) /\ Sum(f, S) \in Nat
<1> DEFINE part == [x \in S |-> {x} \X (1 .. f[x])]
           parts == {{x} \X (1 .. f[x]) : x \in S}
<1>1. part \in Surjection(S, parts)
  BY DEF Surjection
<1>2. IsFiniteSet(parts)
  BY <1>1, FS_Surjection
<1>3. ASSUME NEW x \in S PROVE IsFiniteSet({x} \X (1 .. f[x]))
  BY UnitsOfOne
<1>4. IsFiniteSet(UNION parts)
  BY <1>2, <1>3, FS_UNION
<1> QED BY <1>4, FS_CardinalityType DEF Units, Sum

LEMMA SumEmpty == \A f : Sum(f, {}) = 0
BY FS_EmptySet DEF Sum, Units

\* One more element adds its term.
LEMMA SumAdd ==
  ASSUME NEW S, IsFiniteSet(S), NEW x, x \notin S, NEW f, \A y \in S \cup {x} : f[y] \in Nat
  PROVE  Sum(f, S \cup {x}) = Sum(f, S) + f[x]
<1> DEFINE one == {x} \X (1 .. f[x])
<1>1. Units(f, S \cup {x}) = Units(f, S) \cup one /\ Units(f, S) \cap one = {}
  BY DEF Units
<1>2. IsFiniteSet(one) /\ Cardinality(one) = f[x] /\ f[x] \in Nat
  BY UnitsOfOne
<1>3. IsFiniteSet(Units(f, S)) /\ Cardinality(Units(f, S)) \in Nat
  BY SumType DEF Sum
<1> HIDE DEF one
<1>4. Cardinality(Units(f, S) \cup one) =
        Cardinality(Units(f, S)) + Cardinality(one) - Cardinality(Units(f, S) \cap one)
  BY <1>2, <1>3, FS_Union
<1>5. Cardinality(Units(f, S) \cap one) = 0
  BY <1>1, FS_EmptySet
<1>6. Cardinality(Units(f, S) \cup one) = Cardinality(Units(f, S)) + f[x]
  BY <1>2, <1>3, <1>4, <1>5
<1> QED BY <1>1, <1>6 DEF Sum

\* A sum of sums, term by term.
LEMMA SumPlus ==
  ASSUME NEW S, IsFiniteSet(S), NEW f, NEW g, NEW h,
         \A x \in S : f[x] \in Nat /\ g[x] \in Nat /\ h[x] = f[x] + g[x]
  PROVE  Sum(h, S) = Sum(f, S) + Sum(g, S)
<1> DEFINE moved == UNION {{x} \X ((f[x] + 1) .. h[x]) : x \in S}
           shift == [u \in Units(g, S) |-> <<u[1], f[u[1]] + u[2]>>]
<1>1. /\ IsFiniteSet(Units(f, S)) /\ Sum(f, S) \in Nat
      /\ IsFiniteSet(Units(g, S)) /\ Sum(g, S) \in Nat
  BY SumType
<1>2. ASSUME NEW u \in Units(g, S)
      PROVE  u[1] \in S /\ u[2] \in 1 .. g[u[1]] /\ u = <<u[1], u[2]>> /\ u[2] \in Nat
  BY DEF Units
<1>3. ASSUME NEW u \in Units(g, S) PROVE shift[u] \in moved
  <2>1. f[u[1]] + u[2] \in (f[u[1]] + 1) .. h[u[1]]
    BY <1>2
  <2>2. <<u[1], f[u[1]] + u[2]>> \in {u[1]} \X ((f[u[1]] + 1) .. h[u[1]])
    BY <2>1
  <2> QED BY <2>2, <1>2
<1>4. ASSUME NEW v \in moved PROVE \E u \in Units(g, S) : shift[u] = v
  <2>1. PICK x \in S : v \in {x} \X ((f[x] + 1) .. h[x])
    OBVIOUS
  <2>2. PICK k \in (f[x] + 1) .. h[x] : v = <<x, k>>
    BY <2>1
  <2>3. k - f[x] \in 1 .. g[x] /\ f[x] + (k - f[x]) = k
    BY <2>2
  <2>4. <<x, k - f[x]>> \in Units(g, S)
    BY <2>3 DEF Units
  <2>5. shift[<<x, k - f[x]>>] = <<x, f[x] + (k - f[x])>>
    BY <2>4
  <2> QED BY <2>2, <2>3, <2>4, <2>5
<1>5. ASSUME NEW u \in Units(g, S), NEW v \in Units(g, S), shift[u] = shift[v] PROVE u = v
  <2>1. u[1] = v[1] /\ f[u[1]] + u[2] = f[v[1]] + v[2]
    BY <1>5
  <2>2. u[2] = v[2]
    BY <2>1, <1>2
  <2> QED BY <2>1, <2>2, <1>2
<1>6. shift \in Surjection(Units(g, S), moved) /\ shift \in Injection(Units(g, S), moved)
  <2>1. shift \in [Units(g, S) -> moved]
    BY <1>3
  <2> HIDE DEF shift, moved
  <2> QED BY <2>1, <1>4, <1>5 DEF Surjection, Injection, IsInjective
<1>7. Units(h, S) = Units(f, S) \cup moved /\ Units(f, S) \cap moved = {}
  <2>1. ASSUME NEW x \in S
        PROVE  /\ 1 .. h[x] = (1 .. f[x]) \cup ((f[x] + 1) .. h[x])
               /\ (1 .. f[x]) \cap ((f[x] + 1) .. h[x]) = {}
    OBVIOUS
  <2> QED BY <2>1 DEF Units
<1> HIDE DEF moved, shift
<1>8. IsFiniteSet(moved) /\ Cardinality(moved) = Cardinality(Units(g, S))
  BY <1>1, <1>6, FS_Surjection
<1>9. Cardinality(Units(f, S) \cup moved) =
        Cardinality(Units(f, S)) + Cardinality(moved) - Cardinality(Units(f, S) \cap moved)
  BY <1>1, <1>8, FS_Union
<1>10. Cardinality(Units(f, S) \cap moved) = 0
  BY <1>7, FS_EmptySet
<1> QED BY <1>1, <1>7, <1>8, <1>9, <1>10 DEF Sum

\* A sum is no smaller than one of its terms.
LEMMA SumTerm ==
  ASSUME NEW S, IsFiniteSet(S), NEW f, \A x \in S : f[x] \in Nat, NEW x \in S
  PROVE  f[x] <= Sum(f, S)
<1>1. {x} \X (1 .. f[x]) \in SUBSET Units(f, S)
  BY DEF Units
<1>2. Cardinality({x} \X (1 .. f[x])) = f[x]
  BY UnitsOfOne
<1>3. Cardinality({x} \X (1 .. f[x])) <= Cardinality(Units(f, S))
  BY <1>1, SumType, FS_Subset
<1> QED BY <1>2, <1>3 DEF Sum

\* The sum over a set that may have gained x.
LEMMA SumGains ==
  ASSUME NEW S, IsFiniteSet(S), NEW x, x \notin S, NEW T, T \ {x} = S,
         NEW f, \A y \in S \cup {x} : f[y] \in Nat
  PROVE  Sum(f, T) = Sum(f, S) + IF x \in T THEN f[x] ELSE 0
<1>1. CASE x \in T
  <2>1. T = S \cup {x}
    BY <1>1
  <2>2. Sum(f, S \cup {x}) = Sum(f, S) + f[x]
    BY SumAdd
  <2> QED BY <1>1, <2>1, <2>2
<1>2. CASE x \notin T
  <2>1. T = S /\ Sum(f, S) \in Nat
    BY <1>2, SumType
  <2> QED BY <1>2, <2>1
<1> QED BY <1>1, <1>2

\* Terms that are nowhere larger and whose sum is no smaller are the same.
LEMMA SumSqueeze ==
  ASSUME NEW S, IsFiniteSet(S), NEW f, NEW h,
         \A x \in S : f[x] \in Nat /\ h[x] \in Nat /\ f[x] <= h[x], Sum(f, S) >= Sum(h, S)
  PROVE  \A x \in S : f[x] = h[x]
<1>1. Units(f, S) \subseteq Units(h, S)
  BY DEF Units
<1>2. IsFiniteSet(Units(h, S)) /\ Sum(h, S) \in Nat /\ Sum(f, S) \in Nat
  BY SumType
<1>3. Sum(f, S) <= Sum(h, S)
  BY <1>1, <1>2, FS_Subset DEF Sum
<1>4. Units(f, S) = Units(h, S)
  BY <1>1, <1>2, <1>3, FS_Subset DEF Sum
<1> SUFFICES ASSUME NEW x \in S, f[x] < h[x] PROVE FALSE
  OBVIOUS
<1>5. <<x, h[x]>> \in Units(h, S)
  BY DEF Units
<1>6. <<x, h[x]>> \notin Units(f, S)
  BY DEF Units
<1> QED BY <1>4, <1>5, <1>6

-----------------------------------------------------------------------------
(* Operators *)

\* A request record is well typed, and Idle is one.
LEMMA RequestTyped ==
  /\ \A b \in Batches \cup {None}, stage \in Stages, status \in OrderStatuses, stale \in BOOLEAN :
       Request(b, stage, status, stale) \in RequestRecords
  /\ Idle \in RequestRecords
BY DEF Request, RequestRecords, Idle, Stages, OrderStatuses

\* Marking the requests of an order stale changes nothing else of them.
LEMMA StaleKeeps ==
  ASSUME NEW o \in Orders, TypeOK, NEW r \in Requests
  PROVE  /\ Stale(o)[r] \in RequestRecords
         /\ Stale(o)[r].batch = request[r].batch
         /\ Stale(o)[r].stage = request[r].stage
         /\ Stale(o)[r].status = request[r].status
         /\ request[r].stale => Stale(o)[r].stale
         /\ request[r].batch # None /\ OrderOf[request[r].batch] = o => Stale(o)[r].stale
         /\ request[r].batch = None => Stale(o)[r] = request[r]
<1>1. request[r] \in RequestRecords
  BY DEF TypeOK
<1>2. Stale(o)[r] = IF request[r].batch # None /\ OrderOf[request[r].batch] = o
                    THEN [request[r] EXCEPT !.stale = TRUE] ELSE request[r]
  BY DEF Stale
<1>. QED
  BY <1>1, <1>2 DEF RequestRecords

\* What a batch takes, it takes from its own rows.
LEMMA MovedOutside ==
  ASSUME NEW b \in Batches, NEW l \in Locations, NEW p \in Products,
         <<l, p>> \notin StockRows(b)
  PROVE  Moved(b, l, p) = 0
<1>1. Quantity[b][p] \in Nat /\ None \notin Locations /\ From[b] \in Locations
  BY FulfilmentAssumption
<1>2. CASE p \in Lines(b)
  BY <1>1, <1>2 DEF StockRows, Moved
<1>3. CASE p \notin Lines(b)
  <2>1. Quantity[b][p] = 0
    BY <1>1, <1>3 DEF Lines
  <2>. QED
    BY <2>1 DEF Moved
<1>. QED
  BY <1>2, <1>3

\* A batch moves whole units, and takes no more than its quantity.
LEMMA MovedBounded ==
  ASSUME NEW b \in Batches, NEW l \in Locations, NEW p \in Products
  PROVE  /\ Moved(b, l, p) \in Int
         /\ Moved(b, l, p) < 0 => l = From[b] /\ p \in Lines(b) /\ Moved(b, l, p) = 0 - Quantity[b][p]
<1>1. Quantity[b][p] \in Nat
  BY FulfilmentAssumption
<1>. QED
  BY <1>1 DEF Moved, Lines

-----------------------------------------------------------------------------
(* Types *)

\* Every step keeps the type invariant; that a commit leaves no negative stock is what
\* the transaction's locks preserved since it took its quantities.
LEMMA TypeOKInductive == Inv /\ [Next]_vars => TypeOK'
<1>. SUFFICES ASSUME Inv, [Next]_vars PROVE TypeOK'
  OBVIOUS
<1>a. /\ order \in [Orders -> OrderStatuses]
      /\ filled \in [Orders -> [Products -> Nat]]
      /\ stock \in [Locations -> [Products -> Nat]]
      /\ shipped \subseteq Batches /\ journal \subseteq Batches
      /\ request \in [Requests -> RequestRecords]
      /\ adjusted \in [Locations -> [Products -> Int]]
      /\ raced \subseteq Orders
  BY DEF Inv, TypeOK
<1>b. \A r \in Requests : request[r] \in RequestRecords
  BY <1>a
<1>c. OrderOf \in [Batches -> Orders]
  BY FulfilmentAssumption
<1>1. ASSUME NEW o \in Orders, Confirm(o)
      PROVE  TypeOK'
  BY <1>1, <1>a DEF Confirm, TypeOK, OrderStatuses
<1>2. ASSUME NEW o \in Orders, Cancel(o)
      PROVE  TypeOK'
  <2>1. Stale(o) \in [Requests -> RequestRecords]
    BY StaleKeeps DEF Stale, Inv
  <2>. QED
    BY <1>2, <1>a, <2>1 DEF Cancel, TypeOK, OrderStatuses
<1>3. ASSUME NEW r \in Requests, NEW b \in Batches, Check(r, b)
      PROVE  TypeOK'
  <2>1. Request(b, "checked", "DRAFT", FALSE) \in RequestRecords
    BY RequestTyped DEF Stages, OrderStatuses
  <2>. QED
    BY <1>3, <1>a, <2>1 DEF Check, TypeOK
<1>4. ASSUME NEW r \in Requests, Open(r) \/ Take(r) \/ Supply(r)
      PROVE  TypeOK'
  <2>1. PICK stage \in Stages : request' = [request EXCEPT ![r].stage = stage]
    BY <1>4 DEF Open, Take, Supply, Stages
  <2>2. [request[r] EXCEPT !.stage = stage] \in RequestRecords
    BY <1>b DEF RequestRecords
  <2>3. UNCHANGED <<order, filled, stock, shipped, journal, adjusted, raced>>
    BY <1>4 DEF Open, Take, Supply
  <2>. QED
    BY <1>a, <2>1, <2>2, <2>3 DEF TypeOK
<1>5. ASSUME NEW r \in Requests, Tally(r)
      PROVE  TypeOK'
  <2>. DEFINE status == StatusAfter(request[r].batch)
  <2>1. status \in OrderStatuses
    BY DEF StatusAfter, OrderStatuses
  <2>2. [request[r] EXCEPT !.stage = "tallied", !.status = status] \in RequestRecords
    BY <1>b, <2>1 DEF RequestRecords, Stages
  <2>. HIDE DEF status
  <2>3. request' = [request EXCEPT ![r] = [@ EXCEPT !.stage = "tallied", !.status = status]]
    BY <1>5 DEF Tally, status
  <2>. QED
    BY <1>5, <1>a, <2>2, <2>3 DEF Tally, TypeOK
<1>6. ASSUME NEW r \in Requests, Commit(r)
      PROVE  TypeOK'
  <2>. DEFINE b == request[r].batch
              o == OrderOf[b]
  <2>1. b \in Batches /\ request[r].status \in OrderStatuses /\ HasStockLocks(r) /\ o \in Orders
    BY <1>6, <1>b, <1>c DEF Commit, Inv, RequestsOK, Fits, RequestRecords, HasStockLocks
  <2>2. \A p \in Lines(b) : Quantity[b][p] <= stock[From[b]][p]
    BY <2>1 DEF Inv, RequestsOK, Fits
  <2>3. Quantity[b] \in [Products -> Nat]
    BY <2>1, FulfilmentAssumption
  <2>4. filled' \in [Orders -> [Products -> Nat]]
    <3>1. [p \in Products |-> filled[o][p] + Quantity[b][p]] \in [Products -> Nat]
      BY <1>a, <2>1, <2>3
    <3>. QED
      BY <1>6, <1>a, <3>1 DEF Commit
  <2>5. stock' \in [Locations -> [Products -> Nat]]
    <3>1. ASSUME NEW l \in Locations, NEW p \in Products
          PROVE  stock[l][p] + Moved(b, l, p) \in Nat
      <4>1. stock[l][p] \in Nat
        BY <1>a
      <4>2. CASE Moved(b, l, p) < 0
        <5>1. l = From[b] /\ p \in Lines(b) /\ Moved(b, l, p) = 0 - Quantity[b][p]
          BY <2>1, <4>2, MovedBounded
        <5>2. Quantity[b][p] <= stock[l][p] /\ Quantity[b][p] \in Nat
          BY <2>2, <2>3, <5>1
        <5>. QED
          BY <4>1, <5>1, <5>2
      <4>3. CASE ~(Moved(b, l, p) < 0)
        BY <2>1, <4>1, <4>3, MovedBounded
      <4>. QED
        BY <4>2, <4>3
    <3>. QED
      BY <1>6, <3>1 DEF Commit
  <2>6. [Stale(o) EXCEPT ![r] = Idle] \in [Requests -> RequestRecords]
    <3>1. Stale(o) \in [Requests -> RequestRecords]
      BY <2>1, StaleKeeps DEF Stale, Inv
    <3>. QED
      BY <3>1, RequestTyped
  <2>7. Posted(b) \subseteq Batches
    BY <2>1 DEF Posted
  <2>. QED
    BY <1>6, <1>a, <2>1, <2>4, <2>5, <2>6, <2>7 DEF Commit, TypeOK
<1>7. ASSUME NEW r \in Requests, Rollback(r)
      PROVE  TypeOK'
  BY <1>7, <1>a, RequestTyped DEF Rollback, TypeOK
<1>8. ASSUME NEW l \in Locations, NEW p \in Products, NEW delta \in {-1, 1}, Adjust(l, p, delta)
      PROVE  TypeOK'
  <2>1. stock[l][p] \in Nat /\ stock[l][p] + delta >= 0 /\ adjusted[l][p] + delta \in Int
    BY <1>8, <1>a DEF Adjust, NonNegative
  <2>2. [stock[l] EXCEPT ![p] = stock[l][p] + delta] \in [Products -> Nat]
    BY <1>a, <2>1
  <2>3. [adjusted[l] EXCEPT ![p] = adjusted[l][p] + delta] \in [Products -> Int]
    BY <1>a, <2>1
  <2>4. /\ stock' = [stock EXCEPT ![l] = [stock[l] EXCEPT ![p] = stock[l][p] + delta]]
        /\ adjusted' = [adjusted EXCEPT ![l] = [adjusted[l] EXCEPT ![p] = adjusted[l][p] + delta]]
    BY <1>8, <1>a DEF Adjust
  <2>. QED
    BY <1>8, <1>a, <2>2, <2>3, <2>4 DEF Adjust, TypeOK
<1>9. CASE UNCHANGED vars
  BY <1>9, <1>a DEF vars, TypeOK
<1>10. ASSUME NEW row \in Adjustable, NEW delta \in {-1, 1}, Adjust(row[1], row[2], delta)
       PROVE  TypeOK'
  <2>1. row[1] \in Locations /\ row[2] \in Products
    BY FulfilmentAssumption
  <2>. QED
    BY <1>8, <1>10, <2>1
<1>. QED
  BY <1>1, <1>2, <1>3, <1>4, <1>5, <1>6, <1>7, <1>9, <1>10 DEF Next

-----------------------------------------------------------------------------
(* Orders and the journal *)

\* Only a commit ships, and it leaves its order started and its entry posted.
LEMMA ShippedInductive == Inv /\ [Next]_vars => CancelledShipsNothing' /\ JournalOK'
<1>. SUFFICES ASSUME Inv, [Next]_vars PROVE CancelledShipsNothing' /\ JournalOK'
  OBVIOUS
<1>a. /\ order \in [Orders -> OrderStatuses] /\ shipped \subseteq Batches
      /\ CancelledShipsNothing /\ JournalOK
  BY DEF Inv, TypeOK
<1>1. ASSUME NEW o \in Orders, Confirm(o) \/ Cancel(o)
      PROVE  CancelledShipsNothing' /\ JournalOK'
  <2>1. /\ order[o] \notin Started /\ shipped' = shipped /\ journal' = journal
        /\ \E st \in {"CONFIRMED", "CANCELLED"} : order' = [order EXCEPT ![o] = st]
    BY <1>1 DEF Confirm, Cancel, Cancellable, Started
  <2>2. order'[o] \notin Started /\ \A x \in Orders : x # o => order'[x] = order[x]
    BY <1>a, <2>1 DEF Started
  <2>. QED
    BY <1>a, <2>1, <2>2 DEF CancelledShipsNothing, JournalOK, Started
<1>2. ASSUME NEW r \in Requests, Commit(r)
      PROVE  CancelledShipsNothing' /\ JournalOK'
  <2>. DEFINE b == request[r].batch
              o == OrderOf[b]
  <2>1. request[r] \in RequestRecords /\ Fits(r)
    BY DEF Inv, TypeOK, RequestsOK
  <2>2. b \in Batches /\ request[r].status \in Started
    BY <1>2, <2>1 DEF Commit, Fits, RequestRecords
  <2>3. o \in Orders
    BY <2>2, FulfilmentAssumption
  <2>4. /\ order' = [order EXCEPT ![o] = request[r].status]
        /\ shipped' = shipped \cup {b} /\ journal' = journal \cup Posted(b)
    BY <1>2 DEF Commit
  <2>. HIDE DEF b, o
  <2>5. JournalOK'
    BY <1>a, <2>4 DEF JournalOK, Posted
  <2>6. CancelledShipsNothing'
    <3>1. order'[o] \in Started /\ \A x \in Orders : x # o => order'[x] = order[x]
      BY <1>a, <2>2, <2>3, <2>4
    <3>2. \E x \in shipped' : OrderOf[x] = o
      BY <2>4 DEF o
    <3>3. \A x \in Orders : x # o =>
            ((\E y \in shipped' : OrderOf[y] = x) <=> (\E y \in shipped : OrderOf[y] = x))
      BY <2>4 DEF o
    <3>. QED
      BY <1>a, <3>1, <3>2, <3>3 DEF CancelledShipsNothing, Started
  <2>. QED
    BY <2>5, <2>6
<1>3. ASSUME UNCHANGED <<order, shipped, journal>>
      PROVE  CancelledShipsNothing' /\ JournalOK'
  BY <1>3, <1>a DEF CancelledShipsNothing, JournalOK
<1>. QED
  BY <1>1, <1>2, <1>3
  DEF Next, vars, Check, Open, Take, Supply, Tally, Rollback, Adjust

\* A commit fills beyond the order only with a stale request, and then the order has raced.
LEMMA LinesInductive == Inv /\ [Next]_vars => LinesBounded'
<1>. SUFFICES ASSUME Inv, [Next]_vars PROVE LinesBounded'
  OBVIOUS
<1>a. filled \in [Orders -> [Products -> Nat]] /\ LinesBounded
  BY DEF Inv, TypeOK
<1>1. ASSUME NEW r \in Requests, Commit(r)
      PROVE  LinesBounded'
  <2>. DEFINE b == request[r].batch
              o == OrderOf[b]
  <2>1. request[r] \in RequestRecords /\ Fits(r) /\ request[r].stage = "tallied"
    BY <1>1 DEF Inv, TypeOK, RequestsOK, Commit
  <2>2. b \in Batches /\ b # None
    BY <2>1, FulfilmentAssumption DEF Fits, RequestRecords
  <2>3. o \in Orders /\ Quantity[b] \in [Products -> Nat] /\ Ordered[o] \in [Products -> Nat]
    BY <2>2, FulfilmentAssumption
  <2>4. /\ \A p \in Products : filled'[o][p] = filled[o][p] + Quantity[b][p]
        /\ \A x \in Orders \ {o} : filled'[x] = filled[x]
    BY <1>1, <1>a, <2>3 DEF Commit
  <2>5. raced \subseteq raced' /\ (request[r].stale => o \in raced')
    BY <1>1 DEF Commit
  <2>6. ~request[r].stale => \A p \in Lines(b) : Quantity[b][p] <= Ordered[o][p] - filled[o][p]
    BY <2>1, <2>2 DEF Fits, Outstanding
  <2>7. \A p \in Products : p \notin Lines(b) => Quantity[b][p] = 0
    BY <2>3 DEF Lines
  <2>. HIDE DEF b, o
  <2>8. ASSUME NEW p \in Products, o \notin raced'
        PROVE  filled'[o][p] <= Ordered[o][p]
    <3>1. /\ filled[o][p] \in Nat /\ Quantity[b][p] \in Nat /\ Ordered[o][p] \in Nat
          /\ filled[o][p] <= Ordered[o][p] /\ filled'[o][p] = filled[o][p] + Quantity[b][p]
      BY <1>a, <2>3, <2>4, <2>5, <2>8 DEF LinesBounded
    <3>2. CASE p \in Lines(b)
      <4>1. Quantity[b][p] <= Ordered[o][p] - filled[o][p]
        BY <2>5, <2>6, <2>8, <3>2
      <4>. QED
        BY <3>1, <4>1
    <3>3. CASE p \notin Lines(b)
      <4>1. Quantity[b][p] = 0
        BY <2>7, <3>3
      <4>. QED
        BY <3>1, <4>1
    <3>. QED
      BY <3>2, <3>3
  <2>. QED
    BY <1>a, <2>4, <2>5, <2>8 DEF LinesBounded
<1>2. ASSUME UNCHANGED <<filled, raced>>
      PROVE  LinesBounded'
  BY <1>2, <1>a DEF LinesBounded
<1>. QED
  BY <1>1, <1>2
  DEF Next, vars, Confirm, Cancel, Check, Open, Take, Supply, Tally, Rollback, Adjust

-----------------------------------------------------------------------------
(* Requests and locks *)

\* A request that did not move stays as it was while its order does not go back to DRAFT
\* or is cancelled behind it, and its rows keep what they held.
LEMMA FitsKept ==
  ASSUME NEW r \in Requests, Fits(r),
         request'[r].batch = request[r].batch, request'[r].stage = request[r].stage,
         request'[r].status = request[r].status, request[r].stale => request'[r].stale,
         request[r].batch = None => request'[r] = request[r],
         request[r].batch # None =>
           /\ order'[OrderOf[request[r].batch]] = "DRAFT" => order[OrderOf[request[r].batch]] = "DRAFT"
           /\ order'[OrderOf[request[r].batch]] = "CANCELLED" =>
                order[OrderOf[request[r].batch]] = "CANCELLED" \/ request'[r].stale
           /\ filled'[OrderOf[request[r].batch]] = filled[OrderOf[request[r].batch]]
                \/ request'[r].stale,
         HasStockLocks(r) => \A p \in Lines(request[r].batch) :
           stock'[From[request[r].batch]][p] = stock[From[request[r].batch]][p]
  PROVE  Fits(r)'
BY DEF Fits, HasStockLocks, Outstanding

\* A transaction with stock locks has its rows to itself.
LEMMA OwnRows ==
  ASSUME Inv, NEW r \in Requests, HasStockLocks(r), NEW p \in Lines(request[r].batch)
  PROVE  /\ request[r].batch \in Batches /\ From[request[r].batch] \in Locations /\ p \in Products
         /\ <<From[request[r].batch], p>> \in StockRows(request[r].batch)
<1>1. request[r] \in RequestRecords /\ Fits(r)
  BY DEF Inv, TypeOK, RequestsOK
<1>2. request[r].batch \in Batches
  BY <1>1 DEF HasStockLocks, Fits, RequestRecords
<1>. QED
  BY <1>2, FulfilmentAssumption DEF Lines, StockRows

\* Every step keeps what a request knows of its order and its stock.
LEMMA RequestsInductive == Inv /\ [Next]_vars => RequestsOK'
<1>. SUFFICES ASSUME Inv, [Next]_vars, NEW r \in Requests PROVE Fits(r)'
  BY DEF RequestsOK
<1>a. /\ order \in [Orders -> OrderStatuses] /\ stock \in [Locations -> [Products -> Nat]]
      /\ request \in [Requests -> RequestRecords] /\ Fits(r) /\ None \notin Batches
      /\ OrderOf \in [Batches -> Orders] /\ TypeOK
  BY FulfilmentAssumption DEF Inv, TypeOK, RequestsOK
<1>b. request[r].batch # None => request[r].batch \in Batches /\ OrderOf[request[r].batch] \in Orders
  BY <1>a DEF RequestRecords
<1>1. ASSUME NEW o \in Orders, Confirm(o)
      PROVE  Fits(r)'
  BY <1>1, <1>a, <1>b, FitsKept DEF Confirm
<1>2. ASSUME NEW o \in Orders, Cancel(o)
      PROVE  Fits(r)'
  BY <1>2, <1>a, <1>b, FitsKept, StaleKeeps DEF Cancel
<1>3. ASSUME NEW s \in Requests, NEW b \in Batches, Check(s, b)
      PROVE  Fits(r)'
  <2>1. CASE r = s
    <3>1. request'[r] = Request(b, "checked", "DRAFT", FALSE) /\ order' = order
      BY <1>3, <1>a, <2>1 DEF Check
    <3>2. order[OrderOf[b]] \in Fulfillable /\ filled' = filled
      BY <1>3 DEF Check
    <3>3. \A p \in Lines(b) : Quantity[b][p] <= Outstanding(OrderOf[b], p)
      BY <1>3 DEF Check
    <3>. QED
      BY <3>1, <3>2, <3>3, <1>a DEF Fits, Request, HasStockLocks, Fulfillable, Outstanding
  <2>2. CASE r # s
    BY <1>3, <1>a, <1>b, <2>2, FitsKept DEF Check
  <2>. QED
    BY <2>1, <2>2
<1>4. ASSUME NEW s \in Requests, Open(s) \/ Take(s) \/ Supply(s)
      PROVE  Fits(r)'
  <2>1. UNCHANGED <<order, filled, stock>>
    BY <1>4 DEF Open, Take, Supply
  <2>2. PICK stage \in {"open", "taken", "supplied"} :
          /\ request' = [request EXCEPT ![s].stage = stage]
          /\ request[s].stage # "idle"
          /\ stage = "taken" =>
               \A p \in Lines(request[s].batch) :
                 Quantity[request[s].batch][p] <= stock[From[request[s].batch]][p]
          /\ stage = "supplied" => request[s].stage = "taken"
    BY <1>4 DEF Open, Take, Supply
  <2>3. CASE r = s
    <3>1. request'[r] = [request[r] EXCEPT !.stage = stage] /\ request[r] \in RequestRecords
      BY <1>a, <2>2, <2>3
    <3>2. /\ request'[r].batch = request[r].batch /\ request'[r].stage = stage
          /\ request'[r].stale = request[r].stale
      BY <3>1 DEF RequestRecords
    <3>3. request[r].batch # None
      BY <1>a, <2>2, <2>3 DEF Fits
    <3>. QED
      BY <1>a, <2>1, <2>2, <2>3, <3>2, <3>3 DEF Fits, HasStockLocks, Outstanding
  <2>4. CASE r # s
    BY <1>a, <1>b, <2>1, <2>2, <2>4, FitsKept
  <2>. QED
    BY <2>3, <2>4
<1>5. ASSUME NEW s \in Requests, Tally(s)
      PROVE  Fits(r)'
  <2>1. CASE r = s
    <3>. DEFINE status == StatusAfter(request[r].batch)
    <3>1. status \in Started
      BY DEF StatusAfter, Started
    <3>. HIDE DEF status
    <3>2. /\ request'[r] = [request[r] EXCEPT !.stage = "tallied", !.status = status]
          /\ request[r] \in RequestRecords /\ UNCHANGED <<order, filled, stock>>
          /\ request[r].stage = "supplied"
      BY <1>5, <1>a, <2>1 DEF Tally, status
    <3>3. /\ request'[r].batch = request[r].batch /\ request'[r].stage = "tallied"
          /\ request'[r].status = status /\ request'[r].stale = request[r].stale
      BY <3>2 DEF RequestRecords
    <3>. QED
      BY <1>a, <3>1, <3>2, <3>3 DEF Fits, HasStockLocks, Outstanding
  <2>2. CASE r # s
    BY <1>5, <1>a, <1>b, <2>2, FitsKept DEF Tally
  <2>. QED
    BY <2>1, <2>2
<1>6. ASSUME NEW s \in Requests, Commit(s)
      PROVE  Fits(r)'
  <2>. DEFINE b == request[s].batch
              o == OrderOf[b]
  <2>1. request[s] \in RequestRecords /\ Fits(s) /\ HasStockLocks(s)
    BY <1>6 DEF Inv, TypeOK, RequestsOK, Commit, HasStockLocks
  <2>2. b \in Batches /\ request[s].status \in Started
    BY <1>6, <2>1 DEF Commit, Fits, RequestRecords
  <2>3. o \in Orders
    BY <2>2, FulfilmentAssumption
  <2>4. CASE r = s
    <3>1. request'[r] = Idle
      BY <1>6, <2>4 DEF Commit, Stale
    <3>. QED
      BY <3>1 DEF Fits, Idle, Request, HasStockLocks
  <2>5. CASE r # s
    <3>1. request'[r] = Stale(o)[r]
      BY <1>6, <2>5 DEF Commit, Stale
    <3>2. /\ order'[o] \in Started /\ \A x \in Orders : x # o => order'[x] = order[x]
      BY <1>6, <1>a, <2>2, <2>3 DEF Commit
    <3>2a. \A x \in Orders : x # o => filled'[x] = filled[x]
      BY <1>6, <1>a, <2>3 DEF Commit, TypeOK
    <3>3. ASSUME HasStockLocks(r), NEW p \in Lines(request[r].batch)
          PROVE  stock'[From[request[r].batch]][p] = stock[From[request[r].batch]][p]
      <4>. DEFINE l == From[request[r].batch]
      <4>1. l \in Locations /\ p \in Products /\ <<l, p>> \in StockRows(request[r].batch)
        BY <3>3, OwnRows
      <4>2. <<l, p>> \notin StockRows(b)
        BY <2>1, <2>5, <3>3, <4>1 DEF Inv, LocksOK
      <4>. HIDE DEF l
      <4>3. stock'[l][p] = stock[l][p] + Moved(b, l, p) /\ Moved(b, l, p) = 0 /\ stock[l][p] \in Nat
        BY <1>6, <1>a, <2>2, <4>1, <4>2, MovedOutside DEF Commit
      <4>. QED
        BY <4>3 DEF l
    <3>4. /\ request'[r].batch = request[r].batch /\ request'[r].stage = request[r].stage
          /\ request'[r].status = request[r].status
          /\ request[r].stale => request'[r].stale
          /\ request[r].batch = None => request'[r] = request[r]
      BY <1>a, <2>3, <3>1, StaleKeeps
    <3>5. request[r].batch # None =>
            /\ order'[OrderOf[request[r].batch]] = "DRAFT" => order[OrderOf[request[r].batch]] = "DRAFT"
            /\ order'[OrderOf[request[r].batch]] = "CANCELLED" =>
                 order[OrderOf[request[r].batch]] = "CANCELLED"
            /\ filled'[OrderOf[request[r].batch]] = filled[OrderOf[request[r].batch]]
                 \/ request'[r].stale
      BY <1>a, <1>b, <2>3, <3>1, <3>2, <3>2a, StaleKeeps DEF Started
    <3>6. HasStockLocks(r) => \A p \in Lines(request[r].batch) :
            stock'[From[request[r].batch]][p] = stock[From[request[r].batch]][p]
      BY <3>3
    <3>. HIDE DEF b, o
    <3>. QED
      BY <1>a, <3>4, <3>5, <3>6, FitsKept
  <2>. QED
    BY <2>4, <2>5
<1>7. ASSUME NEW s \in Requests, Rollback(s)
      PROVE  Fits(r)'
  <2>1. CASE r = s
    <3>1. request'[r] = Idle
      BY <1>7, <1>a, <2>1 DEF Rollback
    <3>. QED
      BY <3>1 DEF Fits, Idle, Request, HasStockLocks
  <2>2. CASE r # s
    BY <1>7, <1>a, <1>b, <2>2, FitsKept DEF Rollback
  <2>. QED
    BY <2>1, <2>2
<1>8. ASSUME NEW l \in Locations, NEW p \in Products, NEW delta \in {-1, 1}, Adjust(l, p, delta)
      PROVE  Fits(r)'
  <2>1. ASSUME HasStockLocks(r), NEW q \in Lines(request[r].batch)
        PROVE  stock'[From[request[r].batch]][q] = stock[From[request[r].batch]][q]
    <3>1. /\ From[request[r].batch] \in Locations /\ q \in Products
          /\ <<From[request[r].batch], q>> \in StockRows(request[r].batch)
      BY <2>1, OwnRows
    <3>2. ~(From[request[r].batch] = l /\ q = p)
      BY <1>8, <2>1, <3>1 DEF Adjust, StockLocked
    <3>. QED
      BY <1>8, <1>a, <3>1, <3>2 DEF Adjust
  <2>2. request' = request /\ order' = order /\ filled' = filled
    BY <1>8 DEF Adjust
  <2>. QED
    BY <1>a, <1>b, <2>1, <2>2, FitsKept
<1>9. CASE UNCHANGED vars
  BY <1>9, <1>a, <1>b, FitsKept DEF vars
<1>10. ASSUME NEW row \in Adjustable, NEW delta \in {-1, 1}, Adjust(row[1], row[2], delta)
       PROVE  Fits(r)'
  <2>1. row[1] \in Locations /\ row[2] \in Products
    BY FulfilmentAssumption
  <2>. QED
    BY <1>8, <1>10, <2>1
<1>. QED
  BY <1>1, <1>2, <1>3, <1>4, <1>5, <1>6, <1>7, <1>9, <1>10 DEF Next

\* Taking stock waits for the locks of others, and nothing else adds a lock.
LEMMA LocksInductive == Inv /\ [Next]_vars => LocksOK'
<1>. SUFFICES ASSUME Inv, [Next]_vars PROVE LocksOK'
  OBVIOUS
<1>a. request \in [Requests -> RequestRecords] /\ TypeOK /\ LocksOK
  BY DEF Inv, TypeOK
<1>1. ASSUME NEW t \in Requests, Take(t)
      PROVE  LocksOK'
  <2>1. /\ \A r \in Requests \ {t} : request'[r] = request[r]
        /\ request'[t] = [request[t] EXCEPT !.stage = "taken"] /\ request[t] \in RequestRecords
    BY <1>1, <1>a DEF Take
  <2>2. request'[t].batch = request[t].batch
    BY <2>1 DEF RequestRecords
  <2>3. \A r \in Requests \ {t} : HasStockLocks(r) =>
          StockRows(request[r].batch) \cap StockRows(request[t].batch) = {}
    BY <1>1 DEF Take, StockLocked
  <2>. QED
    BY <1>a, <2>1, <2>2, <2>3 DEF LocksOK, HasStockLocks
<1>2. ASSUME \A r \in Requests : HasStockLocks(r)' =>
               HasStockLocks(r) /\ request'[r].batch = request[r].batch
      PROVE  LocksOK'
  BY <1>2, <1>a DEF LocksOK
<1>3. ASSUME NEW o \in Orders, Confirm(o) \/ Cancel(o), NEW r \in Requests
      PROVE  HasStockLocks(r)' => HasStockLocks(r) /\ request'[r].batch = request[r].batch
  <2>1. request' = request \/ request' = Stale(o)
    BY <1>3 DEF Confirm, Cancel
  <2>. QED
    BY <2>1, <1>a, StaleKeeps DEF HasStockLocks
<1>4. ASSUME NEW s \in Requests, NEW b \in Batches, Check(s, b), NEW r \in Requests
      PROVE  HasStockLocks(r)' => HasStockLocks(r) /\ request'[r].batch = request[r].batch
  BY <1>4, <1>a DEF Check, HasStockLocks, Request
<1>5. ASSUME NEW s \in Requests, Open(s) \/ Supply(s) \/ Tally(s), NEW r \in Requests
      PROVE  HasStockLocks(r)' => HasStockLocks(r) /\ request'[r].batch = request[r].batch
  <2>1. CASE r = s
    <3>1. request'[r].batch = request[r].batch
      BY <1>5, <1>a, <2>1 DEF Open, Supply, Tally, RequestRecords
    <3>2. request'[r].stage = "open" \/ HasStockLocks(r)
      BY <1>5, <1>a, <2>1 DEF Open, Supply, Tally, RequestRecords, HasStockLocks
    <3>. QED
      BY <3>1, <3>2 DEF HasStockLocks
  <2>2. CASE r # s
    BY <1>5, <1>a, <2>2 DEF Open, Supply, Tally, HasStockLocks
  <2>. QED
    BY <2>1, <2>2
<1>6. ASSUME NEW s \in Requests, Commit(s), NEW r \in Requests
      PROVE  HasStockLocks(r)' => HasStockLocks(r) /\ request'[r].batch = request[r].batch
  <2>1. request[s].batch \in Batches
    <3>1. request[s] \in RequestRecords /\ Fits(s) /\ request[s].stage = "tallied"
      BY <1>6 DEF Inv, TypeOK, RequestsOK, Commit
    <3>. QED
      BY <3>1 DEF Fits, RequestRecords
  <2>2. OrderOf[request[s].batch] \in Orders
    BY <2>1, FulfilmentAssumption
  <2>3. request'[r] = IF r = s THEN Idle ELSE Stale(OrderOf[request[s].batch])[r]
    BY <1>6 DEF Commit, Stale
  <2>. QED
    BY <2>2, <2>3, <1>a, StaleKeeps DEF HasStockLocks, Idle, Request
<1>7. ASSUME NEW s \in Requests, Rollback(s), NEW r \in Requests
      PROVE  HasStockLocks(r)' => HasStockLocks(r) /\ request'[r].batch = request[r].batch
  BY <1>7, <1>a DEF Rollback, HasStockLocks, Idle, Request
<1>8. ASSUME UNCHANGED request, NEW r \in Requests
      PROVE  HasStockLocks(r)' => HasStockLocks(r) /\ request'[r].batch = request[r].batch
  BY <1>8 DEF HasStockLocks
<1>. QED
  BY <1>1, <1>2, <1>3, <1>4, <1>5, <1>6, <1>7, <1>8 DEF Next, Adjust, vars

\* The initial state satisfies the invariant: no order has shipped, no request runs.
LEMMA InitImpliesInv == Init => Inv
<1>. SUFFICES ASSUME Init PROVE Inv
  OBVIOUS
<1>1. TypeOK
  BY FulfilmentAssumption, RequestTyped DEF Init, TypeOK, OrderStatuses
<1>2. CancelledShipsNothing /\ JournalOK /\ LinesBounded
  BY FulfilmentAssumption DEF Init, CancelledShipsNothing, JournalOK, LinesBounded
<1>3. RequestsOK /\ LocksOK
  BY FulfilmentAssumption
  DEF Init, RequestsOK, LocksOK, Fits, HasStockLocks, Idle, Request
<1>. QED
  BY <1>1, <1>2, <1>3 DEF Inv

-----------------------------------------------------------------------------
(* What the fulfilments add up to *)

\* What a request knows once it has inserted its fulfilment: the batch is not shipped yet,
\* FULFILLED will be earned by then, and its status is exact while its checks are true.
Progress(r) ==
  LET b == request[r].batch
      o == OrderOf[b]
  IN  /\ HasLineLocks(r) => b \notin shipped
      /\ request[r].stage = "tallied" =>
           /\ request[r].status = "FULFILLED" => TotalFilled(o) + TotalShipped(b) >= TotalOrdered(o)
           /\ ~request[r].stale => request[r].status = StatusAfter(b)

\* No two transactions increment the same line.
LineLocksOK ==
  \A r, s \in Requests : r # s /\ HasLineLocks(r) /\ HasLineLocks(s) =>
    \/ OrderOf[request[r].batch] # OrderOf[request[s].batch]
    \/ Lines(request[r].batch) \cap Lines(request[s].batch) = {}

Books ==
  /\ StockAccounted /\ StatusTellsProgress /\ LineLocksOK
  /\ \A r \in Requests : Progress(r)

\* The totals of an order and of a batch are natural numbers, and neither is zero.
LEMMA Totals ==
  ASSUME TypeOK
  PROVE  /\ \A o \in Orders : /\ TotalFilled(o) \in Nat /\ TotalOrdered(o) \in Nat
                              /\ TotalOrdered(o) > 0
         /\ \A b \in Batches : TotalShipped(b) \in Nat /\ TotalShipped(b) > 0
<1>1. ASSUME NEW o \in Orders
      PROVE  TotalFilled(o) \in Nat /\ TotalOrdered(o) \in Nat /\ TotalOrdered(o) > 0
  <2>1. \A p \in Products : filled[o][p] \in Nat /\ Ordered[o][p] \in Nat
    BY FulfilmentAssumption DEF TypeOK
  <2>2. Sum(filled[o], Products) \in Nat /\ Sum(Ordered[o], Products) \in Nat
    BY <2>1, SumType, FulfilmentAssumption
  <2>3. PICK p \in Products : Ordered[o][p] > 0
    BY FulfilmentAssumption
  <2>4. Ordered[o][p] <= Sum(Ordered[o], Products)
    BY <2>1, SumTerm, FulfilmentAssumption
  <2> QED BY <2>1, <2>2, <2>3, <2>4 DEF TotalFilled, TotalOrdered
<1>2. ASSUME NEW b \in Batches
      PROVE  TotalShipped(b) \in Nat /\ TotalShipped(b) > 0
  <2>1. \A p \in Products : Quantity[b][p] \in Nat
    BY FulfilmentAssumption
  <2>2. Sum(Quantity[b], Products) \in Nat
    BY <2>1, SumType, FulfilmentAssumption
  <2>3. PICK p \in Products : Quantity[b][p] > 0
    BY FulfilmentAssumption
  <2>4. Quantity[b][p] <= Sum(Quantity[b], Products)
    BY <2>1, SumTerm, FulfilmentAssumption
  <2> QED BY <2>1, <2>2, <2>3, <2>4 DEF TotalShipped
<1> QED BY <1>1, <1>2

\* A line is filled as ordered, on every line, exactly when the totals agree, as long as no
\* line is filled beyond its order.
LEMMA FilledWhenTotal ==
  ASSUME NEW f \in [Products -> Nat], NEW o \in Orders, \A p \in Products : f[p] <= Ordered[o][p]
  PROVE  f = Ordered[o] <=> Sum(f, Products) >= TotalOrdered(o)
<1>1. Ordered[o] \in [Products -> Nat] /\ IsFiniteSet(Products)
  BY FulfilmentAssumption
<1>2. Sum(f, Products) \in Nat
  BY <1>1, SumType
<1>3. ASSUME Sum(f, Products) >= Sum(Ordered[o], Products) PROVE f = Ordered[o]
  <2>1. \A p \in Products : f[p] \in Nat /\ Ordered[o][p] \in Nat /\ f[p] <= Ordered[o][p]
    BY <1>1
  <2>2. \A p \in Products : f[p] = Ordered[o][p]
    BY <2>1, <1>1, <1>3, SumSqueeze
  <2> QED BY <2>2, <1>1
<1> QED BY <1>2, <1>3 DEF TotalOrdered

\* What a set of batches ships once batch b has joined, if it does.
LEMMA ShippedStep ==
  ASSUME NEW b \in Batches, NEW p \in Products, NEW S \in SUBSET Batches, NEW T,
         b \notin S, T \ {b} = S
  PROVE  /\ ShippedIn(S, p) \in Nat
         /\ ShippedIn(T, p) = ShippedIn(S, p) + IF b \in T THEN Quantity[b][p] ELSE 0
<1> DEFINE f == [x \in Batches |-> Quantity[x][p]]
<1>1. IsFiniteSet(S)
  BY FulfilmentAssumption, FS_Subset
<1>2. \A y \in S \cup {b} : f[y] \in Nat
  BY FulfilmentAssumption
<1>3. f[b] = Quantity[b][p]
  OBVIOUS
<1> HIDE DEF f
<1>4. Sum(f, S) \in Nat
  BY <1>1, <1>2, SumType
<1>5. Sum(f, T) = Sum(f, S) + IF b \in T THEN f[b] ELSE 0
  BY <1>1, <1>2, SumGains
<1> QED BY <1>3, <1>4, <1>5 DEF ShippedIn, f

\* What a commit does, in terms of the batch it ships.
LEMMA CommitShips ==
  ASSUME Inv, Books, NEW r \in Requests, Commit(r)
  PROVE  \E b \in Batches : \E o \in Orders :
           /\ b = request[r].batch /\ o = OrderOf[b] /\ b \notin shipped /\ shipped' = shipped \cup {b}
           /\ request[r].status \in Started /\ order' = [order EXCEPT ![o] = request[r].status]
           /\ filled' = [filled EXCEPT ![o] = [p \in Products |-> filled[o][p] + Quantity[b][p]]]
           /\ stock' = [l \in Locations |-> [p \in Products |-> stock[l][p] + Moved(b, l, p)]]
           /\ adjusted' = adjusted
           /\ raced' = IF request[r].stale THEN raced \cup {o} ELSE raced
           /\ request' = [Stale(o) EXCEPT ![r] = Idle]
<1> DEFINE b == request[r].batch
           o == OrderOf[b]
<1>1. request[r] \in RequestRecords /\ Fits(r) /\ Progress(r) /\ request[r].stage = "tallied"
  BY DEF Inv, TypeOK, RequestsOK, Books, Commit
<1>2. b \in Batches /\ request[r].status \in Started /\ b \notin shipped
  BY <1>1 DEF Fits, RequestRecords, Progress, HasLineLocks
<1>3. o \in Orders
  BY <1>2, FulfilmentAssumption
<1>4. filled' = [filled EXCEPT ![o] = [p \in Products |-> filled[o][p] + Quantity[b][p]]]
  BY <1>3 DEF Commit, Inv, TypeOK
<1> QED BY <1>2, <1>3, <1>4 DEF Commit

\* It adds the batch to the total of its order.
LEMMA TotalsStep ==
  ASSUME TypeOK, NEW b \in Batches, NEW o \in Orders, NEW x \in Orders,
         filled' = [filled EXCEPT ![o] = [p \in Products |-> filled[o][p] + Quantity[b][p]]]
  PROVE  TotalFilled(x)' = TotalFilled(x) + IF x = o THEN TotalShipped(b) ELSE 0
<1> DEFINE f == filled[o]
           g == Quantity[b]
           h == [p \in Products |-> f[p] + g[p]]
<1>1. \A p \in Products : f[p] \in Nat /\ g[p] \in Nat /\ h[p] = f[p] + g[p]
  BY FulfilmentAssumption DEF TypeOK
<1>2. filled'[x] = IF x = o THEN h ELSE filled[x]
  BY DEF TypeOK
<1>3. TotalFilled(x) \in Nat
  BY Totals
<1>4. CASE x = o
  <2> HIDE DEF f, g, h
  <2>1. Sum(h, Products) = Sum(f, Products) + Sum(g, Products)
    BY <1>1, SumPlus, FulfilmentAssumption
  <2> QED BY <1>2, <1>4, <2>1 DEF TotalFilled, TotalShipped, f, g
<1>5. CASE x # o
  BY <1>2, <1>3, <1>5 DEF TotalFilled
<1> QED BY <1>4, <1>5

\* Stock rows and filled quantities follow the batch that is shipped.
LEMMA CommitKeepsStock ==
  ASSUME Inv, Books, NEW r \in Requests, Commit(r)
  PROVE  StockAccounted'
<1>1. PICK b \in Batches, o \in Orders :
        /\ b = request[r].batch /\ o = OrderOf[b] /\ b \notin shipped /\ shipped' = shipped \cup {b}
        /\ filled' = [filled EXCEPT ![o] = [p \in Products |-> filled[o][p] + Quantity[b][p]]]
        /\ stock' = [l \in Locations |-> [p \in Products |-> stock[l][p] + Moved(b, l, p)]]
        /\ adjusted' = adjusted
  BY CommitShips
<1>2. shipped \in SUBSET Batches /\ StockAccounted
  BY DEF Inv, TypeOK, Books
<1>3. ASSUME NEW p \in Products, NEW l \in Locations
      PROVE  stock'[l][p] = Opening[l][p] + adjusted'[l][p]
                              + ShippedIn({x \in shipped' : Destination(x) = l}, p)
                              - ShippedIn({x \in shipped' : From[x] = l}, p)
  <2> DEFINE in == {x \in shipped : Destination(x) = l}
             newIn == {x \in shipped' : Destination(x) = l}
             out == {x \in shipped : From[x] = l}
             newOut == {x \in shipped' : From[x] = l}
  <2>1. /\ in \in SUBSET Batches /\ b \notin in /\ newIn \ {b} = in
        /\ out \in SUBSET Batches /\ b \notin out /\ newOut \ {b} = out
        /\ b \in newIn <=> Destination(b) = l
        /\ b \in newOut <=> From[b] = l
    BY <1>1, <1>2
  <2>2. stock[l][p] = Opening[l][p] + adjusted[l][p] + ShippedIn(in, p) - ShippedIn(out, p)
    BY <1>2 DEF StockAccounted
  <2> HIDE DEF in, newIn, out, newOut
  <2>3. /\ ShippedIn(in, p) \in Nat
        /\ ShippedIn(newIn, p) = ShippedIn(in, p) + IF b \in newIn THEN Quantity[b][p] ELSE 0
    BY <2>1, ShippedStep
  <2>4. /\ ShippedIn(out, p) \in Nat
        /\ ShippedIn(newOut, p) = ShippedIn(out, p) + IF b \in newOut THEN Quantity[b][p] ELSE 0
    BY <2>1, ShippedStep
  <2>5. stock'[l][p] = stock[l][p] + Moved(b, l, p) /\ adjusted'[l][p] = adjusted[l][p]
    BY <1>1
  <2>6. ~(Destination(b) = l /\ From[b] = l)
    BY FulfilmentAssumption DEF Destination
  <2>7. Moved(b, l, p) = (IF b \in newIn THEN Quantity[b][p] ELSE 0)
                           - (IF b \in newOut THEN Quantity[b][p] ELSE 0)
    <3>1. Quantity[b][p] \in Nat
      BY FulfilmentAssumption
    <3>2. CASE From[b] = l
      BY <3>1, <3>2, <2>1, <2>6 DEF Moved
    <3>3. CASE From[b] # l /\ Destination(b) = l
      BY <3>1, <3>3, <2>1 DEF Moved
    <3>4. CASE From[b] # l /\ Destination(b) # l
      BY <3>1, <3>4, <2>1 DEF Moved
    <3> QED BY <3>2, <3>3, <3>4
  <2>8. /\ Opening[l][p] \in Nat /\ adjusted[l][p] \in Int /\ Quantity[b][p] \in Nat
    BY FulfilmentAssumption DEF Inv, TypeOK
  <2> DEFINE plus == IF b \in newIn THEN Quantity[b][p] ELSE 0
             minus == IF b \in newOut THEN Quantity[b][p] ELSE 0
  <2>9. plus \in Nat /\ minus \in Nat
    BY <2>8
  <2> HIDE DEF plus, minus
  <2>10. stock'[l][p] = Opening[l][p] + adjusted'[l][p] + ShippedIn(newIn, p) - ShippedIn(newOut, p)
    <3>1. ShippedIn(newIn, p) = ShippedIn(in, p) + plus /\ ShippedIn(newOut, p) = ShippedIn(out, p) + minus
      BY <2>3, <2>4 DEF plus, minus
    <3>2. Moved(b, l, p) = plus - minus
      BY <2>7 DEF plus, minus
    <3> HIDE DEF plus, minus
    <3> QED BY <2>2, <2>3, <2>4, <2>5, <2>8, <2>9, <3>1, <3>2
  <2> QED BY <2>10 DEF newIn, newOut
<1>4. ASSUME NEW p \in Products, NEW k \in Orders
      PROVE  filled'[k][p] = ShippedIn({x \in shipped' : OrderOf[x] = k}, p)
  <2> DEFINE of == {x \in shipped : OrderOf[x] = k}
             newOf == {x \in shipped' : OrderOf[x] = k}
  <2>1. /\ of \in SUBSET Batches /\ b \notin of /\ newOf \ {b} = of
        /\ b \in newOf <=> k = o
    BY <1>1, <1>2
  <2>2. filled[k][p] = ShippedIn(of, p) /\ filled[k][p] \in Nat /\ Quantity[b][p] \in Nat
    BY <1>2, FulfilmentAssumption DEF StockAccounted, Inv, TypeOK
  <2>3. filled'[k][p] = filled[k][p] + IF k = o THEN Quantity[b][p] ELSE 0
    <3>1. filled \in [Orders -> [Products -> Nat]]
      BY DEF Inv, TypeOK
    <3>2. CASE k = o
      BY <1>1, <3>1, <3>2
    <3>3. CASE k # o
      <4>1. filled'[k][p] = filled[k][p]
        BY <1>1, <3>1, <3>3
      <4> QED BY <4>1, <2>2, <3>3
    <3> QED BY <3>2, <3>3
  <2> HIDE DEF of, newOf
  <2>4. ShippedIn(newOf, p) = ShippedIn(of, p) + IF b \in newOf THEN Quantity[b][p] ELSE 0
    BY <2>1, ShippedStep
  <2>5. filled'[k][p] = ShippedIn(newOf, p)
    BY <2>1, <2>2, <2>3, <2>4
  <2> QED BY <2>5 DEF newOf
<1> QED BY <1>3, <1>4 DEF StockAccounted, ShippedIn, Destination

\* The status a commit writes is earned, and exact on an order no request raced for.
LEMMA CommitKeepsStatus ==
  ASSUME Inv, Books, NEW r \in Requests, Commit(r), LinesBounded'
  PROVE  StatusTellsProgress'
<1>1. PICK b \in Batches, o \in Orders :
        /\ b = request[r].batch /\ o = OrderOf[b]
        /\ request[r].status \in Started /\ order' = [order EXCEPT ![o] = request[r].status]
        /\ filled' = [filled EXCEPT ![o] = [p \in Products |-> filled[o][p] + Quantity[b][p]]]
        /\ raced' = IF request[r].stale THEN raced \cup {o} ELSE raced
  BY CommitShips
<1>2. /\ TypeOK /\ Progress(r) /\ StatusTellsProgress /\ request[r].stage = "tallied"
      /\ order \in [Orders -> OrderStatuses] /\ filled \in [Orders -> [Products -> Nat]]
  BY DEF Inv, TypeOK, Books, Commit
<1> SUFFICES ASSUME NEW x \in Orders
             PROVE  /\ order'[x] = "FULFILLED" => TotalFilled(x)' >= TotalOrdered(x)
                    /\ x \notin raced' =>
                         /\ order'[x] = "FULFILLED" <=> filled'[x] = Ordered[x]
                         /\ order'[x] \notin {"PARTIALLY_FULFILLED", "FULFILLED"} <=> TotalFilled(x)' = 0
  BY DEF StatusTellsProgress, TotalOrdered
<1>3. TotalFilled(x)' = TotalFilled(x) + IF x = o THEN TotalShipped(b) ELSE 0
  BY <1>1, <1>2, TotalsStep
<1>4. /\ TotalFilled(x) \in Nat /\ TotalOrdered(x) \in Nat
      /\ TotalShipped(b) \in Nat /\ TotalShipped(b) > 0
  BY <1>2, Totals
<1>5. CASE x # o
  <2>1. order'[x] = order[x] /\ filled'[x] = filled[x] /\ (x \notin raced' => x \notin raced)
    BY <1>1, <1>2, <1>5
  <2>2. TotalFilled(x)' = TotalFilled(x)
    BY <1>3, <1>4, <1>5
  <2> QED BY <2>1, <2>2, <1>2 DEF StatusTellsProgress
<1>6. CASE x = o
  <2>1. order'[x] = request[r].status /\ TotalFilled(x)' = TotalFilled(x) + TotalShipped(b)
    BY <1>1, <1>2, <1>3, <1>6
  <2>2. request[r].status = "FULFILLED" => TotalFilled(x) + TotalShipped(b) >= TotalOrdered(x)
    BY <1>1, <1>2, <1>6 DEF Progress
  <2>3. ASSUME x \notin raced'
        PROVE  /\ order'[x] = "FULFILLED" <=> filled'[x] = Ordered[x]
               /\ order'[x] \notin {"PARTIALLY_FULFILLED", "FULFILLED"} <=> TotalFilled(x)' = 0
    <3>1. ~request[r].stale
      BY <1>1, <1>6, <2>3
    <3>2. request[r].status = StatusAfter(b)
      BY <1>1, <1>2, <3>1 DEF Progress
    <3>3. request[r].status = "FULFILLED" <=> TotalFilled(x) + TotalShipped(b) >= TotalOrdered(x)
      BY <1>1, <1>6, <3>2 DEF StatusAfter
    <3>4. filled'[x] \in [Products -> Nat] /\ \A p \in Products : filled'[x][p] <= Ordered[x][p]
      <4>1. Quantity[b] \in [Products -> Nat]
        BY FulfilmentAssumption
      <4>2. filled'[x] = [p \in Products |-> filled[o][p] + Quantity[b][p]]
        BY <1>1, <1>2, <1>6
      <4> QED BY <1>2, <2>3, <4>1, <4>2 DEF LinesBounded
    <3>5. filled'[x] = Ordered[x] <=> Sum(filled'[x], Products) >= TotalOrdered(x)
      BY <3>4, FilledWhenTotal
    <3>6. Sum(filled'[x], Products) = TotalFilled(x) + TotalShipped(b)
      BY <2>1 DEF TotalFilled
    <3> QED BY <1>1, <1>4, <2>1, <3>3, <3>5, <3>6 DEF Started
  <2> QED BY <2>1, <2>2, <2>3
<1> QED BY <1>5, <1>6

\* A request that holds line locks after a step held them before it, or has just inserted its
\* fulfilment; only a commit ships.
LEMMA LocksOnly ==
  ASSUME Inv, [Next]_vars, NEW r \in Requests, HasLineLocks(r)'
  PROVE  /\ request'[r].batch = request[r].batch
         /\ HasLineLocks(r) \/ Supply(r)
<1>a. request \in [Requests -> RequestRecords] /\ TypeOK
  BY DEF Inv, TypeOK
<1>1. ASSUME NEW o \in Orders, Confirm(o) \/ Cancel(o)
      PROVE  HasLineLocks(r) /\ request'[r].batch = request[r].batch
  <2>1. request' = request \/ request' = Stale(o)
    BY <1>1 DEF Confirm, Cancel
  <2> QED BY <2>1, <1>a, StaleKeeps DEF HasLineLocks
<1>2. ASSUME NEW s \in Requests, NEW b \in Batches, Check(s, b)
      PROVE  HasLineLocks(r) /\ request'[r].batch = request[r].batch
  BY <1>2, <1>a DEF Check, HasLineLocks, Request
<1>3. ASSUME NEW s \in Requests, Open(s) \/ Take(s)
      PROVE  HasLineLocks(r) /\ request'[r].batch = request[r].batch
  BY <1>3, <1>a DEF Open, Take, HasLineLocks, RequestRecords
<1>4. ASSUME NEW s \in Requests, Supply(s)
      PROVE  /\ request'[r].batch = request[r].batch
             /\ HasLineLocks(r) \/ Supply(r)
  <2>1. CASE r = s
    BY <1>4, <1>a, <2>1 DEF Supply, RequestRecords
  <2>2. CASE r # s
    BY <1>4, <1>a, <2>2 DEF Supply, HasLineLocks
  <2> QED BY <2>1, <2>2
<1>5. ASSUME NEW s \in Requests, Tally(s)
      PROVE  HasLineLocks(r) /\ request'[r].batch = request[r].batch
  <2>1. CASE r = s
    BY <1>5, <1>a, <2>1 DEF Tally, HasLineLocks, RequestRecords
  <2>2. CASE r # s
    BY <1>5, <1>a, <2>2 DEF Tally, HasLineLocks
  <2> QED BY <2>1, <2>2
<1>6. ASSUME NEW s \in Requests, Commit(s)
      PROVE  HasLineLocks(r) /\ request'[r].batch = request[r].batch
  <2>1. request[s] \in RequestRecords /\ Fits(s) /\ request[s].stage = "tallied"
    BY <1>6 DEF Inv, TypeOK, RequestsOK, Commit
  <2>2. OrderOf[request[s].batch] \in Orders
    BY <2>1, FulfilmentAssumption DEF Fits, RequestRecords
  <2>3. request'[r] = IF r = s THEN Idle ELSE Stale(OrderOf[request[s].batch])[r]
    BY <1>6 DEF Commit, Stale
  <2> QED BY <2>2, <2>3, <1>a, StaleKeeps DEF HasLineLocks, Idle, Request
<1>7. ASSUME NEW s \in Requests, Rollback(s)
      PROVE  HasLineLocks(r) /\ request'[r].batch = request[r].batch
  BY <1>7, <1>a DEF Rollback, HasLineLocks, Idle, Request
<1>8. ASSUME UNCHANGED request
      PROVE  HasLineLocks(r) /\ request'[r].batch = request[r].batch
  BY <1>8 DEF HasLineLocks
<1> QED BY <1>1, <1>2, <1>3, <1>4, <1>5, <1>6, <1>7, <1>8 DEF Next, Adjust, vars

LEMMA LineLocksInductive == Inv /\ LineLocksOK /\ [Next]_vars => LineLocksOK'
<1> SUFFICES ASSUME Inv, LineLocksOK, [Next]_vars,
                    NEW r \in Requests, NEW s \in Requests, r # s, HasLineLocks(r)', HasLineLocks(s)'
             PROVE  \/ OrderOf[request'[r].batch] # OrderOf[request'[s].batch]
                    \/ Lines(request'[r].batch) \cap Lines(request'[s].batch) = {}
  BY DEF LineLocksOK, Lines
<1>1. /\ request'[r].batch = request[r].batch /\ (HasLineLocks(r) \/ Supply(r))
      /\ request'[s].batch = request[s].batch /\ (HasLineLocks(s) \/ Supply(s))
  BY LocksOnly
<1>2. CASE HasLineLocks(r) /\ HasLineLocks(s)
  BY <1>1, <1>2 DEF LineLocksOK
<1>3. ASSUME NEW t \in Requests, NEW u \in Requests, t # u, Supply(t), HasLineLocks(u)
      PROVE  \/ OrderOf[request[t].batch] # OrderOf[request[u].batch]
             \/ Lines(request[t].batch) \cap Lines(request[u].batch) = {}
  BY <1>3 DEF Supply, LineLocked
<1>4. ~(Supply(r) /\ Supply(s))
  <2> SUFFICES ASSUME Supply(r), Supply(s) PROVE FALSE
    OBVIOUS
  <2>1. request[s].stage = "taken" /\ request'[s] = request[s]
    BY DEF Supply, Inv, TypeOK
  <2> QED BY <2>1 DEF HasLineLocks
<1> QED BY <1>1, <1>2, <1>3, <1>4

\* What a request knows lasts while its batch is not shipped, except that others may fill its
\* order further, if it is told.
LEMMA ProgressKept ==
  ASSUME TypeOK, NEW r \in Requests, Fits(r), Progress(r),
         request'[r].batch = request[r].batch, request'[r].stage = request[r].stage,
         request'[r].status = request[r].status, request[r].stale => request'[r].stale,
         HasLineLocks(r) => request[r].batch \notin shipped',
         \A o \in Orders :
           /\ TotalFilled(o)' \in Nat /\ TotalFilled(o)' >= TotalFilled(o)
           /\ \/ TotalFilled(o)' = TotalFilled(o)
              \/ OrderOf[request[r].batch] = o => request'[r].stale
  PROVE  Progress(r)'
<1>1. HasLineLocks(r)' => request'[r].batch \notin shipped'
  BY DEF HasLineLocks
<1>2. ASSUME request'[r].stage = "tallied"
      PROVE  LET b == request'[r].batch
                 o == OrderOf[b]
             IN  /\ request'[r].status = "FULFILLED" =>
                      Sum(filled'[o], Products) + TotalShipped(b) >= TotalOrdered(o)
                 /\ ~request'[r].stale =>
                      request'[r].status = IF Sum(filled'[o], Products) + TotalShipped(b) >= TotalOrdered(o)
                                           THEN "FULFILLED" ELSE "PARTIALLY_FULFILLED"
  <2>1. request[r] \in RequestRecords /\ request[r].batch # None
    BY <1>2 DEF TypeOK, Fits
  <2>2. PICK b \in Batches, o \in Orders : b = request[r].batch /\ o = OrderOf[b]
    BY <2>1, FulfilmentAssumption DEF RequestRecords
  <2>3. /\ TotalFilled(o) \in Nat /\ TotalOrdered(o) \in Nat /\ TotalShipped(b) \in Nat
    BY Totals
  <2>4. /\ request[r].status = "FULFILLED" => TotalFilled(o) + TotalShipped(b) >= TotalOrdered(o)
        /\ ~request[r].stale => request[r].status = StatusAfter(b)
    BY <1>2, <2>2 DEF Progress
  <2>5. /\ Sum(filled'[o], Products) \in Nat /\ Sum(filled'[o], Products) >= TotalFilled(o)
        /\ Sum(filled'[o], Products) = TotalFilled(o) \/ request'[r].stale
    BY <2>2 DEF TotalFilled
  <2>6. request'[r].status = "FULFILLED" => Sum(filled'[o], Products) + TotalShipped(b) >= TotalOrdered(o)
    BY <2>3, <2>4, <2>5
  <2>7. ~request'[r].stale =>
          request'[r].status = IF Sum(filled'[o], Products) + TotalShipped(b) >= TotalOrdered(o)
                               THEN "FULFILLED" ELSE "PARTIALLY_FULFILLED"
    BY <2>2, <2>4, <2>5 DEF StatusAfter
  <2> QED BY <2>2, <2>6, <2>7
<1> QED BY <1>1, <1>2 DEF Progress, StatusAfter, TotalFilled, TotalOrdered, TotalShipped

\* An idle request, and one that has not inserted its fulfilment, has nothing to keep.
LEMMA ProgressFree ==
  ASSUME NEW r \in Requests, request'[r].stage \notin {"supplied", "tallied"}
  PROVE  Progress(r)'
BY DEF Progress, HasLineLocks

\* Every step keeps what the requests know of their orders.
LEMMA ProgressInductive ==
  ASSUME Inv, Books, [Next]_vars, NEW r \in Requests
  PROVE  Progress(r)'
<1>a. /\ TypeOK /\ Fits(r) /\ Progress(r) /\ request[r] \in RequestRecords
      /\ request \in [Requests -> RequestRecords]
  BY DEF Inv, RequestsOK, Books, TypeOK
<1>b. \A o \in Orders : TotalFilled(o) \in Nat /\ TotalFilled(o) >= TotalFilled(o)
  BY <1>a, Totals
<1>c. request[r].batch # None => request[r].batch \in Batches
  BY <1>a DEF RequestRecords
\* Steps that leave the filled quantities and the shipped batches alone.
<1>1. ASSUME UNCHANGED <<filled, shipped>>,
             request'[r].batch = request[r].batch, request'[r].stage = request[r].stage,
             request'[r].status = request[r].status, request[r].stale => request'[r].stale
      PROVE  Progress(r)'
  <2>1. \A o \in Orders : TotalFilled(o)' = TotalFilled(o)
    BY <1>1 DEF TotalFilled
  <2>2. HasLineLocks(r) => request[r].batch \notin shipped'
    BY <1>1, <1>a DEF Progress
  <2>3. \A o \in Orders :
          /\ TotalFilled(o)' \in Nat /\ TotalFilled(o)' >= TotalFilled(o)
          /\ \/ TotalFilled(o)' = TotalFilled(o)
             \/ OrderOf[request[r].batch] = o => request'[r].stale
    BY <2>1, <1>b
  <2> QED BY <1>a, <1>1, <2>2, <2>3, ProgressKept
<1>2. ASSUME NEW o \in Orders, Confirm(o) \/ Cancel(o)
      PROVE  Progress(r)'
  <2>1. request' = request \/ request' = Stale(o)
    BY <1>2 DEF Confirm, Cancel
  <2>2. UNCHANGED <<filled, shipped>>
    BY <1>2 DEF Confirm, Cancel
  <2> QED BY <2>1, <2>2, <1>a, <1>1, StaleKeeps
<1>4. ASSUME NEW s \in Requests, NEW b \in Batches, Check(s, b)
      PROVE  Progress(r)'
  <2>1. CASE s = r
    BY <1>4, <1>a, <2>1, ProgressFree DEF Check, Request
  <2>2. CASE s # r
    BY <1>4, <1>a, <2>2, <1>1 DEF Check
  <2> QED BY <2>1, <2>2
<1>5. ASSUME NEW s \in Requests, Open(s) \/ Take(s) \/ Rollback(s)
      PROVE  Progress(r)'
  <2>1. CASE s = r
    <3>1. request'[r].stage \notin {"supplied", "tallied"}
      BY <1>5, <1>a, <2>1 DEF Open, Take, Rollback, Idle, Request, RequestRecords
    <3> QED BY <3>1, ProgressFree
  <2>2. CASE s # r
    BY <1>5, <1>a, <2>2, <1>1 DEF Open, Take, Rollback
  <2> QED BY <2>1, <2>2
<1>6. ASSUME NEW s \in Requests, Supply(s)
      PROVE  Progress(r)'
  <2>1. CASE s = r
    <3>1. request'[r].stage = "supplied" /\ request'[r].batch \notin shipped'
      BY <1>6, <1>a, <2>1 DEF Supply, RequestRecords
    <3> QED BY <3>1 DEF Progress
  <2>2. CASE s # r
    BY <1>6, <1>a, <2>2, <1>1 DEF Supply
  <2> QED BY <2>1, <2>2
<1>7. ASSUME NEW s \in Requests, Tally(s)
      PROVE  Progress(r)'
  <2>1. CASE s = r
    <3>1. request[r].stage = "supplied" /\ UNCHANGED <<filled, shipped>>
      BY <1>7, <2>1 DEF Tally
    <3>2. PICK b \in Batches, o \in Orders : b = request[r].batch /\ o = OrderOf[b]
      BY <1>a, <1>c, <3>1, FulfilmentAssumption DEF Fits
    <3>3. request' = [request EXCEPT ![r].stage = "tallied", ![r].status = StatusAfter(b)]
      BY <1>7, <2>1, <3>2 DEF Tally
    <3> DEFINE status == StatusAfter(b)
    <3> HIDE DEF status
    <3>4. /\ request'[r].stage = "tallied" /\ request'[r].status = status
          /\ request'[r].batch = b
      BY <1>a, <3>2, <3>3 DEF RequestRecords, status
    <3>5. b \notin shipped'
      BY <1>a, <3>1, <3>2 DEF Progress, HasLineLocks
    <3>6. status = IF Sum(filled'[o], Products) + TotalShipped(b) >= TotalOrdered(o)
                   THEN "FULFILLED" ELSE "PARTIALLY_FULFILLED"
      BY <3>1, <3>2 DEF status, StatusAfter, TotalFilled
    <3>7. status = "FULFILLED" => Sum(filled'[o], Products) + TotalShipped(b) >= TotalOrdered(o)
      BY <3>6
    <3> QED BY <3>2, <3>4, <3>5, <3>6, <3>7
            DEF Progress, StatusAfter, TotalFilled, TotalOrdered, TotalShipped
  <2>2. CASE s # r
    BY <1>7, <1>a, <2>2, <1>1 DEF Tally
  <2> QED BY <2>1, <2>2
<1>8. ASSUME NEW s \in Requests, Commit(s)
      PROVE  Progress(r)'
  <2>1. PICK b \in Batches, o \in Orders :
          /\ b = request[s].batch /\ o = OrderOf[b] /\ shipped' = shipped \cup {b}
          /\ filled' = [filled EXCEPT ![o] = [p \in Products |-> filled[o][p] + Quantity[b][p]]]
          /\ request' = [Stale(o) EXCEPT ![s] = Idle]
    BY <1>8, CommitShips
  <2>2. CASE s = r
    <3>1. request'[r] = Idle
      BY <2>1, <2>2 DEF Stale
    <3> QED BY <3>1, ProgressFree DEF Idle, Request
  <2>3. CASE s # r
    <3>1. request'[r] = Stale(o)[r]
      BY <2>1, <2>3 DEF Stale
    <3>2. ASSUME HasLineLocks(r) PROVE request[r].batch \notin shipped'
      <4>1. request[r].batch \notin shipped /\ request[r].batch # None
        BY <3>2, <1>a DEF Progress, Fits, HasLineLocks
      <4>2. request[r].batch # b
        <5>1. HasLineLocks(s)
          BY <1>8 DEF Commit, HasLineLocks
        <5>2. Lines(b) # {}
          BY FulfilmentAssumption DEF Lines
        <5> QED BY <5>1, <5>2, <2>1, <2>3, <3>2 DEF Books, LineLocksOK
      <4> QED BY <4>1, <4>2, <2>1
    <3>3. \A x \in Orders : TotalFilled(x)' = TotalFilled(x) + IF x = o THEN TotalShipped(b) ELSE 0
      BY <1>a, <2>1, TotalsStep
    <3>4. ASSUME NEW x \in Orders
          PROVE  /\ TotalFilled(x)' \in Nat /\ TotalFilled(x)' >= TotalFilled(x)
                 /\ \/ TotalFilled(x)' = TotalFilled(x)
                    \/ x = o
      <4>1. TotalFilled(x) \in Nat /\ TotalShipped(b) \in Nat
        BY <1>a, Totals
      <4> QED BY <4>1, <3>3
    <3>5. CASE request[r].batch = None
      <4>1. request'[r].stage = "idle"
        BY <3>1, <3>5, <1>a, StaleKeeps DEF Fits
      <4> QED BY <4>1, ProgressFree
    <3>6. CASE request[r].batch # None
      <4>1. OrderOf[request[r].batch] = o => request'[r].stale
        BY <3>1, <3>6, <1>a, StaleKeeps
      <4>2. /\ request'[r].batch = request[r].batch /\ request'[r].stage = request[r].stage
            /\ request'[r].status = request[r].status /\ (request[r].stale => request'[r].stale)
        BY <3>1, <1>a, StaleKeeps
      <4> QED BY <4>1, <4>2, <3>2, <3>4, <1>a, ProgressKept
    <3> QED BY <3>5, <3>6
  <2> QED BY <2>2, <2>3
<1>9. ASSUME NEW l, NEW p, NEW delta, Adjust(l, p, delta)
      PROVE  Progress(r)'
  BY <1>9, <1>1 DEF Adjust
<1>10. CASE UNCHANGED vars
  BY <1>10, <1>1 DEF vars
<1> QED BY <1>2, <1>4, <1>5, <1>6, <1>7, <1>8, <1>9, <1>10 DEF Next

\* A manual adjustment of a row is a term of that row.
LEMMA AdjustKeepsStock ==
  ASSUME Inv, StockAccounted, NEW l \in Locations, NEW p \in Products, NEW delta \in {-1, 1},
         Adjust(l, p, delta)
  PROVE  StockAccounted'
<1>1. /\ stock \in [Locations -> [Products -> Nat]] /\ adjusted \in [Locations -> [Products -> Int]]
      /\ shipped \in SUBSET Batches
  BY DEF Inv, TypeOK
<1>2. /\ stock' = [stock EXCEPT ![l][p] = @ + delta] /\ adjusted' = [adjusted EXCEPT ![l][p] = @ + delta]
      /\ shipped' = shipped /\ filled' = filled
  BY DEF Adjust
<1>3. ASSUME NEW q \in Products, NEW k \in Locations
      PROVE  stock'[k][q] = Opening[k][q] + adjusted'[k][q]
                              + ShippedIn({x \in shipped : Destination(x) = k}, q)
                              - ShippedIn({x \in shipped : From[x] = k}, q)
  <2> DEFINE in == ShippedIn({x \in shipped : Destination(x) = k}, q)
             out == ShippedIn({x \in shipped : From[x] = k}, q)
  <2>1. in \in Nat /\ out \in Nat
    <3>1. ASSUME NEW S \in SUBSET Batches PROVE ShippedIn(S, q) \in Nat
      <4> DEFINE f == [x \in Batches |-> Quantity[x][q]]
      <4>1. IsFiniteSet(S) /\ \A x \in S : f[x] \in Nat
        BY FulfilmentAssumption, FS_Subset
      <4> HIDE DEF f
      <4>2. Sum(f, S) \in Nat
        BY <4>1, SumType
      <4> QED BY <4>2 DEF ShippedIn, f
    <3>2. {x \in shipped : Destination(x) = k} \in SUBSET Batches
      BY <1>1
    <3>3. {x \in shipped : From[x] = k} \in SUBSET Batches
      BY <1>1
    <3> QED BY <3>1, <3>2, <3>3
  <2>2. stock[k][q] = Opening[k][q] + adjusted[k][q] + in - out
    BY DEF StockAccounted
  <2>3. /\ Opening[k][q] \in Nat /\ adjusted[k][q] \in Int /\ stock[k][q] \in Nat
    BY <1>1, FulfilmentAssumption
  <2> HIDE DEF in, out
  <2>4. CASE k = l /\ q = p
    <3>1. stock'[k][q] = stock[k][q] + delta /\ adjusted'[k][q] = adjusted[k][q] + delta
      BY <1>1, <1>2, <2>4
    <3>2. stock'[k][q] = Opening[k][q] + adjusted'[k][q] + in - out
      BY <2>1, <2>2, <2>3, <3>1
    <3> QED BY <3>2 DEF in, out
  <2>5. CASE ~(k = l /\ q = p)
    <3>1. stock'[k][q] = stock[k][q] /\ adjusted'[k][q] = adjusted[k][q]
      BY <1>1, <1>2, <2>5
    <3>2. stock'[k][q] = Opening[k][q] + adjusted'[k][q] + in - out
      BY <2>2, <3>1
    <3> QED BY <3>2 DEF in, out
  <2> QED BY <2>4, <2>5
<1> QED BY <1>2, <1>3 DEF StockAccounted, ShippedIn, Destination

LEMMA BooksInitially == Init => Books
<1> SUFFICES ASSUME Init PROVE Books
  OBVIOUS
<1>1. \A r \in Requests : Progress(r) /\ ~HasLineLocks(r)
  BY DEF Init, Idle, Request, Progress, HasLineLocks
<1>2. TypeOK
  BY InitImpliesInv DEF Inv
<1>3. StockAccounted
  <2>1. \A p \in Products : ShippedIn({}, p) = 0
    BY SumEmpty DEF ShippedIn
  <2>2. \A b \in shipped : FALSE
    BY DEF Init
  <2>3. ASSUME NEW p \in Products, NEW l \in Locations
        PROVE  stock[l][p] = Opening[l][p] + adjusted[l][p]
                               + ShippedIn({x \in shipped : Destination(x) = l}, p)
                               - ShippedIn({x \in shipped : From[x] = l}, p)
    <3>1. {x \in shipped : Destination(x) = l} = {} /\ {x \in shipped : From[x] = l} = {}
      BY <2>2
    <3>2. stock[l][p] = Opening[l][p] /\ adjusted[l][p] = 0 /\ Opening[l][p] \in Nat
      BY FulfilmentAssumption DEF Init
    <3>3. /\ ShippedIn({x \in shipped : Destination(x) = l}, p) = 0
          /\ ShippedIn({x \in shipped : From[x] = l}, p) = 0
      BY <2>1, <3>1
    <3> QED BY <3>2, <3>3
  <2>4. ASSUME NEW p \in Products, NEW o \in Orders
        PROVE  filled[o][p] = ShippedIn({x \in shipped : OrderOf[x] = o}, p)
    <3>1. {x \in shipped : OrderOf[x] = o} = {}
      BY <2>2
    <3>2. filled[o][p] = 0
      BY DEF Init
    <3>3. ShippedIn({x \in shipped : OrderOf[x] = o}, p) = 0
      BY <2>1, <3>1
    <3> QED BY <3>2, <3>3
  <2> QED BY <2>3, <2>4 DEF StockAccounted
<1>4. StatusTellsProgress
  <2>1. ASSUME NEW o \in Orders
        PROVE  TotalFilled(o) = 0 /\ order[o] = "DRAFT" /\ filled[o] # Ordered[o]
    <3>1. \A p \in Products : filled[o][p] = 0
      BY DEF Init
    <3>2. TotalFilled(o) = 0
      <4> DEFINE f == filled[o]
      <4>1. \A p \in Products : f[p] = 0
        BY <3>1
      <4> HIDE DEF f
      <4>2. Units(f, Products) = {}
        BY <4>1 DEF Units
      <4>3. Sum(f, Products) = 0
        BY <4>2, FS_EmptySet DEF Sum
      <4> QED BY <4>3 DEF TotalFilled, f
    <3>3. filled[o] # Ordered[o]
      <4>1. PICK p \in Products : Ordered[o][p] > 0
        BY FulfilmentAssumption
      <4> QED BY <4>1, <3>1
    <3> QED BY <3>2, <3>3 DEF Init
  <2> QED BY <2>1, <1>2, Totals DEF StatusTellsProgress
<1> QED BY <1>1, <1>3, <1>4 DEF Books, LineLocksOK

LEMMA BooksStepwise == Inv /\ Books /\ [Next]_vars => Books'
<1> SUFFICES ASSUME Inv, Books, [Next]_vars PROVE Books'
  OBVIOUS
<1>1. LineLocksOK' /\ \A r \in Requests : Progress(r)'
  BY LineLocksInductive, ProgressInductive DEF Books
<1>2. LinesBounded'
  BY LinesInductive
<1>3. ASSUME UNCHANGED <<stock, filled, adjusted, shipped>> PROVE StockAccounted'
  BY <1>3 DEF Books, StockAccounted, ShippedIn, Destination
<1>4. ASSUME UNCHANGED <<order, filled, raced>> PROVE StatusTellsProgress'
  BY <1>4 DEF Books, StatusTellsProgress, TotalFilled, TotalOrdered
<1>5. ASSUME NEW o \in Orders, Confirm(o) \/ Cancel(o)
      PROVE  StatusTellsProgress' /\ StockAccounted'
  <2>1. /\ order[o] \notin Started /\ filled' = filled /\ raced' = raced
        /\ UNCHANGED <<stock, filled, adjusted, shipped>>
        /\ \E st \in {"CONFIRMED", "CANCELLED"} : order' = [order EXCEPT ![o] = st]
    BY <1>5 DEF Confirm, Cancel, Cancellable, Started
  <2>2. order'[o] \notin Started /\ \A x \in Orders : x # o => order'[x] = order[x]
    BY <2>1 DEF Inv, TypeOK, Started
  <2>3. StatusTellsProgress'
    <3>1. \A x \in Orders : TotalFilled(x)' = TotalFilled(x) /\ filled'[x] = filled[x]
      BY <2>1 DEF TotalFilled
    <3>2. ASSUME NEW x \in Orders
          PROVE  /\ order'[x] = "FULFILLED" => TotalFilled(x)' >= TotalOrdered(x)
                 /\ x \notin raced' =>
                      /\ order'[x] = "FULFILLED" <=> filled'[x] = Ordered[x]
                      /\ order'[x] \notin {"PARTIALLY_FULFILLED", "FULFILLED"} <=> TotalFilled(x)' = 0
      <4>1. /\ order'[x] = "FULFILLED" <=> order[x] = "FULFILLED"
            /\ order'[x] \in Started <=> order[x] \in Started
        BY <2>1, <2>2 DEF Started
      <4> QED BY <4>1, <3>1, <2>1 DEF Books, StatusTellsProgress, Started
    <3> QED BY <3>2 DEF StatusTellsProgress, TotalOrdered
  <2> QED BY <2>1, <2>3, <1>3
<1>6. ASSUME NEW r \in Requests, Commit(r) PROVE StatusTellsProgress' /\ StockAccounted'
  BY <1>2, <1>6, CommitKeepsStock, CommitKeepsStatus
<1>7. ASSUME NEW row \in Adjustable, NEW delta \in {-1, 1}, Adjust(row[1], row[2], delta)
      PROVE  StatusTellsProgress' /\ StockAccounted'
  <2>1. row[1] \in Locations /\ row[2] \in Products
    BY FulfilmentAssumption
  <2>2. UNCHANGED <<order, filled, raced>>
    BY <1>7 DEF Adjust
  <2> QED BY <2>1, <2>2, <1>4, <1>7, AdjustKeepsStock DEF Books
<1>8. ASSUME UNCHANGED <<order, filled, stock, shipped, adjusted, raced>>
      PROVE  StatusTellsProgress' /\ StockAccounted'
  BY <1>3, <1>4, <1>8
<1>9. StatusTellsProgress' /\ StockAccounted'
  BY <1>5, <1>6, <1>7, <1>8 DEF Next, vars, Check, Open, Take, Supply, Tally, Rollback
<1> QED BY <1>1, <1>9 DEF Books

-----------------------------------------------------------------------------
(* Theorems *)

\* The inductive invariant holds in every reachable state.
THEOREM Invariance == Spec => []Inv
<1>1. Inv /\ [Next]_vars => Inv'
  BY TypeOKInductive, ShippedInductive, LinesInductive, RequestsInductive, LocksInductive DEF Inv
<1>. QED
  BY InitImpliesInv, <1>1, PTL DEF Spec

\* No stock row is ever negative, for any number of fulfilments and adjustments that
\* overlap: the row lock carries decrementStockIfAvailable's check to the commit.
THEOREM TypeCorrect == Spec => []TypeOK
<1>1. Inv => TypeOK
  BY DEF Inv
<1>. QED
  BY Invariance, <1>1, PTL

\* An order that is cancelled, or not yet fulfilled, has shipped nothing, although a
\* fulfilment writes the order's status without a condition.
THEOREM Cancellation == Spec => []CancelledShipsNothing
<1>1. Inv => CancelledShipsNothing
  BY DEF Inv
<1>. QED
  BY Invariance, <1>1, PTL

\* Overlapping requests are the only cause of an over-filled line.
THEOREM OnlyRacesOverfill == Spec => []LinesBounded
<1>1. Inv => LinesBounded
  BY DEF Inv
<1>. QED
  BY Invariance, <1>1, PTL

\* There is one COGS entry for every fulfilment of costed stock, and none for another.
THEOREM CogsMatches == Spec => []JournalOK
<1>1. Inv => JournalOK
  BY DEF Inv
<1>. QED
  BY Invariance, <1>1, PTL

\* A request that has inserted its fulfilment ships it once, and writes a status that is
\* earned; stock, lines and statuses follow the fulfilments.
THEOREM BooksKept == Spec => []Books
<1>. QED
  BY Invariance, BooksInitially, BooksStepwise, PTL DEF Spec

\* Every stock row and every filled quantity is accounted for by the fulfilments, each once,
\* whatever requests, retries and adjustments overlap.
THEOREM NothingLost == Spec => []StockAccounted
<1>1. Books => StockAccounted
  BY DEF Books
<1>. QED
  BY BooksKept, <1>1, PTL

\* FULFILLED is earned whatever races, and exact on an order no request raced for.
THEOREM StatusIsEarned == Spec => []StatusTellsProgress
<1>1. Books => StatusTellsProgress
  BY DEF Books
<1>. QED
  BY BooksKept, <1>1, PTL

\* Shipments are never undone, and a cancelled order comes back only by a fulfilment that
\* was checked before the cancellation.
THEOREM NothingUndone == Spec => NeverUndone
<1>. DEFINE Forward ==
       /\ shipped \subseteq shipped' /\ journal \subseteq journal'
       /\ \A o \in Orders :
            /\ \A p \in Products : filled[o][p] <= filled'[o][p]
            /\ order'[o] = "DRAFT" => order[o] = "DRAFT"
            /\ order'[o] = "CONFIRMED" => order[o] \in {"DRAFT", "CONFIRMED"}
            /\ order'[o] = "CANCELLED" => order[o] \in {"DRAFT", "CONFIRMED", "CANCELLED"}
            /\ order[o] = "CANCELLED" /\ o \notin raced' => order'[o] = "CANCELLED"
<1>1. ASSUME Inv, [Next]_vars
      PROVE  [Forward]_vars
  <2>a. order \in [Orders -> OrderStatuses] /\ filled \in [Orders -> [Products -> Nat]]
    BY <1>1 DEF Inv, TypeOK
  <2>1. \A o \in Orders, p \in Products : filled[o][p] <= filled[o][p]
    BY <2>a
  <2>2. ASSUME NEW o \in Orders, Confirm(o) \/ Cancel(o)
        PROVE  Forward
    BY <2>2, <2>a, <2>1 DEF Confirm, Cancel, Cancellable
  <2>3. ASSUME NEW r \in Requests, Commit(r)
        PROVE  Forward
    <3>. DEFINE b == request[r].batch
                x == OrderOf[b]
    <3>1. request[r] \in RequestRecords /\ Fits(r) /\ request[r].stage = "tallied"
      BY <1>1, <2>3 DEF Inv, TypeOK, RequestsOK, Commit
    <3>2. b \in Batches /\ request[r].status \in Started
      BY <3>1 DEF Fits, RequestRecords
    <3>3. x \in Orders /\ Quantity[b] \in [Products -> Nat]
      BY <3>2, FulfilmentAssumption
    <3>4. order[x] = "CANCELLED" => x \in raced'
      BY <2>3, <3>1, <3>2, FulfilmentAssumption DEF Commit, Fits
    <3>5. \A o \in Orders, p \in Products : filled[o][p] <= filled'[o][p]
      <4>1. \A p \in Products : filled'[x][p] = filled[x][p] + Quantity[b][p]
        BY <2>3, <2>a, <3>3 DEF Commit
      <4>2. \A o \in Orders \ {x} : filled'[o] = filled[o]
        BY <2>3, <2>a DEF Commit
      <4>3. \A p \in Products : filled[x][p] \in Nat /\ Quantity[b][p] \in Nat
        BY <2>a, <3>3
      <4>. HIDE DEF b, x
      <4>4. \A p \in Products : filled[x][p] <= filled'[x][p]
        BY <4>1, <4>3
      <4>. QED
        BY <2>1, <4>2, <4>4
    <3>6. /\ order'[x] \in Started /\ \A o \in Orders : o # x => order'[o] = order[o]
          /\ shipped \subseteq shipped' /\ journal \subseteq journal'
      BY <2>3, <2>a, <3>2, <3>3 DEF Commit
    <3>. HIDE DEF b, x
    <3>. QED
      BY <3>4, <3>5, <3>6 DEF Started
  <2>4. ASSUME UNCHANGED <<order, filled, shipped, journal>>
        PROVE  Forward
    BY <2>4, <2>1
  <2>. QED
    BY <1>1, <2>2, <2>3, <2>4
    DEF Next, vars, Check, Open, Take, Supply, Tally, Rollback, Adjust
<1>2. [][Forward]_vars => NeverUndone
  BY DEF NeverUndone
<1>. QED
  BY Invariance, <1>1, <1>2, PTL DEF Spec

=============================================================================
