--------------------------- MODULE ReceivablesProofs ---------------------------
(***************************************************************************)
(* Proofs about Receivables, for any invoices, documents and number of     *)
(* overlapping transactions.  The inductive invariant adds to the          *)
(* properties what a transaction carries between its statements: the rows  *)
(* it read and validated, those it wrote, and what its document's status   *)
(* can still be.  What a race can never break follows from it.  What a     *)
(* race can break, the sums and the statuses, needs a second invariant,    *)
(* Books, which holds of the invoices that no race has reached.            *)
(***************************************************************************)
EXTENDS Receivables, FiniteSetTheorems, TLAPS

Bounded(i, row) == row.amountPaid <= Total[i] /\ row.amountCredited <= Total[i]
Derived == {"ISSUED", "PARTIALLY_PAID", "PAID"}

\* What a transaction that applies a document has validated and written.
Applying(r) ==
  LET t == request[r]
  IN  t.op = "apply" =>
        /\ \A i \in t.todo : t.read[i] # NoRow =>
             /\ Share[t.on][i] <= Outstanding(i, t.read[i])
             /\ i \in journal
        /\ \A i \in Affected(t.on) : i \in t.todo \/ t.written[i] # NoRow
        /\ t.on \in Notes => document[t.on] # "NONE"

\* What a transaction that reverses a document knows of it.
Reversing(r) ==
  LET t == request[r]
  IN  t.op = "reverse" =>
        /\ document[t.on] # "NONE"
        /\ t.todo # {} => t.on \in journal

\* Every transaction works on a document or an invoice, and on bounded rows.
Fits(r) ==
  LET t == request[r]
  IN  /\ t.op \in {"apply", "reverse"} => t.on \in Documents /\ t.todo \subseteq Affected(t.on)
      /\ t.op \in {"idle", "voidInvoice"} => t.todo = {} /\ t.written = Unread
      /\ t.op = "voidInvoice" => t.on \in Invoices
      /\ \A i \in Invoices : t.read[i] # NoRow => Bounded(i, t.read[i])
      /\ \A i \in Invoices : t.written[i] # NoRow =>
           Bounded(i, t.written[i]) /\ t.written[i].status \in Derived /\ i \in journal

TransactionsOK == \A r \in Requests : Fits(r) /\ Applying(r) /\ Reversing(r)

\* A transaction that inserted a payment is the only one, and the payment is new.
Inserted(r, p) == request[r].op = "apply" /\ request[r].on = p /\ request[r].written # Unread
KeysOK ==
  \A p \in Payments : \A r \in Requests :
    Inserted(r, p) => /\ document[p] = "NONE"
                      /\ \A s \in Requests \ {r} : ~Inserted(s, p)

KindsOK ==
  /\ \A p \in Payments : document[p] \in {"NONE", "RECORDED", "VOIDED"}
  /\ \A n \in Notes : document[n] \in {"NONE", "DRAFT", "ISSUED", "VOID"}

Inv == TypeOK /\ AmountsBounded /\ JournalMatches /\ KindsOK /\ TransactionsOK /\ KeysOK

-----------------------------------------------------------------------------
(* The laws of sums *)

\* An element with n units has a finite number of them, namely n.
LEMMA UnitsOfOne ==
  ASSUME NEW x, NEW n \in Nat
  PROVE  IsFiniteSet({x} \X (1 .. n)) /\ Cardinality({x} \X (1 .. n)) = n
<1>1. IsFiniteSet(1 .. n) /\ Cardinality(1 .. n) = n
  <2>1. IsFiniteSet(1 .. n) /\ Cardinality(1 .. n) = IF 1 > n THEN 0 ELSE n - 1 + 1
    BY FS_Interval
  <2> QED BY <2>1
<1>2. IsFiniteSet({x}) /\ Cardinality({x}) = 1
  BY FS_Singleton
<1>3. /\ IsFiniteSet({x} \X (1 .. n))
      /\ Cardinality({x} \X (1 .. n)) = Cardinality({x}) * Cardinality(1 .. n)
  BY <1>1, <1>2, FS_Product
<1> QED BY <1>1, <1>2, <1>3

\* The sum of finitely many natural numbers is one.
LEMMA SumType ==
  ASSUME NEW S, IsFiniteSet(S), NEW f, \A x \in S : f[x] \in Nat
  PROVE  IsFiniteSet(Units(f, S)) /\ Sum(f, S) \in Nat
<1> DEFINE part == [x \in S |-> {x} \X (1 .. f[x])]
           parts == {{x} \X (1 .. f[x]) : x \in S}
<1>1. part \in Surjection(S, parts)
  BY DEF Surjection
<1>2. IsFiniteSet(parts)
  BY <1>1, FS_Surjection
<1>3. ASSUME NEW x \in S PROVE IsFiniteSet({x} \X (1 .. f[x]))
  BY UnitsOfOne
<1>4. IsFiniteSet(UNION parts)
  BY <1>2, <1>3, FS_UNION
<1> QED BY <1>4, FS_CardinalityType DEF Units, Sum

LEMMA SumEmpty == \A f : Sum(f, {}) = 0
BY FS_EmptySet DEF Sum, Units

\* One more element adds its term.
LEMMA SumAdd ==
  ASSUME NEW S, IsFiniteSet(S), NEW x, x \notin S, NEW f, \A y \in S \cup {x} : f[y] \in Nat
  PROVE  Sum(f, S \cup {x}) = Sum(f, S) + f[x]
<1> DEFINE one == {x} \X (1 .. f[x])
<1>1. Units(f, S \cup {x}) = Units(f, S) \cup one /\ Units(f, S) \cap one = {}
  BY DEF Units
<1>2. IsFiniteSet(one) /\ Cardinality(one) = f[x] /\ f[x] \in Nat
  BY UnitsOfOne
<1>3. IsFiniteSet(Units(f, S)) /\ Cardinality(Units(f, S)) \in Nat
  BY SumType DEF Sum
<1> HIDE DEF one
<1>4. Cardinality(Units(f, S) \cup one) =
        Cardinality(Units(f, S)) + Cardinality(one) - Cardinality(Units(f, S) \cap one)
  BY <1>2, <1>3, FS_Union
<1>5. Cardinality(Units(f, S) \cap one) = 0
  BY <1>1, FS_EmptySet
<1>6. Cardinality(Units(f, S) \cup one) = Cardinality(Units(f, S)) + f[x]
  BY <1>2, <1>3, <1>4, <1>5
<1> QED BY <1>1, <1>6 DEF Sum

\* The sum over a set that may have gained x.
LEMMA SumGains ==
  ASSUME NEW S, IsFiniteSet(S), NEW x, x \notin S, NEW T, T \ {x} = S,
         NEW f, \A y \in S \cup {x} : f[y] \in Nat
  PROVE  Sum(f, T) = Sum(f, S) + IF x \in T THEN f[x] ELSE 0
<1>1. CASE x \in T
  <2>1. T = S \cup {x}
    BY <1>1
  <2>2. Sum(f, S \cup {x}) = Sum(f, S) + f[x]
    BY SumAdd
  <2> QED BY <1>1, <2>1, <2>2
<1>2. CASE x \notin T
  <2>1. T = S /\ Sum(f, S) \in Nat
    BY <1>2, SumType
  <2> QED BY <1>2, <2>1
<1> QED BY <1>1, <1>2

-----------------------------------------------------------------------------
\* A row an update writes is a row with a derived status, and stays within the
\* total when its share was validated.
LEMMA UpdatedRow ==
  ASSUME NEW op \in {"apply", "reverse"}, NEW d \in Documents, NEW i \in Invoices,
         NEW read \in Rows, TypeOK, AmountsBounded, Bounded(i, read),
         op = "apply" => Share[d][i] <= Outstanding(i, read)
  PROVE  /\ Updated(op, d, i, read) \in Rows
         /\ Updated(op, d, i, read).status \in Derived
         /\ Bounded(i, Updated(op, d, i, read))
<1>. DEFINE share == Share[d][i]
<1>1. share \in Nat /\ Total[i] \in Nat
  BY ReceivablesAssumption
<1>2. read.amountPaid \in Nat /\ read.amountCredited \in Nat
  BY DEF Rows
<1>3. /\ invoice[i].amountPaid \in Nat /\ invoice[i].amountCredited \in Nat
      /\ invoice[i].amountPaid <= Total[i] /\ invoice[i].amountCredited <= Total[i]
  BY DEF TypeOK, AmountsBounded, Rows
<1>4. \A a \in Nat : a <= Total[i] /\ (op = "apply" => share + a <= Total[i])
        => Amount(op, a, share) \in Nat /\ Amount(op, a, share) <= Total[i]
  BY <1>1 DEF Amount, Less
<1>5. op = "apply" => share + read.amountPaid <= Total[i] /\ share + read.amountCredited <= Total[i]
  BY <1>1, <1>2 DEF Outstanding
<1>6. /\ Amount(op, read.amountPaid, share) \in Nat
      /\ Amount(op, read.amountPaid, share) <= Total[i]
      /\ Amount(op, read.amountCredited, share) \in Nat
      /\ Amount(op, read.amountCredited, share) <= Total[i]
  BY <1>2, <1>4, <1>5 DEF Bounded
<1>7. \A row : StatusFor(i, row) \in Derived
  BY DEF StatusFor, Derived
<1>. HIDE DEF share
<1>8. Derived \subseteq InvoiceStatuses
  BY DEF Derived, InvoiceStatuses
<1>. QED
  BY <1>2, <1>3, <1>6, <1>7, <1>8 DEF Updated, Rows, Bounded, share

\* The constructor of transactions is well typed.
LEMMA TransactionTyped ==
  ASSUME NEW op \in {"idle", "apply", "reverse", "voidInvoice"},
         NEW on \in Documents \cup Invoices \cup {None}, NEW seen \in DocumentStatuses,
         NEW todo \in SUBSET Invoices, NEW read \in [Invoices -> Rows \cup {NoRow}],
         NEW written \in [Invoices -> Rows \cup {NoRow}]
  PROVE  Transaction(op, on, seen, todo, read, written) \in Transactions
BY DEF Transaction, Transactions

\* A slot that is not in use holds a well typed transaction.
LEMMA IdleTyped == Idle \in Transactions
BY TransactionTyped DEF Idle, Unread, DocumentStatuses

-----------------------------------------------------------------------------
(* Types *)

\* Every step keeps the type invariant; a write needs what its transaction validated.
LEMMA TypeOKInductive == Inv /\ [Next]_vars => TypeOK'
<1>. SUFFICES ASSUME Inv, [Next]_vars PROVE TypeOK'
  OBVIOUS
<1>. USE DEF Inv
<1>a. /\ invoice \in [Invoices -> Rows] /\ document \in [Documents -> DocumentStatuses]
      /\ journal \subseteq Invoices \cup Documents
      /\ request \in [Requests -> Transactions] /\ raced \subseteq Invoices
  BY DEF TypeOK
<1>b. Unread \in [Invoices -> Rows \cup {NoRow}]
  BY DEF Unread
<1>1. ASSUME NEW r \in Requests, NEW p \in Payments, BeginPayment(r, p)
      PROVE  TypeOK'
  <2>. DEFINE read == [i \in Invoices |-> IF i \in Affected(p) THEN invoice[i] ELSE NoRow]
              t == Transaction("apply", p, "NONE", Affected(p), read, Unread)
  <2>1. t \in Transactions
    BY <1>a, <1>b, TransactionTyped DEF Affected, Documents, DocumentStatuses
  <2>. QED
    BY <1>1, <1>a, <2>1 DEF BeginPayment, TypeOK
<1>2. ASSUME NEW n \in Notes, CreateNote(n)
      PROVE  TypeOK'
  BY <1>2, <1>a DEF CreateNote, TypeOK, DocumentStatuses
<1>3. ASSUME NEW r \in Requests, NEW n \in Notes, BeginIssue(r, n)
      PROVE  TypeOK'
  <2>1. Transaction("apply", n, "DRAFT", Affected(n), Unread, Unread) \in Transactions
    BY <1>b, TransactionTyped DEF Affected, Documents, DocumentStatuses
  <2>. QED
    BY <1>3, <1>a, <2>1 DEF BeginIssue, TypeOK
<1>4. ASSUME NEW r \in Requests, NEW d \in Documents, BeginVoid(r, d)
      PROVE  TypeOK'
  <2>. DEFINE todo == IF document[d] = "DRAFT" THEN {} ELSE Affected(d)
  <2>1. Transaction("reverse", d, document[d], todo, Unread, Unread) \in Transactions
    BY <1>a, <1>b, TransactionTyped DEF Affected
  <2>. QED
    BY <1>4, <1>a, <2>1 DEF BeginVoid, TypeOK
<1>5. ASSUME NEW r \in Requests, NEW i \in Invoices, ReadInvoice(r, i)
      PROVE  TypeOK'
  <2>1. [request[r] EXCEPT !.read[i] = invoice[i]] \in Transactions
    BY <1>a DEF Transactions
  <2>. QED
    BY <1>5, <1>a, <2>1 DEF ReadInvoice, TypeOK
<1>6. ASSUME NEW r \in Requests, NEW i \in Invoices, WriteInvoice(r, i)
      PROVE  TypeOK'
  <2>. DEFINE t == request[r]
              row == Updated(t.op, t.on, i, t.read[i])
  <2>1. t \in Transactions /\ i \in t.todo /\ t.read[i] # NoRow /\ t.read[i] \in Rows
    BY <1>6, <1>a DEF WriteInvoice, Transactions
  <2>2. /\ t.op \in {"apply", "reverse"} /\ t.on \in Documents /\ Bounded(i, t.read[i])
        /\ t.op = "apply" => Share[t.on][i] <= Outstanding(i, t.read[i])
    BY <2>1 DEF TransactionsOK, Fits, Applying, Transactions
  <2>3. row \in Rows
    BY <2>1, <2>2, UpdatedRow
  <2>. HIDE DEF row
  <2>4. [t EXCEPT !.todo = @ \ {i}, !.written[i] = row] \in Transactions
    BY <2>1, <2>3 DEF Transactions
  <2>5. request' = [request EXCEPT ![r] = [t EXCEPT !.todo = @ \ {i}, !.written[i] = row]]
    BY <1>6, <1>a DEF WriteInvoice, row
  <2>. QED
    BY <1>6, <1>a, <2>4, <2>5 DEF WriteInvoice, TypeOK
<1>7. ASSUME NEW r \in Requests, Commit(r)
      PROVE  TypeOK'
  <2>. DEFINE t == request[r]
  <2>1. t \in Transactions /\ t.op \in {"apply", "reverse"} /\ t.on \in Documents
    BY <1>7, <1>a DEF Commit, TransactionsOK, Fits
  <2>2. invoice' \in [Invoices -> Rows]
    BY <1>7, <1>a, <2>1 DEF Commit, Transactions
  <2>3. document' \in [Documents -> DocumentStatuses]
    BY <1>7, <1>a DEF Commit, FinalStatus, DocumentStatuses
  <2>4. journal' \subseteq Invoices \cup Documents
    BY <1>7, <1>a, <2>1 DEF Commit, Posted
  <2>5. raced' \subseteq Invoices
    BY <1>7, <1>a DEF Commit, StaleInvoices, Affected
  <2>6. request' \in [Requests -> Transactions]
    BY <1>7, <1>a, IdleTyped DEF Commit
  <2>. QED
    BY <2>2, <2>3, <2>4, <2>5, <2>6 DEF TypeOK
<1>8. ASSUME NEW r \in Requests, Rollback(r)
      PROVE  TypeOK'
  BY <1>8, <1>a, IdleTyped DEF Rollback, TypeOK
<1>9. ASSUME NEW i \in Invoices, IssueInvoice(i)
      PROVE  TypeOK'
  <2>1. [invoice[i] EXCEPT !.status = "ISSUED"] \in Rows
    BY <1>a DEF Rows, InvoiceStatuses
  <2>. QED
    BY <1>9, <1>a, <2>1 DEF IssueInvoice, TypeOK
<1>10. ASSUME NEW i \in Invoices, SweepOverdue(i)
       PROVE  TypeOK'
  <2>1. [invoice[i] EXCEPT !.status = "OVERDUE"] \in Rows
    BY <1>a DEF Rows, InvoiceStatuses
  <2>. QED
    BY <1>10, <1>a, <2>1 DEF SweepOverdue, TypeOK
<1>11. ASSUME NEW r \in Requests, NEW i \in Invoices, BeginVoidInvoice(r, i)
       PROVE  TypeOK'
  <2>1. [Unread EXCEPT ![i] = invoice[i]] \in [Invoices -> Rows \cup {NoRow}]
    BY <1>a, <1>b
  <2>2. Transaction("voidInvoice", i, "NONE", {}, [Unread EXCEPT ![i] = invoice[i]], Unread)
          \in Transactions
    BY <1>b, <2>1, TransactionTyped DEF DocumentStatuses
  <2>. QED
    BY <1>11, <1>a, <2>2 DEF BeginVoidInvoice, TypeOK
<1>12. ASSUME NEW r \in Requests, VoidInvoice(r)
       PROVE  TypeOK'
  <2>. DEFINE i == request[r].on
  <2>1. i \in Invoices
    BY <1>12 DEF VoidInvoice, TransactionsOK, Fits
  <2>2. [invoice[i] EXCEPT !.status = "VOID"] \in Rows
    BY <1>a, <2>1 DEF Rows, InvoiceStatuses
  <2>3. invoice' \in [Invoices -> Rows] /\ raced' \subseteq Invoices
    BY <1>12, <1>a, <2>1, <2>2 DEF VoidInvoice
  <2>. QED
    BY <1>12, <1>a, <2>3, IdleTyped DEF VoidInvoice, TypeOK
<1>13. CASE UNCHANGED vars
  BY <1>13, <1>a DEF TypeOK, vars
<1>. QED
  BY <1>1, <1>2, <1>3, <1>4, <1>5, <1>6, <1>7, <1>8, <1>9, <1>10, <1>11, <1>12, <1>13 DEF Next

-----------------------------------------------------------------------------
(* What other transactions may rely on *)

\* The journal only grows and no document goes back to before its insert.
Later ==
  /\ journal \subseteq journal'
  /\ \A d \in Documents : document[d] # "NONE" => document'[d] # "NONE"

\* Every step is monotone in that sense.
LEMMA StepsGoLater == Inv /\ [Next]_vars => Later
<1>. SUFFICES ASSUME Inv, [Next]_vars PROVE Later
  OBVIOUS
<1>a. document \in [Documents -> DocumentStatuses]
  BY DEF Inv, TypeOK
<1>1. ASSUME NEW r \in Requests, Commit(r)
      PROVE  Later
  <2>1. \A op, d : FinalStatus(op, d) # "NONE"
    BY DEF FinalStatus
  <2>2. \A d \in Documents : document[d] # "NONE" => document'[d] # "NONE"
    BY <1>1, <1>a, <2>1 DEF Commit
  <2>. QED
    BY <1>1, <2>2 DEF Commit, Later
<1>2. ASSUME NEW n \in Notes, CreateNote(n)
      PROVE  Later
  BY <1>2, <1>a DEF CreateNote, Later
<1>3. ASSUME NEW i \in Invoices, IssueInvoice(i)
      PROVE  Later
  BY <1>3 DEF IssueInvoice, Later
<1>4. ASSUME UNCHANGED <<document, journal>>
      PROVE  Later
  BY <1>4 DEF Later
<1>. QED
  BY <1>1, <1>2, <1>3, <1>4 DEF Next, vars, BeginPayment, BeginIssue, BeginVoid, ReadInvoice,
     WriteInvoice, Rollback, SweepOverdue, BeginVoidInvoice, VoidInvoice

\* A transaction that takes no step keeps all it relies on.
LEMMA WaitingKept ==
  ASSUME TransactionsOK, Later, NEW r \in Requests, request'[r] = request[r], TypeOK
  PROVE  (Fits(r) /\ Applying(r) /\ Reversing(r))'
<1>1. Fits(r)'
  BY DEF TransactionsOK, Later, Fits, Bounded
<1>2. Applying(r)'
  <2>1. request[r].op = "apply" => request[r].on \in Documents
    BY DEF TransactionsOK, Fits
  <2>. QED
    BY <2>1 DEF TransactionsOK, Later, Applying, Outstanding
<1>3. Reversing(r)'
  <2>1. request[r].op = "reverse" => request[r].on \in Documents
    BY DEF TransactionsOK, Fits
  <2>. QED
    BY <2>1 DEF TransactionsOK, Later, Reversing
<1>. QED
  BY <1>1, <1>2, <1>3

\* A slot set free relies on nothing.
LEMMA IdleKept ==
  ASSUME NEW r \in Requests, request'[r] = Idle
  PROVE  (Fits(r) /\ Applying(r) /\ Reversing(r))'
BY DEF Idle, Transaction, Unread, Fits, Applying, Reversing

\* An invoice that can be paid or credited was issued, hence debited to AR.
LEMMA PayableIsJournaled ==
  ASSUME Inv, NEW i \in Invoices, invoice[i].status \in Payable
  PROVE  i \in journal
BY DEF Inv, JournalMatches, Payable

\* The transaction that takes a step relies on no more than it has just established.
LEMMA TransactionsInductive == Inv /\ [Next]_vars => TransactionsOK'
<1>. SUFFICES ASSUME Inv, [Next]_vars, NEW r \in Requests
              PROVE  (Fits(r) /\ Applying(r) /\ Reversing(r))'
  BY DEF TransactionsOK
<1>a. /\ invoice \in [Invoices -> Rows] /\ document \in [Documents -> DocumentStatuses]
      /\ request \in [Requests -> Transactions]
  BY DEF Inv, TypeOK
<1>b. Later /\ TransactionsOK /\ TypeOK
  BY StepsGoLater DEF Inv
<1>c. ASSUME request'[r] = request[r]
      PROVE  (Fits(r) /\ Applying(r) /\ Reversing(r))'
  BY <1>b, <1>c, WaitingKept
<1>d. \A i \in Invoices : Bounded(i, invoice[i])
  BY DEF Inv, AmountsBounded, Bounded
<1>1. ASSUME NEW p \in Payments, BeginPayment(r, p)
      PROVE  (Fits(r) /\ Applying(r) /\ Reversing(r))'
  <2>. DEFINE read == [i \in Invoices |-> IF i \in Affected(p) THEN invoice[i] ELSE NoRow]
  <2>1. request'[r] = Transaction("apply", p, "NONE", Affected(p), read, Unread)
    BY <1>1, <1>a DEF BeginPayment
  <2>2. \A i \in Invoices : read[i] # NoRow => i \in Affected(p) /\ read[i] = invoice[i]
    OBVIOUS
  <2>3. \A i \in Affected(p) : Share[p][i] <= Outstanding(i, invoice[i]) /\ i \in journal
    BY <1>1, PayableIsJournaled DEF BeginPayment, Eligible, Affected
  <2>4. journal \subseteq journal' /\ p \in Documents /\ p \notin Notes /\ Affected(p) \subseteq Invoices
    BY <1>b, ReceivablesAssumption DEF Later, Documents, Affected
  <2>. HIDE DEF read
  <2>5. Fits(r)'
    BY <2>1, <2>2, <2>4, <1>d DEF Fits, Transaction, Unread, Bounded
  <2>6. Applying(r)'
    BY <2>1, <2>2, <2>3, <2>4 DEF Applying, Transaction, Outstanding
  <2>7. Reversing(r)'
    BY <2>1 DEF Reversing, Transaction
  <2>. QED
    BY <2>5, <2>6, <2>7
<1>2. ASSUME NEW n \in Notes, BeginIssue(r, n)
      PROVE  (Fits(r) /\ Applying(r) /\ Reversing(r))'
  <2>1. request'[r] = Transaction("apply", n, "DRAFT", Affected(n), Unread, Unread)
    BY <1>2, <1>a DEF BeginIssue
  <2>2. document'[n] # "NONE" /\ n \in Documents /\ Affected(n) \subseteq Invoices
    BY <1>2 DEF BeginIssue, Documents, Affected
  <2>3. Fits(r)'
    BY <2>1, <2>2 DEF Fits, Transaction, Unread
  <2>4. Applying(r)'
    BY <2>1, <2>2 DEF Applying, Transaction, Unread
  <2>5. Reversing(r)'
    BY <2>1 DEF Reversing, Transaction
  <2>. QED
    BY <2>3, <2>4, <2>5
<1>3. ASSUME NEW d \in Documents, BeginVoid(r, d)
      PROVE  (Fits(r) /\ Applying(r) /\ Reversing(r))'
  <2>. DEFINE todo == IF document[d] = "DRAFT" THEN {} ELSE Affected(d)
  <2>1. request'[r] = Transaction("reverse", d, document[d], todo, Unread, Unread)
    BY <1>3, <1>a DEF BeginVoid
  <2>2. document'[d] # "NONE" /\ todo \subseteq Affected(d)
    BY <1>3 DEF BeginVoid
  <2>3. todo # {} => d \in journal'
    <3>1. document[d] \in {"RECORDED", "ISSUED"} => d \in journal
      BY DEF Inv, JournalMatches, KindsOK, Documents
    <3>. QED
      BY <1>3, <1>b, <3>1 DEF BeginVoid, Later
  <2>. HIDE DEF todo
  <2>4. Fits(r)'
    BY <2>1, <2>2 DEF Fits, Transaction, Unread
  <2>5. Reversing(r)'
    BY <2>1, <2>2, <2>3 DEF Reversing, Transaction
  <2>6. Applying(r)'
    BY <2>1 DEF Applying, Transaction
  <2>. QED
    BY <2>4, <2>5, <2>6
<1>4. ASSUME NEW i \in Invoices, ReadInvoice(r, i)
      PROVE  (Fits(r) /\ Applying(r) /\ Reversing(r))'
  <2>. DEFINE t == request[r]
  <2>1. /\ request'[r] = [t EXCEPT !.read[i] = invoice[i]]
        /\ t \in Transactions /\ i \in t.todo /\ UNCHANGED <<journal, document>>
        /\ t.op = "apply" => Share[t.on][i] <= Outstanding(i, invoice[i]) /\ i \in journal
    BY <1>4, <1>a, PayableIsJournaled DEF ReadInvoice, Eligible
  <2>. DEFINE u == request'[r]
  <2>2. /\ u.op = t.op /\ u.on = t.on /\ u.todo = t.todo /\ u.written = t.written
        /\ u.read = [t.read EXCEPT ![i] = invoice[i]]
    BY <2>1 DEF Transactions
  <2>3. t.read \in [Invoices -> Rows \cup {NoRow}] /\ t.todo \subseteq Invoices
    BY <2>1 DEF Transactions
  <2>4. Fits(r) /\ Applying(r) /\ Reversing(r)
    BY <1>b DEF TransactionsOK
  <2>. HIDE DEF u, t
  <2>5. Fits(r)'
    BY <2>1, <2>2, <2>3, <2>4, <1>d DEF Fits, t, u, Bounded
  <2>6. Applying(r)'
    BY <2>1, <2>2, <2>3, <2>4 DEF Applying, t, u, Outstanding
  <2>7. Reversing(r)'
    BY <2>1, <2>2, <2>4 DEF Reversing, t, u
  <2>. QED
    BY <2>5, <2>6, <2>7
<1>5. ASSUME NEW i \in Invoices, WriteInvoice(r, i)
      PROVE  (Fits(r) /\ Applying(r) /\ Reversing(r))'
  <2>. DEFINE t == request[r]
              row == Updated(t.op, t.on, i, t.read[i])
              u == request'[r]
  <2>1. /\ t \in Transactions /\ i \in t.todo /\ t.read[i] # NoRow /\ t.read[i] \in Rows
        /\ UNCHANGED <<journal, document>>
    BY <1>5, <1>a DEF WriteInvoice, Transactions
  <2>2. Fits(r) /\ Applying(r) /\ Reversing(r)
    BY <1>b DEF TransactionsOK
  <2>3. /\ t.op \in {"apply", "reverse"} /\ t.on \in Documents /\ Bounded(i, t.read[i])
        /\ t.op = "apply" => Share[t.on][i] <= Outstanding(i, t.read[i]) /\ i \in journal
    BY <2>1, <2>2 DEF Fits, Applying, Transactions
  <2>4. row \in Rows /\ row.status \in Derived /\ Bounded(i, row)
    BY <2>1, <2>3, <1>b, UpdatedRow DEF Inv
  <2>5. i \in journal
    <3>1. t.op = "reverse" => t.on \in journal /\ i \in Affected(t.on)
      BY <2>1, <2>2 DEF Reversing, Fits
    <3>. QED
      BY <2>3, <3>1 DEF Inv, JournalMatches
  <2>. HIDE DEF row
  <2>6. /\ u.op = t.op /\ u.on = t.on /\ u.todo = t.todo \ {i} /\ u.read = t.read
        /\ u.written = [t.written EXCEPT ![i] = row]
    BY <1>5, <1>a, <2>1 DEF WriteInvoice, row, Transactions
  <2>7. t.written \in [Invoices -> Rows \cup {NoRow}]
    BY <2>1 DEF Transactions
  <2>8. row # NoRow
    BY <2>4, NoRowAssumption
  <2>. HIDE DEF u, t
  <2>9. Fits(r)'
    BY <2>1, <2>2, <2>3, <2>4, <2>5, <2>6, <2>7 DEF Fits, t, u, Bounded
  <2>10. Applying(r)'
    BY <2>1, <2>2, <2>6, <2>7, <2>8 DEF Applying, t, u, Outstanding, Affected
  <2>11. Reversing(r)'
    BY <2>1, <2>2, <2>6 DEF Reversing, t, u
  <2>. QED
    BY <2>9, <2>10, <2>11
<1>6. ASSUME Commit(r) \/ Rollback(r) \/ VoidInvoice(r)
      PROVE  (Fits(r) /\ Applying(r) /\ Reversing(r))'
  BY <1>6, <1>a, IdleKept DEF Commit, Rollback, VoidInvoice
<1>7. ASSUME NEW i \in Invoices, BeginVoidInvoice(r, i)
      PROVE  (Fits(r) /\ Applying(r) /\ Reversing(r))'
  <2>1. request'[r] = Transaction("voidInvoice", i, "NONE", {}, [Unread EXCEPT ![i] = invoice[i]],
                                  Unread)
    BY <1>7, <1>a DEF BeginVoidInvoice
  <2>2. Fits(r)'
    BY <2>1, <1>d DEF Fits, Transaction, Unread, Bounded
  <2>3. Applying(r)' /\ Reversing(r)'
    BY <2>1 DEF Applying, Reversing, Transaction
  <2>. QED
    BY <2>2, <2>3
<1>8. ASSUME NEW s \in Requests, s # r,
             \/ \E p \in Payments : BeginPayment(s, p)
             \/ \E n \in Notes : BeginIssue(s, n)
             \/ \E d \in Documents : BeginVoid(s, d)
             \/ \E i \in Invoices : ReadInvoice(s, i) \/ WriteInvoice(s, i) \/ BeginVoidInvoice(s, i)
             \/ Commit(s) \/ Rollback(s) \/ VoidInvoice(s)
      PROVE  (Fits(r) /\ Applying(r) /\ Reversing(r))'
  <2>1. request'[r] = request[r]
    BY <1>8, <1>a DEF BeginPayment, BeginIssue, BeginVoid, ReadInvoice, WriteInvoice,
       BeginVoidInvoice, Commit, Rollback, VoidInvoice
  <2>. QED
    BY <2>1, <1>c
<1>9. ASSUME UNCHANGED request
      PROVE  (Fits(r) /\ Applying(r) /\ Reversing(r))'
  BY <1>9, <1>c
<1>. QED
  BY <1>1, <1>2, <1>3, <1>4, <1>5, <1>6, <1>7, <1>8, <1>9
     DEF Next, vars, CreateNote, IssueInvoice, SweepOverdue

-----------------------------------------------------------------------------
(* Rows, documents and the journal *)

\* A commit leaves the rows it did not write, and writes what its transaction built.
LEMMA CommitWrites ==
  ASSUME Inv, NEW r \in Requests, Commit(r), NEW i \in Invoices
  PROVE  \/ invoice'[i] = invoice[i]
         \/ /\ invoice'[i] = request[r].written[i] /\ Bounded(i, invoice'[i])
            /\ invoice'[i].status \in Derived /\ i \in journal
<1>1. Fits(r)
  BY DEF Inv, TransactionsOK
<1>. QED
  BY <1>1 DEF Commit, Fits

\* Every step keeps each column within the total: a commit writes what was validated.
LEMMA AmountsInductive == Inv /\ [Next]_vars => AmountsBounded'
<1>. SUFFICES ASSUME Inv, [Next]_vars, NEW i \in Invoices
              PROVE  invoice'[i].amountPaid <= Total[i] /\ invoice'[i].amountCredited <= Total[i]
  BY DEF AmountsBounded
<1>a. /\ invoice \in [Invoices -> Rows]
      /\ invoice[i].amountPaid <= Total[i] /\ invoice[i].amountCredited <= Total[i]
  BY DEF Inv, TypeOK, AmountsBounded
<1>1. ASSUME NEW r \in Requests, Commit(r)
      PROVE  invoice'[i].amountPaid <= Total[i] /\ invoice'[i].amountCredited <= Total[i]
  BY <1>1, <1>a, CommitWrites DEF Bounded
<1>2. ASSUME NEW j \in Invoices, IssueInvoice(j) \/ SweepOverdue(j)
      PROVE  invoice'[i].amountPaid <= Total[i] /\ invoice'[i].amountCredited <= Total[i]
  BY <1>2, <1>a DEF IssueInvoice, SweepOverdue, Rows
<1>3. ASSUME NEW r \in Requests, VoidInvoice(r)
      PROVE  invoice'[i].amountPaid <= Total[i] /\ invoice'[i].amountCredited <= Total[i]
  BY <1>3, <1>a DEF VoidInvoice, Rows
<1>4. ASSUME UNCHANGED invoice
      PROVE  invoice'[i].amountPaid <= Total[i] /\ invoice'[i].amountCredited <= Total[i]
  BY <1>4, <1>a
<1>. QED
  BY <1>1, <1>2, <1>3, <1>4 DEF Next, vars, BeginPayment, BeginIssue, BeginVoid, ReadInvoice,
     WriteInvoice, Rollback, BeginVoidInvoice, CreateNote

\* Every step leaves a payment or a note a status of its own kind.
LEMMA KindsInductive == Inv /\ [Next]_vars => KindsOK'
<1>. SUFFICES ASSUME Inv, [Next]_vars PROVE KindsOK'
  OBVIOUS
<1>a. KindsOK /\ document \in [Documents -> DocumentStatuses] /\ Payments \cap Notes = {}
  BY ReceivablesAssumption DEF Inv, TypeOK
<1>1. ASSUME NEW r \in Requests, Commit(r)
      PROVE  KindsOK'
  BY <1>1, <1>a DEF Commit, KindsOK, FinalStatus, Documents
<1>2. ASSUME NEW n \in Notes, CreateNote(n)
      PROVE  KindsOK'
  BY <1>2, <1>a DEF CreateNote, KindsOK, Documents
<1>3. ASSUME UNCHANGED document
      PROVE  KindsOK'
  BY <1>3, <1>a DEF KindsOK
<1>. QED
  BY <1>1, <1>2, <1>3 DEF Next, vars, BeginPayment, BeginIssue, BeginVoid, ReadInvoice,
     WriteInvoice, Rollback, BeginVoidInvoice, VoidInvoice, IssueInvoice, SweepOverdue

\* A payment about to be committed was inserted by this transaction alone.
LEMMA CommitHoldsKey ==
  ASSUME Inv, NEW r \in Requests, Commit(r), NEW p \in Payments, request[r].on = p
  PROVE  /\ request[r].op = "apply" => Inserted(r, p) /\ document[p] = "NONE"
         /\ \A s \in Requests \ {r} : ~Inserted(s, p)
<1>1. Applying(r) /\ Reversing(r) /\ KeysOK /\ p \in Documents
  BY DEF Inv, TransactionsOK, Documents
<1>2. CASE request[r].op = "apply"
  <2>1. PICK i \in Affected(p) : TRUE
    BY <1>1, ReceivablesAssumption
  <2>2. request[r].written[i] # NoRow /\ i \in Invoices
    BY <1>1, <1>2, <2>1 DEF Commit, Applying, Affected
  <2>3. Inserted(r, p)
    BY <1>2, <2>2 DEF Inserted, Unread
  <2>. QED
    BY <1>1, <2>3 DEF KeysOK
<1>3. CASE request[r].op = "reverse"
  BY <1>1, <1>3 DEF Reversing, KeysOK
<1>. QED
  BY <1>2, <1>3 DEF Commit

\* Every step keeps the unique key: the transaction that inserted a payment is alone.
LEMMA KeysInductive == Inv /\ [Next]_vars => KeysOK'
<1>. SUFFICES ASSUME Inv, [Next]_vars, NEW p \in Payments
              PROVE  \A r \in Requests : Inserted(r, p)' =>
                       /\ document'[p] = "NONE"
                       /\ \A s \in Requests \ {r} : ~Inserted(s, p)'
  BY DEF KeysOK
<1>. DEFINE Goal == \A r \in Requests : Inserted(r, p)' =>
                      /\ document'[p] = "NONE"
                      /\ \A s \in Requests \ {r} : ~Inserted(s, p)'
<1>a. /\ request \in [Requests -> Transactions] /\ document \in [Documents -> DocumentStatuses]
      /\ KeysOK /\ p \in Documents /\ p \notin Notes
  BY ReceivablesAssumption DEF Inv, TypeOK, Documents
<1>1. ASSUME document'[p] = document[p],
             \A r \in Requests : Inserted(r, p)' => Inserted(r, p)
      PROVE  Goal
  BY <1>1, <1>a DEF KeysOK
<1>2. ASSUME NEW r \in Requests, Commit(r)
      PROVE  Goal
  <2>1. \A s \in Requests : Inserted(s, p)' => s # r /\ Inserted(s, p)
    BY <1>2, <1>a DEF Commit, Inserted, Idle, Transaction
  <2>2. CASE request[r].on = p
    BY <2>1, <2>2, <1>2, CommitHoldsKey
  <2>3. CASE request[r].on # p
    BY <2>1, <2>3, <1>2, <1>a, <1>1 DEF Commit
  <2>. QED
    BY <2>2, <2>3
<1>3. ASSUME NEW r \in Requests, NEW i \in Invoices, WriteInvoice(r, i)
      PROVE  Goal
  <2>1. \A s \in Requests \ {r} : Inserted(s, p)' <=> Inserted(s, p)
    BY <1>3, <1>a DEF WriteInvoice, Inserted
  <2>2. Inserted(r, p)' => request[r].op = "apply" /\ request[r].on = p
    BY <1>3, <1>a DEF WriteInvoice, Inserted, Transactions
  <2>3. CASE request[r].op = "apply" /\ request[r].on = p
    <3>1. document[p] = "NONE" /\ \A s \in Requests \ {r} : ~Inserted(s, p)
      BY <2>3, <1>3 DEF WriteInvoice, KeyFree, Inserted
    <3>. QED
      BY <3>1, <2>1, <1>3 DEF WriteInvoice
  <2>4. CASE ~(request[r].op = "apply" /\ request[r].on = p)
    BY <2>1, <2>2, <2>4, <1>1, <1>3 DEF WriteInvoice
  <2>. QED
    BY <2>3, <2>4
<1>4. ASSUME NEW n \in Notes, CreateNote(n)
      PROVE  Goal
  BY <1>4, <1>a, <1>1 DEF CreateNote, Inserted
<1>5. ASSUME NEW r \in Requests, NEW i \in Invoices, ReadInvoice(r, i)
      PROVE  Goal
  BY <1>5, <1>a, <1>1 DEF ReadInvoice, Inserted, Transactions
<1>6. ASSUME NEW r \in Requests, UNCHANGED document, request'[r].written = Unread,
             \A s \in Requests \ {r} : request'[s] = request[s]
      PROVE  Goal
  BY <1>6, <1>1 DEF Inserted
<1>7. ASSUME NEW r \in Requests,
             \/ \E q \in Payments : BeginPayment(r, q)
             \/ \E n \in Notes : BeginIssue(r, n)
             \/ \E d \in Documents : BeginVoid(r, d)
             \/ \E i \in Invoices : BeginVoidInvoice(r, i)
             \/ Rollback(r) \/ VoidInvoice(r)
      PROVE  Goal
  BY <1>7, <1>6, <1>a DEF BeginPayment, BeginIssue, BeginVoid, BeginVoidInvoice, Rollback,
     VoidInvoice, Idle, Transaction
<1>8. ASSUME UNCHANGED <<document, request>>
      PROVE  Goal
  BY <1>8, <1>1 DEF Inserted
<1>. QED
  BY <1>2, <1>3, <1>4, <1>5, <1>7, <1>8 DEF Next, vars, IssueInvoice, SweepOverdue

\* Every step keeps the journal in step with the documents and the invoices.
LEMMA JournalInductive == Inv /\ [Next]_vars => JournalMatches'
<1>. SUFFICES ASSUME Inv, [Next]_vars PROVE JournalMatches'
  OBVIOUS
<1>a. /\ invoice \in [Invoices -> Rows] /\ document \in [Documents -> DocumentStatuses]
      /\ JournalMatches /\ KindsOK /\ journal \subseteq Invoices \cup Documents
      /\ Payments \cap Notes = {} /\ Invoices \cap Documents = {}
      /\ Payments \subseteq Documents /\ Notes \subseteq Documents
  BY ReceivablesAssumption DEF Inv, TypeOK, Documents
<1>1. ASSUME NEW r \in Requests, Commit(r)
      PROVE  JournalMatches'
  <2>. DEFINE t == request[r]
  <2>1. /\ Fits(r) /\ Applying(r) /\ Reversing(r)
        /\ t.op \in {"apply", "reverse"} /\ t.on \in Documents /\ t.todo = {}
    BY <1>1 DEF Inv, TransactionsOK, Fits, Commit
  <2>2. /\ journal' = journal \cup Posted(t.op, t.on)
        /\ document' = [document EXCEPT ![t.on] = FinalStatus(t.op, t.on)]
    BY <1>1 DEF Commit
  <2>3. \A p \in Payments : p \in journal' <=> document'[p] # "NONE"
    <3>. SUFFICES ASSUME NEW p \in Payments PROVE p \in journal' <=> document'[p] # "NONE"
      OBVIOUS
    <3>1. p \in journal <=> document[p] # "NONE"
      BY <1>a DEF JournalMatches
    <3>2. CASE p = t.on
      BY <3>1, <3>2, <2>1, <2>2, <1>a DEF Posted, FinalStatus, Reversing
    <3>3. CASE p # t.on
      BY <3>1, <3>3, <2>2, <1>a DEF Posted
    <3>. QED
      BY <3>2, <3>3
  <2>4. \A n \in Notes : /\ document'[n] = "ISSUED" => n \in journal'
                         /\ n \in journal' => document'[n] \in {"ISSUED", "VOID"}
    <3>. SUFFICES ASSUME NEW n \in Notes
                  PROVE  /\ document'[n] = "ISSUED" => n \in journal'
                         /\ n \in journal' => document'[n] \in {"ISSUED", "VOID"}
      OBVIOUS
    <3>1. /\ document[n] = "ISSUED" => n \in journal
          /\ n \in journal => document[n] \in {"ISSUED", "VOID"}
      BY <1>a DEF JournalMatches
    <3>2. CASE n = t.on
      BY <3>2, <2>1, <2>2, <1>a DEF Posted, FinalStatus
    <3>3. CASE n # t.on
      BY <3>1, <3>3, <2>2, <1>a DEF Posted
    <3>. QED
      BY <3>2, <3>3
  <2>5. \A d \in journal' \cap Documents : Affected(d) \subseteq journal'
    <3>1. t.op = "apply" => Affected(t.on) \subseteq journal
      BY <2>1 DEF Applying, Fits, Affected
    <3>. QED
      BY <3>1, <2>2, <1>a DEF JournalMatches, Posted
  <2>6. \A i \in Invoices : /\ invoice'[i].status \notin {"DRAFT", "VOID"} => i \in journal'
                            /\ i \in journal' => invoice'[i].status # "DRAFT"
    <3>. SUFFICES ASSUME NEW i \in Invoices
                  PROVE  /\ invoice'[i].status \notin {"DRAFT", "VOID"} => i \in journal'
                         /\ i \in journal' => invoice'[i].status # "DRAFT"
      OBVIOUS
    <3>1. i \in journal' <=> i \in journal
      BY <2>1, <2>2, <1>a DEF Posted
    <3>2. /\ invoice[i].status \notin {"DRAFT", "VOID"} => i \in journal
          /\ i \in journal => invoice[i].status # "DRAFT"
      BY <1>a DEF JournalMatches
    <3>. QED
      BY <3>1, <3>2, <1>1, CommitWrites DEF Derived
  <2>. QED
    BY <2>3, <2>4, <2>5, <2>6 DEF JournalMatches
<1>2. ASSUME NEW n \in Notes, CreateNote(n)
      PROVE  JournalMatches'
  <2>1. document[n] = "NONE" /\ n \notin journal /\ n \notin Payments
    BY <1>2, <1>a DEF CreateNote, JournalMatches
  <2>. QED
    BY <1>2, <1>a, <2>1 DEF CreateNote, JournalMatches
<1>3. ASSUME NEW i \in Invoices, IssueInvoice(i)
      PROVE  JournalMatches'
  <2>1. /\ journal' = journal \cup {i} /\ UNCHANGED document
        /\ invoice'[i].status = "ISSUED" /\ \A j \in Invoices \ {i} : invoice'[j] = invoice[j]
    BY <1>3, <1>a DEF IssueInvoice, Rows
  <2>. QED
    BY <2>1, <1>a DEF JournalMatches
<1>4. ASSUME NEW i \in Invoices, SweepOverdue(i)
      PROVE  JournalMatches'
  <2>1. /\ UNCHANGED <<journal, document>> /\ invoice[i].status \in {"ISSUED", "PARTIALLY_PAID"}
        /\ invoice'[i].status = "OVERDUE" /\ \A j \in Invoices \ {i} : invoice'[j] = invoice[j]
    BY <1>4, <1>a DEF SweepOverdue, Rows
  <2>. QED
    BY <2>1, <1>a DEF JournalMatches
<1>5. ASSUME NEW r \in Requests, VoidInvoice(r)
      PROVE  JournalMatches'
  <2>1. /\ UNCHANGED <<journal, document>>
        /\ \A j \in Invoices : invoice'[j] = invoice[j] \/ invoice'[j].status = "VOID"
    BY <1>5, <1>a DEF VoidInvoice, Rows
  <2>. QED
    BY <2>1, <1>a DEF JournalMatches
<1>6. ASSUME UNCHANGED <<invoice, document, journal>>
      PROVE  JournalMatches'
  BY <1>6, <1>a DEF JournalMatches
<1>. QED
  BY <1>1, <1>2, <1>3, <1>4, <1>5, <1>6 DEF Next, vars, BeginPayment, BeginIssue, BeginVoid,
     ReadInvoice, WriteInvoice, Rollback, BeginVoidInvoice

\* The initial state satisfies the invariant.
LEMMA InitImpliesInv == Init => Inv
<1>. SUFFICES ASSUME Init PROVE Inv
  OBVIOUS
<1>. USE DEF Init
<1>1. TypeOK
  BY IdleTyped DEF TypeOK, Rows, InvoiceStatuses, DocumentStatuses
<1>2. AmountsBounded /\ JournalMatches /\ KindsOK
  BY ReceivablesAssumption DEF AmountsBounded, JournalMatches, KindsOK, Documents
<1>3. TransactionsOK /\ KeysOK
  BY DEF TransactionsOK, KeysOK, Inserted, Fits, Applying, Reversing, Idle, Transaction, Unread
<1>. QED
  BY <1>1, <1>2, <1>3 DEF Inv

-----------------------------------------------------------------------------
(* What the documents add up to *)

\* What a transaction carries towards its commit.  A row it has written is still what it would
\* write now, because nobody else writes that row; it applies only what it validated, and
\* reverses every share of a document that was in force.
Carries(r) ==
  LET t == request[r]
  IN  /\ \A i \in Invoices : t.written[i] # NoRow =>
           /\ i \in Affected(t.on) /\ i \notin t.todo /\ t.read[i] # NoRow
           /\ t.written[i] = Updated(t.op, t.on, i, t.read[i])
      /\ t.op = "apply" =>
           /\ t.seen = IF t.on \in Payments THEN "NONE" ELSE "DRAFT"
           /\ \A i \in Invoices : t.read[i] # NoRow => Share[t.on][i] <= Outstanding(i, t.read[i])
      /\ t.op = "reverse" =>
           /\ t.seen \in IF t.on \in Payments THEN {"RECORDED"} ELSE {"DRAFT", "ISSUED"}
           /\ IF t.seen = "DRAFT" THEN t.todo = {} /\ t.written = Unread
              ELSE \A i \in Affected(t.on) : i \in t.todo \/ t.written[i] # NoRow
      /\ t.op = "voidInvoice" =>
           /\ t.read[t.on] # NoRow
           /\ t.on \in raced \/ (t.read[t.on].amountPaid = 0 /\ t.read[t.on].amountCredited = 0)

\* No two transactions have written the same invoice.
OneWriter ==
  \A r, s \in Requests, i \in Invoices :
    r # s => request[r].written[i] = NoRow \/ request[s].written[i] = NoRow

Books ==
  /\ LedgerExact /\ StatusTellsBalance /\ OneWriter
  /\ \A r \in Requests : Carries(r)

Paid(i) == AppliedOf(Payments, "RECORDED", i)
Credited(i) == AppliedOf(Notes, "ISSUED", i)

\* What LedgerExact and StatusTellsBalance say of an invoice whose documents in force add up to
\* paid and credited.
Exact(i, row, paid, credited) ==
  row.amountPaid = paid /\ row.amountCredited = credited /\ Outstanding(i, row) >= 0
Tells(i, row) ==
  LET open == Outstanding(i, row)
  IN  CASE row.status = "PAID" -> open = 0
        [] row.status = "OVERDUE" -> open > 0
        [] row.status = "PARTIALLY_PAID" -> 0 < open /\ open < Total[i]
        [] OTHER -> open = Total[i]

LEMMA TheProperties ==
  /\ LedgerExact <=> \A i \in Invoices \ raced :
       Exact(i, invoice[i], Paid(i), Credited(i))
  /\ StatusTellsBalance <=> \A i \in Invoices \ raced : Tells(i, invoice[i])
BY DEF LedgerExact, StatusTellsBalance, Exact, Tells, Paid, Credited

\* The status an update derives tells the balance it leaves.
LEMMA DerivedTells ==
  ASSUME NEW i \in Invoices, NEW paid \in Nat, NEW credited \in Nat, paid + credited <= Total[i]
  PROVE  Tells(i, [status |-> StatusFor(i, [amountPaid |-> paid, amountCredited |-> credited]),
                   amountPaid |-> paid, amountCredited |-> credited])
<1>1. Total[i] \in Nat /\ Total[i] > 0
  BY ReceivablesAssumption
<1> DEFINE status == StatusFor(i, [amountPaid |-> paid, amountCredited |-> credited])
<1>2. status = IF paid + credited >= Total[i] THEN "PAID"
               ELSE IF paid + credited > 0 THEN "PARTIALLY_PAID" ELSE "ISSUED"
  BY DEF StatusFor
<1> HIDE DEF status
<1> DEFINE row == [status |-> status, amountPaid |-> paid, amountCredited |-> credited]
<1>3. row.status = status /\ Outstanding(i, row) = Total[i] - paid - credited
  BY DEF Outstanding
<1> HIDE DEF row
<1>4. Tells(i, row)
  <2>1. CASE paid + credited >= Total[i]
    BY <1>1, <1>2, <1>3, <2>1 DEF Tells
  <2>2. CASE paid + credited < Total[i] /\ paid + credited > 0
    BY <1>1, <1>2, <1>3, <2>2 DEF Tells
  <2>3. CASE paid + credited < Total[i] /\ paid + credited = 0
    BY <1>1, <1>2, <1>3, <2>3 DEF Tells
  <2> QED BY <1>1, <2>1, <2>2, <2>3
<1> QED BY <1>4 DEF row, status

\* Two sets of documents that agree but for d have sums that agree but for d's share.
LEMMA SumsDiffer ==
  ASSUME NEW d \in Documents, NEW S \in SUBSET Documents, NEW T \in SUBSET Documents,
         S \ {d} = T \ {d}, NEW f, \A x \in Documents : f[x] \in Nat
  PROVE  \E rest \in Nat : /\ Sum(f, S) = rest + IF d \in S THEN f[d] ELSE 0
                           /\ Sum(f, T) = rest + IF d \in T THEN f[d] ELSE 0
<1> DEFINE R == S \ {d}
<1>1. d \notin R /\ S \ {d} = R /\ T \ {d} = R
  OBVIOUS
<1>2. IsFiniteSet(R)
  <2>1. IsFiniteSet(Documents)
    BY ReceivablesAssumption, FS_Union DEF Documents
  <2>2. R \in SUBSET Documents
    OBVIOUS
  <2> QED BY <2>1, <2>2, FS_Subset
<1>3. \A x \in R \cup {d} : f[x] \in Nat
  OBVIOUS
<1> HIDE DEF R
<1>4. Sum(f, R) \in Nat
  BY <1>2, <1>3, SumType
<1>5. Sum(f, S) = Sum(f, R) + IF d \in S THEN f[d] ELSE 0
  BY <1>1, <1>2, <1>3, SumGains
<1>6. Sum(f, T) = Sum(f, R) + IF d \in T THEN f[d] ELSE 0
  BY <1>1, <1>2, <1>3, SumGains
<1> QED BY <1>4, <1>5, <1>6

\* What the payments, and below what the credit notes, add up to before and after document d
\* changes its status.
LEMMA PaidStep ==
  ASSUME TypeOK, NEW d \in Documents, NEW i \in Invoices,
         \A x \in Documents \ {d} : document'[x] = document[x]
  PROVE  \E rest \in Nat :
           /\ Paid(i) =
                rest + IF d \in Payments /\ document[d] = "RECORDED" THEN Share[d][i] ELSE 0
           /\ Paid(i)' =
                rest + IF d \in Payments /\ document'[d] = "RECORDED" THEN Share[d][i] ELSE 0
<1> DEFINE f == [x \in Documents |-> Share[x][i]]
           S == {x \in Payments : document[x] = "RECORDED"}
           T == {x \in Payments : document'[x] = "RECORDED"}
<1>1. /\ S \in SUBSET Documents /\ T \in SUBSET Documents /\ S \ {d} = T \ {d}
      /\ d \in S <=> d \in Payments /\ document[d] = "RECORDED"
      /\ d \in T <=> d \in Payments /\ document'[d] = "RECORDED"
  BY DEF TypeOK, Documents
<1>2. (\A x \in Documents : f[x] \in Nat) /\ f[d] = Share[d][i]
  BY ReceivablesAssumption
<1>3. Paid(i) = Sum(f, S) /\ Paid(i)' = Sum(f, T)
  BY DEF AppliedOf, Paid, Credited
<1> HIDE DEF f, S, T
<1>4. PICK rest \in Nat : /\ Sum(f, S) = rest + IF d \in S THEN f[d] ELSE 0
                          /\ Sum(f, T) = rest + IF d \in T THEN f[d] ELSE 0
  BY <1>1, <1>2, SumsDiffer
<1> QED BY <1>1, <1>2, <1>3, <1>4

LEMMA CreditedStep ==
  ASSUME TypeOK, NEW d \in Documents, NEW i \in Invoices,
         \A x \in Documents \ {d} : document'[x] = document[x]
  PROVE  \E rest \in Nat :
           /\ Credited(i) =
                rest + IF d \in Notes /\ document[d] = "ISSUED" THEN Share[d][i] ELSE 0
           /\ Credited(i)' =
                rest + IF d \in Notes /\ document'[d] = "ISSUED" THEN Share[d][i] ELSE 0
<1> DEFINE f == [x \in Documents |-> Share[x][i]]
           S == {x \in Notes : document[x] = "ISSUED"}
           T == {x \in Notes : document'[x] = "ISSUED"}
<1>1. /\ S \in SUBSET Documents /\ T \in SUBSET Documents /\ S \ {d} = T \ {d}
      /\ d \in S <=> d \in Notes /\ document[d] = "ISSUED"
      /\ d \in T <=> d \in Notes /\ document'[d] = "ISSUED"
  BY DEF TypeOK, Documents
<1>2. (\A x \in Documents : f[x] \in Nat) /\ f[d] = Share[d][i]
  BY ReceivablesAssumption
<1>3. Credited(i) = Sum(f, S) /\ Credited(i)' = Sum(f, T)
  BY DEF AppliedOf, Paid, Credited
<1> HIDE DEF f, S, T
<1>4. PICK rest \in Nat : /\ Sum(f, S) = rest + IF d \in S THEN f[d] ELSE 0
                          /\ Sum(f, T) = rest + IF d \in T THEN f[d] ELSE 0
  BY <1>1, <1>2, SumsDiffer
<1> QED BY <1>1, <1>2, <1>3, <1>4

\* A commit leaves exact every invoice that is not marked as raced: one it has written, because
\* its row was read as it still is ...
LEMMA CommitWrittenExact ==
  ASSUME Inv, Books, NEW r \in Requests, Commit(r), NEW i \in Invoices, i \notin raced',
         request[r].written[i] # NoRow
  PROVE  /\ Exact(i, invoice'[i], Paid(i)', Credited(i)')
         /\ Tells(i, invoice'[i])
<1>1. PICK d \in Documents, op \in {"apply", "reverse"} : d = request[r].on /\ op = request[r].op
  BY DEF Commit, Inv, TransactionsOK, Fits
<1> DEFINE read == request[r].read[i]
           share == Share[d][i]
           P == invoice[i].amountPaid
           C == invoice[i].amountCredited
<1>2. /\ Carries(r) /\ TypeOK /\ KindsOK
      /\ Exact(i, invoice[i], Paid(i), Credited(i))
  BY TheProperties DEF Books, Inv, Commit
<1>3. /\ i \in Affected(d) /\ read # NoRow /\ request[r].written[i] = Updated(op, d, i, read)
      /\ invoice'[i] = request[r].written[i]
      /\ document'[d] = FinalStatus(op, d) /\ \A x \in Documents \ {d} : document'[x] = document[x]
      /\ SameBalance(read, invoice[i]) /\ document[d] = request[r].seen
  BY <1>1, <1>2 DEF Carries, Commit, StaleInvoices, TypeOK
<1>4. /\ P \in Nat /\ C \in Nat /\ share \in Nat /\ Total[i] \in Nat /\ read \in Rows
      /\ read.amountPaid = P /\ read.amountCredited = C /\ P + C <= Total[i]
  <2>1. request[r] \in Transactions /\ invoice[i] \in Rows
    BY <1>2 DEF TypeOK
  <2>2. read \in Rows
    BY <2>1, <1>3 DEF Transactions
  <2>3. P \in Nat /\ C \in Nat /\ share \in Nat /\ Total[i] \in Nat
    BY <2>1, ReceivablesAssumption DEF Rows
  <2> QED BY <2>2, <2>3, <1>2, <1>3 DEF Exact, Outstanding, SameBalance
<1>5. op = "apply" => share <= Total[i] - P - C /\ document[d] = IF d \in Payments THEN "NONE" ELSE "DRAFT"
  BY <1>1, <1>2, <1>3, <1>4 DEF Carries, Outstanding
<1>6. op = "reverse" => document[d] = IF d \in Payments THEN "RECORDED" ELSE "ISSUED"
  <2>1. op = "reverse" /\ d \notin Payments => request[r].seen \in {"DRAFT", "ISSUED"}
    BY <1>1, <1>2 DEF Carries
  <2>2. op = "reverse" /\ d \in Payments => request[r].seen \in {"RECORDED"}
    BY <1>1, <1>2 DEF Carries
  <2>3. request[r].seen = "DRAFT" /\ op = "reverse" => request[r].written = Unread
    BY <1>1, <1>2 DEF Carries
  <2> QED BY <2>1, <2>2, <2>3, <1>3 DEF Unread
<1>7. PICK restP \in Nat :
        /\ P = restP + IF d \in Payments /\ document[d] = "RECORDED" THEN share ELSE 0
        /\ Paid(i)' =
             restP + IF d \in Payments /\ document'[d] = "RECORDED" THEN share ELSE 0
  BY <1>2, <1>3, PaidStep DEF Exact
<1>8. PICK restC \in Nat :
        /\ C = restC + IF d \in Notes /\ document[d] = "ISSUED" THEN share ELSE 0
        /\ Credited(i)' =
             restC + IF d \in Notes /\ document'[d] = "ISSUED" THEN share ELSE 0
  BY <1>2, <1>3, CreditedStep DEF Exact
<1> DEFINE P2 == IF d \in Payments THEN Amount(op, P, share) ELSE P
           C2 == IF d \in Notes THEN Amount(op, C, share) ELSE C
<1>9. (d \in Payments <=> d \notin Notes)
  BY ReceivablesAssumption DEF Documents
<1>10. invoice'[i] = [status |-> StatusFor(i, [amountPaid |-> P2, amountCredited |-> C2]),
                      amountPaid |-> P2, amountCredited |-> C2]
  BY <1>3, <1>4, <1>9 DEF Updated
<1> HIDE DEF read, share, P, C
<1>11. /\ P2 \in Nat /\ P2 = Paid(i)'
       /\ C2 \in Nat /\ C2 = Credited(i)'
       /\ P2 + C2 <= Total[i]
  <2>1. CASE op = "apply" /\ d \in Payments
    BY <2>1, <1>3, <1>4, <1>5, <1>7, <1>8, <1>9 DEF Amount, FinalStatus
  <2>2. CASE op = "apply" /\ d \in Notes
    BY <2>2, <1>3, <1>4, <1>5, <1>7, <1>8, <1>9 DEF Amount, FinalStatus
  <2>3. CASE op = "reverse" /\ d \in Payments
    BY <2>3, <1>3, <1>4, <1>6, <1>7, <1>8, <1>9 DEF Amount, Less, FinalStatus
  <2>4. CASE op = "reverse" /\ d \in Notes
    BY <2>4, <1>3, <1>4, <1>6, <1>7, <1>8, <1>9 DEF Amount, Less, FinalStatus
  <2> QED BY <2>1, <2>2, <2>3, <2>4, <1>9
<1> HIDE DEF P2, C2
<1>12. Tells(i, invoice'[i])
  BY <1>10, <1>11, DerivedTells
<1>13. invoice'[i].amountPaid = P2 /\ invoice'[i].amountCredited = C2
  BY <1>10
<1>14. Outstanding(i, invoice'[i]) >= 0
  BY <1>4, <1>11, <1>13 DEF Outstanding
<1> QED BY <1>11, <1>12, <1>13, <1>14 DEF Exact

\* ... and one it has not written, because its document has no share of it that counts.
LEMMA CommitOtherExact ==
  ASSUME Inv, Books, NEW r \in Requests, Commit(r), NEW i \in Invoices, i \notin raced',
         request[r].written[i] = NoRow
  PROVE  /\ Exact(i, invoice'[i], Paid(i)', Credited(i)')
         /\ Tells(i, invoice'[i])
<1>1. PICK d \in Documents, op \in {"apply", "reverse"} : d = request[r].on /\ op = request[r].op
  BY DEF Commit, Inv, TransactionsOK, Fits
<1> DEFINE share == Share[d][i]
           paid == Paid(i)
           credited == Credited(i)
<1>2. /\ Carries(r) /\ Applying(r) /\ TypeOK /\ i \notin raced /\ request[r].todo = {}
      /\ Exact(i, invoice[i], paid, credited) /\ Tells(i, invoice[i])
  BY TheProperties DEF Books, Inv, Commit, TransactionsOK
<1>3. /\ invoice'[i] = invoice[i] /\ document'[d] = FinalStatus(op, d) /\ \A x \in Documents \ {d} : document'[x] = document[x]
      /\ i \in Affected(d) => document[d] = request[r].seen
  BY <1>1, <1>2 DEF Commit, StaleInvoices, TypeOK
<1>4. \/ share = 0
      \/ document[d] = "DRAFT" /\ FinalStatus(op, d) = "VOID"
  <2> SUFFICES ASSUME share # 0 PROVE document[d] = "DRAFT" /\ FinalStatus(op, d) = "VOID"
    OBVIOUS
  <2>1. i \in Affected(d)
    BY ReceivablesAssumption DEF Affected
  <2>2. op = "reverse"
    BY <1>1, <1>2, <2>1 DEF Applying
  <2>3. request[r].seen = "DRAFT"
    BY <1>1, <1>2, <2>1, <2>2 DEF Carries
  <2>4. d \notin Payments
    BY <1>1, <1>2, <2>2, <2>3 DEF Carries
  <2> QED BY <1>3, <2>1, <2>2, <2>3, <2>4 DEF FinalStatus
<1>5. PICK restP \in Nat :
        /\ paid = restP + IF d \in Payments /\ document[d] = "RECORDED" THEN share ELSE 0
        /\ Paid(i)' =
             restP + IF d \in Payments /\ document'[d] = "RECORDED" THEN share ELSE 0
  BY <1>2, <1>3, PaidStep
<1>6. PICK restC \in Nat :
        /\ credited = restC + IF d \in Notes /\ document[d] = "ISSUED" THEN share ELSE 0
        /\ Credited(i)' =
             restC + IF d \in Notes /\ document'[d] = "ISSUED" THEN share ELSE 0
  BY <1>2, <1>3, CreditedStep
<1>7. Paid(i)' = paid /\ Credited(i)' = credited
  BY <1>3, <1>4, <1>5, <1>6
<1> QED BY <1>2, <1>3, <1>7

\* What a transaction carries lasts while the amounts of the rows it has written do.
LEMMA CarriesKept ==
  ASSUME NEW r \in Requests, Carries(r), request'[r] = request[r], raced \subseteq raced',
         \A i \in Invoices : request[r].written[i] # NoRow =>
           /\ invoice'[i].amountPaid = invoice[i].amountPaid
           /\ invoice'[i].amountCredited = invoice[i].amountCredited
  PROVE  Carries(r)'
<1> DEFINE t == request[r]
<1>1. \A i \in Invoices : t.written[i] # NoRow =>
        /\ i \in Affected(t.on) /\ i \notin t.todo /\ t.read[i] # NoRow
        /\ t.written[i] = Updated(t.op, t.on, i, t.read[i])'
  BY DEF Carries, Updated
<1>2. t.op = "voidInvoice" =>
        /\ t.read[t.on] # NoRow
        /\ t.on \in raced' \/ (t.read[t.on].amountPaid = 0 /\ t.read[t.on].amountCredited = 0)
  BY DEF Carries
<1>3. /\ t.op = "apply" =>
           /\ t.seen = IF t.on \in Payments THEN "NONE" ELSE "DRAFT"
           /\ \A i \in Invoices : t.read[i] # NoRow => Share[t.on][i] <= Outstanding(i, t.read[i])
      /\ t.op = "reverse" =>
           /\ t.seen \in IF t.on \in Payments THEN {"RECORDED"} ELSE {"DRAFT", "ISSUED"}
           /\ IF t.seen = "DRAFT" THEN t.todo = {} /\ t.written = Unread
              ELSE \A i \in Affected(t.on) : i \in t.todo \/ t.written[i] # NoRow
  BY DEF Carries
<1> QED BY <1>1, <1>2, <1>3 DEF Carries, Updated, Outstanding, Unread, Affected

LEMMA CarriesIdle ==
  ASSUME NEW r \in Requests, request'[r] = Idle
  PROVE  Carries(r)'
BY DEF Carries, Idle, Transaction, Unread

\* A transaction that has just begun has written nothing, and knows what its document was.
LEMMA CarriesBegun ==
  ASSUME Inv, Books, NEW r \in Requests,
         \/ \E p \in Payments : BeginPayment(r, p)
         \/ \E n \in Notes : BeginIssue(r, n)
         \/ \E d \in Documents : BeginVoid(r, d)
         \/ \E i \in Invoices : BeginVoidInvoice(r, i)
  PROVE  Carries(r)'
<1>a. /\ request \in [Requests -> Transactions] /\ KindsOK
      /\ Payments \cap Notes = {} /\ Payments \subseteq Documents /\ Notes \subseteq Documents
  BY ReceivablesAssumption DEF Inv, TypeOK, Documents
<1>b. \A i \in Invoices : Unread[i] = NoRow
  BY DEF Unread
<1>1. ASSUME NEW p \in Payments, BeginPayment(r, p) PROVE Carries(r)'
  <2> DEFINE read == [i \in Invoices |-> IF i \in Affected(p) THEN invoice[i] ELSE NoRow]
  <2>1. request'[r] = Transaction("apply", p, "NONE", Affected(p), read, Unread)
    BY <1>1, <1>a DEF BeginPayment
  <2>2. \A i \in Invoices : read[i] # NoRow => Share[p][i] <= Outstanding(i, read[i])
    BY <1>1 DEF BeginPayment, Eligible
  <2> HIDE DEF read
  <2>3. /\ request'[r].op = "apply" /\ request'[r].on = p /\ request'[r].seen = "NONE"
        /\ request'[r].read = read /\ request'[r].written = Unread
    BY <2>1 DEF Transaction
  <2> QED BY <2>2, <2>3, <1>b DEF Carries, Outstanding
<1>2. ASSUME NEW n \in Notes, BeginIssue(r, n) PROVE Carries(r)'
  <2>1. request'[r] = Transaction("apply", n, "DRAFT", Affected(n), Unread, Unread)
    BY <1>2, <1>a DEF BeginIssue
  <2>2. /\ request'[r].op = "apply" /\ request'[r].on = n /\ request'[r].seen = "DRAFT"
        /\ request'[r].read = Unread /\ request'[r].written = Unread
    BY <2>1 DEF Transaction
  <2>3. n \notin Payments
    BY <1>a
  <2> QED BY <2>2, <2>3, <1>b DEF Carries
<1>3. ASSUME NEW d \in Documents, BeginVoid(r, d) PROVE Carries(r)'
  <2> DEFINE todo == IF document[d] = "DRAFT" THEN {} ELSE Affected(d)
  <2>1. request'[r] = Transaction("reverse", d, document[d], todo, Unread, Unread)
    BY <1>3, <1>a DEF BeginVoid
  <2>2. document[d] \in IF d \in Payments THEN {"RECORDED"} ELSE {"DRAFT", "ISSUED"}
    BY <1>3, <1>a DEF BeginVoid, KindsOK, Documents
  <2>3. /\ request'[r].op = "reverse" /\ request'[r].on = d /\ request'[r].seen = document[d]
        /\ request'[r].todo = todo /\ request'[r].written = Unread
    BY <2>1 DEF Transaction
  <2> QED BY <2>2, <2>3, <1>b DEF Carries, Affected, Unread
<1>4. ASSUME NEW i \in Invoices, BeginVoidInvoice(r, i) PROVE Carries(r)'
  <2> DEFINE read == [Unread EXCEPT ![i] = invoice[i]]
  <2>1. request'[r] = Transaction("voidInvoice", i, "NONE", {}, read, Unread)
    BY <1>4, <1>a DEF BeginVoidInvoice
  <2>2. read[i] = invoice[i] /\ invoice[i] \in Rows /\ NoRow \notin Rows
    BY NoRowAssumption DEF Unread, Inv, TypeOK
  <2>3. i \in raced' \/ (invoice[i].amountPaid = 0 /\ invoice[i].amountCredited = 0)
    <3>1. raced' = raced
      BY <1>4 DEF BeginVoidInvoice
    <3>2. CASE invoice[i].status = "DRAFT" /\ i \notin raced
      <4>1. Tells(i, invoice[i])
        BY <3>2, TheProperties DEF Books
      <4>2. Outstanding(i, invoice[i]) = Total[i]
        BY <3>2, <4>1 DEF Tells
      <4>3. invoice[i].amountPaid \in Nat /\ invoice[i].amountCredited \in Nat /\ Total[i] \in Nat
        BY <2>2, ReceivablesAssumption DEF Rows
      <4> QED BY <4>2, <4>3 DEF Outstanding
    <3>3. \/ invoice[i].status = "DRAFT"
          \/ invoice[i].amountPaid = 0 /\ invoice[i].amountCredited = 0
      BY <1>4 DEF BeginVoidInvoice
    <3> QED BY <3>1, <3>2, <3>3
  <2> HIDE DEF read
  <2>4. /\ request'[r].op = "voidInvoice" /\ request'[r].on = i
        /\ request'[r].read = read /\ request'[r].written = Unread
    BY <2>1 DEF Transaction
  <2> QED BY <2>2, <2>3, <2>4, <1>b DEF Carries
<1> QED BY <1>1, <1>2, <1>3, <1>4

\* A read of an invoice is of one still to be written, and validated if it is to be applied.
LEMMA CarriesRead ==
  ASSUME Inv, Books, NEW r \in Requests, NEW i \in Invoices, ReadInvoice(r, i)
  PROVE  Carries(r)'
<1> DEFINE t == request[r]
           read == [t.read EXCEPT ![i] = invoice[i]]
<1>1. t \in Transactions /\ Carries(r) /\ Fits(r) /\ i \in t.todo
  BY DEF Inv, TypeOK, Books, TransactionsOK, ReadInvoice
<1>2. /\ request'[r].op = t.op /\ request'[r].on = t.on /\ request'[r].seen = t.seen
      /\ request'[r].todo = t.todo /\ request'[r].written = t.written /\ request'[r].read = read
      /\ invoice' = invoice /\ raced' = raced
  <2>1. request'[r] = [t EXCEPT !.read[i] = invoice[i]]
    BY DEF ReadInvoice, Inv, TypeOK
  <2>2. /\ request'[r].op = t.op /\ request'[r].on = t.on /\ request'[r].seen = t.seen
        /\ request'[r].todo = t.todo /\ request'[r].written = t.written
    BY <2>1, <1>1 DEF Transactions
  <2>3. request'[r].read = read
    BY <2>1, <1>1 DEF Transactions
  <2> QED BY <2>2, <2>3 DEF ReadInvoice
<1>3. t.read \in [Invoices -> Rows \cup {NoRow}]
  BY <1>1 DEF Transactions
<1>4. \A j \in Invoices : read[j] = IF j = i THEN invoice[i] ELSE t.read[j]
  BY <1>3
<1>5. t.op = "apply" => Share[t.on][i] <= Outstanding(i, invoice[i])
  BY DEF ReadInvoice, Eligible
<1>6. t.op # "voidInvoice"
  BY <1>1 DEF Fits
<1> HIDE DEF read
<1>7. \A j \in Invoices : t.written[j] # NoRow =>
        /\ j \in Affected(t.on) /\ j \notin t.todo /\ read[j] # NoRow
        /\ t.written[j] = Updated(t.op, t.on, j, read[j])
  BY <1>1, <1>4 DEF Carries
<1>8. /\ t.op = "apply" =>
           /\ t.seen = IF t.on \in Payments THEN "NONE" ELSE "DRAFT"
           /\ \A j \in Invoices : read[j] # NoRow => Share[t.on][j] <= Outstanding(j, read[j])
      /\ t.op = "reverse" =>
           /\ t.seen \in IF t.on \in Payments THEN {"RECORDED"} ELSE {"DRAFT", "ISSUED"}
           /\ IF t.seen = "DRAFT" THEN t.todo = {} /\ t.written = Unread
              ELSE \A j \in Affected(t.on) : j \in t.todo \/ t.written[j] # NoRow
  BY <1>1, <1>4, <1>5 DEF Carries
<1> QED BY <1>2, <1>6, <1>7, <1>8 DEF Carries, Updated, Outstanding, Unread, Affected

\* A write builds the row from what was read and from the row as it is.
LEMMA CarriesWrite ==
  ASSUME Inv, Books, NEW r \in Requests, NEW i \in Invoices, WriteInvoice(r, i)
  PROVE  Carries(r)'
<1> DEFINE t == request[r]
           row == Updated(t.op, t.on, i, t.read[i])
           written == [t.written EXCEPT ![i] = row]
           todo == t.todo \ {i}
<1>1. t \in Transactions /\ Carries(r) /\ Fits(r) /\ i \in t.todo /\ t.read[i] # NoRow
  BY DEF Inv, TypeOK, Books, TransactionsOK, WriteInvoice
<1>2. /\ request'[r].op = t.op /\ request'[r].on = t.on /\ request'[r].seen = t.seen
      /\ request'[r].todo = todo /\ request'[r].written = written /\ request'[r].read = t.read
      /\ invoice' = invoice /\ raced' = raced
  <2> HIDE DEF row
  <2>1. request'[r] = [t EXCEPT !.todo = @ \ {i}, !.written[i] = row]
    BY DEF WriteInvoice, Inv, TypeOK, row
  <2>2. /\ request'[r].op = t.op /\ request'[r].on = t.on /\ request'[r].seen = t.seen
        /\ request'[r].todo = todo /\ request'[r].read = t.read
    BY <2>1, <1>1 DEF Transactions
  <2>3. request'[r].written = written
    BY <2>1, <1>1 DEF Transactions
  <2> QED BY <2>2, <2>3 DEF WriteInvoice
<1>3. t.written \in [Invoices -> Rows \cup {NoRow}]
  BY <1>1 DEF Transactions
<1>4. \A j \in Invoices : written[j] = IF j = i THEN row ELSE t.written[j]
  BY <1>3
<1>5. /\ t.op \in {"apply", "reverse"} /\ i \in Affected(t.on)
      /\ row # NoRow
  <2>1. t.op \in {"apply", "reverse"} /\ i \in Affected(t.on)
    BY <1>1 DEF Fits, Transactions
  <2>2. row \in Rows
    <3>1. t.on \in Documents /\ t.read[i] \in Rows /\ Bounded(i, t.read[i])
      BY <1>1, <2>1 DEF Fits, Transactions
    <3>2. t.op = "apply" => Share[t.on][i] <= Outstanding(i, t.read[i])
      BY <1>1 DEF Carries
    <3> QED BY <2>1, <3>1, <3>2, UpdatedRow DEF Inv
  <2> QED BY <2>1, <2>2, NoRowAssumption
<1> HIDE DEF row, written
<1>6. \A j \in Invoices : written[j] # NoRow =>
        /\ j \in Affected(t.on) /\ j \notin todo /\ t.read[j] # NoRow
        /\ written[j] = Updated(t.op, t.on, j, t.read[j])
  BY <1>1, <1>4, <1>5 DEF Carries, row
<1>7. /\ t.op = "apply" =>
           /\ t.seen = IF t.on \in Payments THEN "NONE" ELSE "DRAFT"
           /\ \A j \in Invoices : t.read[j] # NoRow => Share[t.on][j] <= Outstanding(j, t.read[j])
      /\ t.op = "reverse" =>
           /\ t.seen \in IF t.on \in Payments THEN {"RECORDED"} ELSE {"DRAFT", "ISSUED"}
           /\ t.seen # "DRAFT"
           /\ \A j \in Affected(t.on) : j \in todo \/ written[j] # NoRow
  BY <1>1, <1>4, <1>5 DEF Carries, Affected
<1> HIDE DEF todo
<1> QED BY <1>2, <1>5, <1>6, <1>7 DEF Carries, Updated, Outstanding, Unread, Affected

\* No step takes an invoice out of what the raced ones are.
LEMMA RacedGrows == [Next]_vars => raced \subseteq raced'
BY DEF Next, vars, BeginPayment, BeginIssue, BeginVoid, ReadInvoice, WriteInvoice, Commit, Rollback,
   BeginVoidInvoice, VoidInvoice, CreateNote, IssueInvoice, SweepOverdue

\* The amounts of a row that a transaction has written stay as they are until it ends.
LEMMA LockedKeeps ==
  ASSUME Inv, Books, [Next]_vars, NEW r \in Requests, request'[r] = request[r] \/ ~Commit(r),
         NEW i \in Invoices, request[r].written[i] # NoRow
  PROVE  \/ Commit(r)
         \/ /\ invoice'[i].amountPaid = invoice[i].amountPaid
            /\ invoice'[i].amountCredited = invoice[i].amountCredited
<1>a. invoice \in [Invoices -> Rows]
  BY DEF Inv, TypeOK
<1>b. Locked(i)
  BY DEF Locked
<1>1. ASSUME NEW s \in Requests, Commit(s), s # r
      PROVE  invoice'[i] = invoice[i]
  <2>1. request[s].written[i] = NoRow
    BY <1>1 DEF Books, OneWriter
  <2> QED BY <1>1, <2>1 DEF Commit
<1>2. ASSUME NEW j \in Invoices, IssueInvoice(j) \/ SweepOverdue(j)
      PROVE  invoice'[i] = invoice[i]
  <2>1. j # i
    BY <1>2, <1>b DEF IssueInvoice, SweepOverdue
  <2> QED BY <1>2, <1>a, <2>1 DEF IssueInvoice, SweepOverdue
<1>3. ASSUME NEW s \in Requests, VoidInvoice(s)
      PROVE  invoice'[i] = invoice[i]
  <2>1. request[s].on # i
    BY <1>3, <1>b DEF VoidInvoice
  <2> QED BY <1>3, <1>a, <2>1 DEF VoidInvoice
<1>4. ASSUME UNCHANGED invoice
      PROVE  invoice'[i] = invoice[i]
  BY <1>4
<1> QED BY <1>1, <1>2, <1>3, <1>4 DEF Next, vars, BeginPayment, BeginIssue, BeginVoid, ReadInvoice,
        WriteInvoice, Rollback, BeginVoidInvoice, CreateNote

LEMMA CarriesInductive ==
  ASSUME Inv, Books, [Next]_vars, NEW r \in Requests
  PROVE  Carries(r)'
<1>a. request \in [Requests -> Transactions] /\ Carries(r)
  BY DEF Inv, TypeOK, Books
<1>1. ASSUME request'[r] = request[r], ~Commit(r) PROVE Carries(r)'
  BY <1>a, <1>1, RacedGrows, LockedKeeps, CarriesKept
<1>2. ASSUME NEW s \in Requests,
             \/ \E p \in Payments : BeginPayment(s, p)
             \/ \E n \in Notes : BeginIssue(s, n)
             \/ \E d \in Documents : BeginVoid(s, d)
             \/ \E i \in Invoices : BeginVoidInvoice(s, i)
      PROVE  Carries(r)'
  <2>1. CASE s = r
    BY <1>2, <2>1, CarriesBegun
  <2>2. CASE s # r
    <3>1. request'[r] = request[r] /\ invoice' = invoice
      BY <1>2, <1>a, <2>2 DEF BeginPayment, BeginIssue, BeginVoid, BeginVoidInvoice
    <3> QED BY <3>1, <1>a, RacedGrows, CarriesKept
  <2> QED BY <2>1, <2>2
<1>3. ASSUME NEW s \in Requests, NEW i \in Invoices, ReadInvoice(s, i) \/ WriteInvoice(s, i)
      PROVE  Carries(r)'
  <2>1. CASE s = r
    BY <1>3, <2>1, CarriesRead, CarriesWrite
  <2>2. CASE s # r
    <3>1. request'[r] = request[r] /\ invoice' = invoice
      BY <1>3, <1>a, <2>2 DEF ReadInvoice, WriteInvoice
    <3> QED BY <3>1, <1>a, RacedGrows, CarriesKept
  <2> QED BY <2>1, <2>2
<1>4. ASSUME NEW s \in Requests, Commit(s) \/ Rollback(s) \/ VoidInvoice(s)
      PROVE  Carries(r)'
  <2>1. CASE s = r
    <3>1. request'[r] = Idle
      BY <1>4, <1>a, <2>1 DEF Commit, Rollback, VoidInvoice
    <3> QED BY <3>1, CarriesIdle
  <2>2. CASE s # r
    <3>1. request'[r] = request[r]
      BY <1>4, <1>a, <2>2 DEF Commit, Rollback, VoidInvoice
    <3>2. CASE ~Commit(r)
      BY <3>1, <3>2, <1>1
    <3>3. CASE Commit(r)
      <4>1. request'[r] = Idle
        BY <3>3, <1>a DEF Commit
      <4> QED BY <4>1, CarriesIdle
    <3> QED BY <3>2, <3>3
  <2> QED BY <2>1, <2>2
<1>5. ASSUME UNCHANGED request PROVE Carries(r)'
  <2>1. CASE Commit(r)
    <3>1. request'[r] = Idle
      BY <2>1, <1>a DEF Commit
    <3> QED BY <3>1, CarriesIdle
  <2>2. CASE ~Commit(r)
    BY <1>5, <2>2, <1>1
  <2> QED BY <2>1, <2>2
<1> QED BY <1>2, <1>3, <1>4, <1>5 DEF Next, vars, CreateNote, IssueInvoice, SweepOverdue

\* A row is written while no one has it locked.
LEMMA OneWriterInductive ==
  ASSUME Inv, Books, [Next]_vars
  PROVE  OneWriter'
<1>a. request \in [Requests -> Transactions] /\ OneWriter /\ \A i \in Invoices : Unread[i] = NoRow
  BY DEF Inv, TypeOK, Books, Unread
<1>1. ASSUME NEW s \in Requests, NEW i \in Invoices, WriteInvoice(s, i) PROVE OneWriter'
  <2> DEFINE row == Updated(request[s].op, request[s].on, i, request[s].read[i])
  <2> HIDE DEF row
  <2>1. request'[s] = [request[s] EXCEPT !.todo = @ \ {i}, !.written[i] = row]
    BY <1>1, <1>a DEF WriteInvoice, row
  <2>2. \A j \in Invoices : j # i => request'[s].written[j] = request[s].written[j]
    BY <2>1, <1>a DEF Transactions
  <2>3. \A r \in Requests : r # s => request'[r] = request[r]
    BY <1>1, <1>a DEF WriteInvoice
  <2>4. \A r \in Requests : request[r].written[i] = NoRow
    BY <1>1 DEF WriteInvoice, Locked
  <2> QED BY <2>2, <2>3, <2>4, <1>a DEF OneWriter
<1>2. ASSUME \A r \in Requests : \/ request'[r].written = request[r].written
                                 \/ request'[r].written = Unread
      PROVE  OneWriter'
  BY <1>2, <1>a DEF OneWriter
<1>3. ASSUME NEW s \in Requests,
             \/ \E p \in Payments : BeginPayment(s, p)
             \/ \E n \in Notes : BeginIssue(s, n)
             \/ \E d \in Documents : BeginVoid(s, d)
             \/ \E i \in Invoices : BeginVoidInvoice(s, i)
             \/ Commit(s) \/ Rollback(s) \/ VoidInvoice(s)
      PROVE  OneWriter'
  <2>1. request'[s].written = Unread
    BY <1>3, <1>a DEF BeginPayment, BeginIssue, BeginVoid, BeginVoidInvoice, Commit, Rollback,
       VoidInvoice, Idle, Transaction
  <2>2. \A r \in Requests : r # s => request'[r] = request[r]
    BY <1>3, <1>a DEF BeginPayment, BeginIssue, BeginVoid, BeginVoidInvoice, Commit, Rollback,
       VoidInvoice
  <2> QED BY <2>1, <2>2, <1>2
<1>4. ASSUME NEW s \in Requests, NEW i \in Invoices, ReadInvoice(s, i) PROVE OneWriter'
  <2>1. request'[s] = [request[s] EXCEPT !.read[i] = invoice[i]]
    BY <1>4, <1>a DEF ReadInvoice
  <2>2. request'[s].written = request[s].written
    BY <2>1, <1>a DEF Transactions
  <2>3. \A r \in Requests : r # s => request'[r] = request[r]
    BY <1>4, <1>a DEF ReadInvoice
  <2> QED BY <2>2, <2>3, <1>2
<1>5. ASSUME UNCHANGED request PROVE OneWriter'
  BY <1>5, <1>2
<1> QED BY <1>1, <1>3, <1>4, <1>5 DEF Next, vars, CreateNote, IssueInvoice, SweepOverdue


\* Every other step leaves the sums as they are; a sweep and an issue change a status only, and a
\* void finds an invoice to which nothing is applied.
LEMMA OthersExact ==
  ASSUME Inv, Books, [Next]_vars, \A r \in Requests : ~Commit(r), NEW i \in Invoices, i \notin raced'
  PROVE  /\ Exact(i, invoice'[i], Paid(i)', Credited(i)')
         /\ Tells(i, invoice'[i])
<1> DEFINE paid == Paid(i)
           credited == Credited(i)
<1>a. /\ TypeOK /\ i \notin raced /\ invoice[i] \in Rows /\ Total[i] \in Nat /\ Total[i] > 0
      /\ Exact(i, invoice[i], paid, credited) /\ Tells(i, invoice[i])
  BY RacedGrows, TheProperties, ReceivablesAssumption DEF Inv, TypeOK, Books
<1>1. Paid(i)' = paid /\ Credited(i)' = credited
  <2>1. CASE document' = document
    BY <2>1 DEF Paid, Credited, AppliedOf
  <2>2. ASSUME NEW n \in Notes, CreateNote(n)
        PROVE  Paid(i)' = paid /\ Credited(i)' = credited
    <3>1. /\ n \in Documents /\ n \notin Payments /\ document[n] = "NONE" /\ document'[n] = "DRAFT"
          /\ \A x \in Documents \ {n} : document'[x] = document[x]
      BY <2>2, <1>a, ReceivablesAssumption DEF CreateNote, Documents, TypeOK
    <3> DEFINE share == Share[n][i]
    <3>2. PICK rest \in Nat :
            /\ paid = rest + IF n \in Payments /\ document[n] = "RECORDED" THEN share ELSE 0
            /\ Paid(i)' = rest + IF n \in Payments /\ document'[n] = "RECORDED" THEN share ELSE 0
      BY <3>1, <1>a, PaidStep
    <3>3. PICK more \in Nat :
            /\ credited = more + IF n \in Notes /\ document[n] = "ISSUED" THEN share ELSE 0
            /\ Credited(i)' = more + IF n \in Notes /\ document'[n] = "ISSUED" THEN share ELSE 0
      BY <3>1, <1>a, CreditedStep
    <3> QED BY <3>1, <3>2, <3>3
  <2> QED BY <2>1, <2>2 DEF Next, vars, BeginPayment, BeginIssue, BeginVoid, ReadInvoice, WriteInvoice,
          Rollback, BeginVoidInvoice, VoidInvoice, IssueInvoice, SweepOverdue
<1> HIDE DEF paid, credited
<1>2. CASE invoice'[i] = invoice[i]
  BY <1>a, <1>1, <1>2
<1>3. ASSUME NEW status, invoice'[i] = [invoice[i] EXCEPT !.status = status]
      PROVE  /\ Exact(i, invoice'[i], Paid(i)', Credited(i)')
             /\ invoice'[i].status = status
             /\ Outstanding(i, invoice'[i]) = Outstanding(i, invoice[i])
  <2>1. /\ invoice'[i].amountPaid = invoice[i].amountPaid
        /\ invoice'[i].amountCredited = invoice[i].amountCredited
        /\ invoice'[i].status = status
    BY <1>3, <1>a DEF Rows
  <2>2. Outstanding(i, invoice'[i]) = Outstanding(i, invoice[i])
    BY <2>1 DEF Outstanding
  <2> QED BY <2>1, <2>2, <1>a, <1>1 DEF Exact
<1>4. CASE IssueInvoice(i)
  <2>1. invoice[i].status = "DRAFT" /\ invoice'[i] = [invoice[i] EXCEPT !.status = "ISSUED"]
    BY <1>4, <1>a DEF IssueInvoice, TypeOK
  <2>2. Outstanding(i, invoice[i]) = Total[i]
    BY <2>1, <1>a DEF Tells
  <2> QED BY <2>1, <2>2, <1>3 DEF Tells
<1>5. CASE SweepOverdue(i)
  <2>1. /\ invoice[i].status \in {"ISSUED", "PARTIALLY_PAID"}
        /\ invoice'[i] = [invoice[i] EXCEPT !.status = "OVERDUE"]
    BY <1>5, <1>a DEF SweepOverdue, TypeOK
  <2>2. Outstanding(i, invoice[i]) > 0
    BY <2>1, <1>a DEF Tells
  <2> QED BY <2>1, <2>2, <1>3 DEF Tells
<1>6. ASSUME NEW r \in Requests, VoidInvoice(r), request[r].on = i, invoice[i].status \in Voidable
      PROVE  /\ Exact(i, invoice'[i], Paid(i)', Credited(i)')
             /\ Tells(i, invoice'[i])
  <2>1. invoice'[i] = [invoice[i] EXCEPT !.status = "VOID"] /\ SameBalance(request[r].read[i], invoice[i])
    BY <1>6, <1>a DEF VoidInvoice, TypeOK
  <2>2. request[r].read[i].amountPaid = 0 /\ request[r].read[i].amountCredited = 0
    BY <1>6, <1>a DEF Books, Carries, VoidInvoice
  <2>3. Outstanding(i, invoice[i]) = Total[i]
    BY <2>1, <2>2, <1>a DEF SameBalance, Outstanding
  <2> QED BY <2>1, <2>3, <1>3 DEF Tells
<1>7. ASSUME NEW r \in Requests, VoidInvoice(r), request[r].on # i \/ invoice[i].status \notin Voidable
      PROVE  invoice'[i] = invoice[i]
  BY <1>7, <1>a DEF VoidInvoice, TypeOK
<1>8. ASSUME NEW j \in Invoices, j # i, IssueInvoice(j) \/ SweepOverdue(j)
      PROVE  invoice'[i] = invoice[i]
  BY <1>8, <1>a DEF IssueInvoice, SweepOverdue, TypeOK
<1> QED BY <1>2, <1>4, <1>5, <1>6, <1>7, <1>8 DEF Next, vars, BeginPayment, BeginIssue, BeginVoid,
        ReadInvoice, WriteInvoice, Rollback, BeginVoidInvoice, CreateNote

\* At first there is nothing to add up, and no transaction.
LEMMA BooksInitially == Init => Books
<1> SUFFICES ASSUME Init PROVE Books
  OBVIOUS
<1>1. ASSUME NEW i \in Invoices
      PROVE  Exact(i, invoice[i], Paid(i), Credited(i)) /\ Tells(i, invoice[i])
  <2>1. Paid(i) = 0 /\ Credited(i) = 0
    <3>1. {d \in Payments : document[d] = "RECORDED"} = {} /\ {d \in Notes : document[d] = "ISSUED"} = {}
      BY DEF Init, Documents
    <3> QED BY <3>1, SumEmpty DEF Paid, Credited, AppliedOf
  <2>2. /\ invoice[i].amountPaid = 0 /\ invoice[i].amountCredited = 0
        /\ invoice[i].status = "DRAFT" /\ Total[i] \in Nat
    BY ReceivablesAssumption DEF Init
  <2> QED BY <2>1, <2>2 DEF Exact, Tells, Outstanding
<1>2. \A r \in Requests : request[r] = Idle
  BY DEF Init
<1>3. OneWriter
  BY <1>2 DEF OneWriter, Idle, Transaction, Unread
<1>4. \A r \in Requests : Carries(r)
  BY <1>2 DEF Carries, Idle, Transaction, Unread
<1> QED BY <1>1, <1>3, <1>4, TheProperties DEF Books

LEMMA BooksStepwise == Inv /\ Books /\ [Next]_vars => Books'
<1> SUFFICES ASSUME Inv, Books, [Next]_vars PROVE Books'
  OBVIOUS
<1>1. ASSUME NEW i \in Invoices, i \notin raced'
      PROVE  Exact(i, invoice'[i], Paid(i)', Credited(i)') /\ Tells(i, invoice'[i])
  <2>1. CASE \E r \in Requests : Commit(r)
    BY <1>1, <2>1, CommitWrittenExact, CommitOtherExact
  <2>2. CASE \A r \in Requests : ~Commit(r)
    BY <1>1, <2>2, OthersExact
  <2> QED BY <2>1, <2>2
<1>2. LedgerExact' /\ StatusTellsBalance'
  <2>1. LedgerExact' <=> \A i \in Invoices \ raced' : Exact(i, invoice'[i], Paid(i)', Credited(i)')
    BY DEF LedgerExact, Exact, Paid, Credited, Outstanding
  <2>2. StatusTellsBalance' <=> \A i \in Invoices \ raced' : Tells(i, invoice'[i])
    BY DEF StatusTellsBalance, Tells, Outstanding
  <2> QED BY <1>1, <2>1, <2>2
<1> QED BY <1>2, OneWriterInductive, CarriesInductive DEF Books

-----------------------------------------------------------------------------
(* Theorems *)

\* The inductive invariant holds in every state of every behaviour, whatever
\* transactions overlap.
THEOREM Invariance == Spec => []Inv
<1>1. Inv /\ [Next]_vars => Inv'
  BY TypeOKInductive, AmountsInductive, JournalInductive, KindsInductive,
     TransactionsInductive, KeysInductive DEF Inv
<1>. QED
  BY InitImpliesInv, <1>1, PTL DEF Spec

\* Rows and transactions are well typed, amounts are never negative.
THEOREM TypeCorrect == Spec => []TypeOK
<1>1. Inv => TypeOK
  BY DEF Inv
<1>. QED
  BY Invariance, <1>1, PTL

\* However transactions overlap, payments alone and credit notes alone never exceed
\* an invoice's total.
THEOREM Bounds == Spec => []AmountsBounded
<1>1. Inv => AmountsBounded
  BY DEF Inv
<1>. QED
  BY Invariance, <1>1, PTL

\* The AR journal follows the documents: one entry for each payment ever recorded and
\* each note in force, and none against an invoice that was not issued.
THEOREM JournalFollows == Spec => []JournalMatches
<1>1. Inv => JournalMatches
  BY DEF Inv
<1>. QED
  BY Invariance, <1>1, PTL

\* Voided payments stay voided even when their creation is retried, nothing returns to
\* draft, and no journal entry disappears.
THEOREM Corrections == Spec => CorrectionsAreFinal
<1>. DEFINE Step ==
       /\ journal \subseteq journal'
       /\ \A d \in Documents :
            /\ document[d] = "VOIDED" => document'[d] = "VOIDED"
            /\ document[d] \in {"ISSUED", "VOID"} => document'[d] \in {"ISSUED", "VOID"}
       /\ \A i \in Invoices :
            invoice'[i].status = "DRAFT" => invoice[i].status = "DRAFT"
<1>1. ASSUME Inv, [Next]_vars PROVE Step
  <2>a. /\ invoice \in [Invoices -> Rows] /\ document \in [Documents -> DocumentStatuses] /\ KindsOK
        /\ Payments \cap Notes = {} /\ Documents = Payments \cup Notes
    BY <1>1, ReceivablesAssumption DEF Inv, TypeOK, Documents
  <2>1. ASSUME NEW r \in Requests, Commit(r)
        PROVE  Step
    <3>1. journal \subseteq journal'
      BY <2>1 DEF Commit
    <3>2. ASSUME NEW d \in Documents
          PROVE  /\ document[d] = "VOIDED" => document'[d] = "VOIDED"
                 /\ document[d] \in {"ISSUED", "VOID"} => document'[d] \in {"ISSUED", "VOID"}
      <4>1. CASE d # request[r].on
        BY <4>1, <2>1, <2>a DEF Commit
      <4>2. CASE d = request[r].on /\ d \in Payments
        <5>1. document'[d] = FinalStatus(request[r].op, d)
          BY <4>2, <2>1, <2>a DEF Commit
        <5>2. request[r].op = "apply" => document[d] = "NONE"
          BY <4>2, <1>1, <2>1, CommitHoldsKey
        <5>. QED
          BY <4>2, <5>1, <5>2, <2>a DEF FinalStatus, KindsOK
      <4>3. CASE d = request[r].on /\ d \in Notes
        BY <4>3, <2>1, <2>a DEF Commit, FinalStatus, KindsOK
      <4>. QED
        BY <4>1, <4>2, <4>3, <2>a
    <3>3. ASSUME NEW i \in Invoices
          PROVE  invoice'[i].status = "DRAFT" => invoice[i].status = "DRAFT"
      BY <1>1, <2>1, CommitWrites DEF Derived
    <3>. QED
      BY <3>1, <3>2, <3>3
  <2>2. ASSUME NEW n \in Notes, CreateNote(n)
        PROVE  Step
    BY <2>2, <2>a DEF CreateNote
  <2>3. ASSUME NEW i \in Invoices, IssueInvoice(i) \/ SweepOverdue(i)
        PROVE  Step
    BY <2>3, <2>a DEF IssueInvoice, SweepOverdue, Rows
  <2>4. ASSUME NEW r \in Requests, VoidInvoice(r)
        PROVE  Step
    BY <2>4, <2>a DEF VoidInvoice, Rows
  <2>5. ASSUME UNCHANGED <<invoice, document, journal>>
        PROVE  Step
    BY <2>5
  <2>. QED
    BY <1>1, <2>1, <2>2, <2>3, <2>4, <2>5 DEF Next, vars, BeginPayment, BeginIssue, BeginVoid,
       ReadInvoice, WriteInvoice, Rollback, BeginVoidInvoice
<1>2. Inv /\ [Next]_vars => Step
  BY <1>1
<1>. QED
  BY Invariance, <1>2, PTL DEF Spec, CorrectionsAreFinal

\* The books balance: what transactions carry is what their commit needs, on every invoice
\* that no transaction wrote from stale reads.
THEOREM BooksKept == Spec => []Books
<1>1. Inv /\ Books /\ [Next]_vars => Books'
  BY BooksStepwise
<1>. QED
  BY Invariance, BooksInitially, <1>1, PTL DEF Spec

\* amountPaid and amountCredited are the sums of the documents in force and leave nothing
\* over-applied, for any number of payments and notes and however transactions overlap, unless a
\* stale read reached the invoice: drift has no other source.
THEOREM LedgerFollowsDocuments == Spec => []LedgerExact
<1>1. Books => LedgerExact
  BY DEF Books
<1>. QED
  BY BooksKept, <1>1, PTL

\* Under the same condition the status tells the balance, in whatever order documents, sweeps,
\* voids and reversals come.
THEOREM StatusFollowsBalance == Spec => []StatusTellsBalance
<1>1. Books => StatusTellsBalance
  BY DEF Books
<1>. QED
  BY BooksKept, <1>1, PTL

=============================================================================
