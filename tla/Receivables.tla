------------------------------ MODULE Receivables ------------------------------
(***************************************************************************)
(* Customer invoices and the documents applied to them: payments with      *)
(* their allocations (apps/api/src/finance/payment.repository.ts), credit  *)
(* notes (credit-note.repository.ts) and the status of the invoice itself  *)
(* (invoice.repository.ts, invoice.service.ts).                            *)
(*                                                                         *)
(* Every operation is a PostgreSQL transaction at READ COMMITTED: a read   *)
(* returns the last committed row and takes no lock, an update locks its   *)
(* row until the end of the transaction, and the new values are ABSOLUTE,  *)
(* computed from the row as it was read.  An action is one statement of a  *)
(* transaction (or the commit with the statements that end it).  Amounts   *)
(* are whole cents, which is what roundCurrency makes of them.             *)
(***************************************************************************)
EXTENDS Integers, Sums

CONSTANTS
  Requests,  \* slots for HTTP requests in flight
  Invoices,  \* invoices of one customer
  Payments,  \* payments a client intends, each under its idempotency key
  Notes,     \* credit notes
  Total,     \* Total[i]: Invoice.total
  Share,     \* Share[d][i]: what document d applies to invoice i, 0 if nothing
  NoRow,     \* in place of a row that was not read, or not written
  None       \* in place of the document of a slot that is not in use

Documents == Payments \cup Notes
Affected(d) == {i \in Invoices : Share[d][i] > 0}

ASSUME ReceivablesAssumption ==
  /\ IsFiniteSet(Payments) /\ IsFiniteSet(Notes)
  /\ Payments \cap Notes = {} /\ Invoices \cap Documents = {}
  /\ Total \in [Invoices -> Nat \ {0}]
  /\ Share \in [Documents -> [Invoices -> Nat]]
  /\ \A d \in Documents : Affected(d) # {}
  /\ \A n \in Notes : \A i, j \in Affected(n) : i = j

InvoiceStatuses == {"DRAFT", "ISSUED", "PARTIALLY_PAID", "PAID", "OVERDUE", "VOID"}
Rows == [status : InvoiceStatuses, amountPaid : Nat, amountCredited : Nat]
ASSUME NoRowAssumption == NoRow \notin Rows /\ None \notin Documents \cup Invoices

VARIABLES
  invoice,   \* invoice[i], the committed row
  document,  \* document[d]: status of the payment or credit note, NONE before its insert
  journal,   \* invoices and documents with a journal entry against the AR account
  request,   \* request[r]: the transaction in slot r
  raced      \* history: invoices written from a row, or for a document, no longer current

vars == <<invoice, document, journal, request, raced>>

DocumentStatuses == {"NONE", "DRAFT", "RECORDED", "ISSUED", "VOIDED", "VOID"}
Unread == [i \in Invoices |-> NoRow]
\* A transaction: what it does to which document, the status it saw of it, the
\* invoices it has still to write, the rows it read and those it wrote.
Transaction(op, on, seen, todo, read, written) ==
  [op |-> op, on |-> on, seen |-> seen, todo |-> todo, read |-> read, written |-> written]
Idle == Transaction("idle", None, "NONE", {}, Unread, Unread)
Transactions ==
  [op : {"idle", "apply", "reverse", "voidInvoice"},
   on : Documents \cup Invoices \cup {None}, seen : DocumentStatuses,
   todo : SUBSET Invoices,
   read : [Invoices -> Rows \cup {NoRow}], written : [Invoices -> Rows \cup {NoRow}]]

Init ==
  /\ invoice = [i \in Invoices |-> [status |-> "DRAFT", amountPaid |-> 0, amountCredited |-> 0]]
  /\ document = [d \in Documents |-> "NONE"]
  /\ journal = {}
  /\ request = [r \in Requests |-> Idle]
  /\ raced = {}

-----------------------------------------------------------------------------
(* Rows and amounts *)

Payable == {"ISSUED", "PARTIALLY_PAID", "OVERDUE"}
Outstanding(i, row) == Total[i] - row.amountPaid - row.amountCredited
Eligible(d, i) ==
  /\ invoice[i].status \in Payable
  /\ Share[d][i] <= Outstanding(i, invoice[i])

\* Mutant: an exactly settled invoice is not PAID.
StatusForStrictBug(i, row) ==
  LET applied == row.amountPaid + row.amountCredited
  IN  IF applied > Total[i] THEN "PAID"
      ELSE IF applied > 0 THEN "PARTIALLY_PAID" ELSE "ISSUED"

StatusFor(i, row) ==
  LET applied == row.amountPaid + row.amountCredited
  IN  IF applied >= Total[i] THEN "PAID"
      ELSE IF applied > 0 THEN "PARTIALLY_PAID" ELSE "ISSUED"

Less(amount, share) == IF amount > share THEN amount - share ELSE 0
Amount(op, amount, share) == IF op = "apply" THEN amount + share ELSE Less(amount, share)

\* The row an update leaves: its columns come from the row as read, the other
\* document kind's column keeps its committed value.
Updated(op, d, i, read) ==
  LET paid == IF d \in Payments THEN Amount(op, read.amountPaid, Share[d][i])
              ELSE read.amountPaid
      credited == IF d \in Notes THEN Amount(op, read.amountCredited, Share[d][i])
                  ELSE read.amountCredited
      status == StatusFor(i, [amountPaid |-> paid, amountCredited |-> credited])
  IN  [status |-> status,
       amountPaid |-> IF d \in Payments THEN paid ELSE invoice[i].amountPaid,
       amountCredited |-> IF d \in Notes THEN credited ELSE invoice[i].amountCredited]

Locked(i) == \E r \in Requests : request[r].written[i] # NoRow
\* The unique (customerId, idempotencyKey) lets one transaction insert a payment.
KeyFree(r) ==
  request[r].op = "apply" /\ request[r].on \in Payments =>
    /\ document[request[r].on] = "NONE"
    /\ \A s \in Requests \ {r} :
         request[s].op = "apply" /\ request[s].on = request[r].on => request[s].written = Unread

-----------------------------------------------------------------------------
(* Documents *)

\* PaymentRepository.create up to its validation.  A key already used returns the
\* payment and changes nothing.
BeginPayment(r, p) ==
  /\ request[r] = Idle
  /\ document[p] = "NONE"
  /\ \A i \in Affected(p) : Eligible(p, i)
  /\ request' = [request EXCEPT ![r] =
       Transaction("apply", p, "NONE", Affected(p),
                   [i \in Invoices |-> IF i \in Affected(p) THEN invoice[i] ELSE NoRow], Unread)]
  /\ UNCHANGED <<invoice, document, journal, raced>>

\* CreditNoteService.create: a draft has no effect on its invoice.
CreateNote(n) ==
  /\ document[n] = "NONE"
  /\ \A i \in Affected(n) : Eligible(n, i)
  /\ document' = [document EXCEPT ![n] = "DRAFT"]
  /\ UNCHANGED <<invoice, journal, request, raced>>

BeginIssue(r, n) ==
  /\ request[r] = Idle
  /\ document[n] = "DRAFT"
  /\ request' = [request EXCEPT ![r] =
       Transaction("apply", n, "DRAFT", Affected(n), Unread, Unread)]
  /\ UNCHANGED <<invoice, document, journal, raced>>

\* Mutant: only the first allocation of a payment is reversed.
BeginVoidFirstAllocationBug(r, d) ==
  /\ request[r] = Idle
  /\ document[d] \in {"RECORDED", "DRAFT", "ISSUED"}
  /\ request' = [request EXCEPT ![r] =
       Transaction("reverse", d, document[d],
                   IF document[d] = "DRAFT" THEN {} ELSE {CHOOSE i \in Affected(d) : TRUE},
                   Unread, Unread)]
  /\ UNCHANGED <<invoice, document, journal, raced>>

\* PaymentRepository.void and CreditNoteRepository.void: a draft has nothing to reverse.
BeginVoid(r, d) ==
  /\ request[r] = Idle
  /\ document[d] \in {"RECORDED", "DRAFT", "ISSUED"}
  /\ request' = [request EXCEPT ![r] =
       Transaction("reverse", d, document[d],
                   IF document[d] = "DRAFT" THEN {} ELSE Affected(d), Unread, Unread)]
  /\ UNCHANGED <<invoice, document, journal, raced>>

\* A void, and the issue of a note, read an invoice just before they update it.
ReadInvoice(r, i) ==
  /\ i \in request[r].todo
  /\ \A j \in request[r].todo : request[r].read[j] = NoRow
  /\ request[r].op = "apply" => Eligible(request[r].on, i)
  /\ request' = [request EXCEPT ![r].read[i] = invoice[i]]
  /\ UNCHANGED <<invoice, document, journal, raced>>

WriteInvoice(r, i) ==
  /\ i \in request[r].todo
  /\ request[r].read[i] # NoRow
  /\ ~Locked(i) /\ KeyFree(r)
  /\ request' = [request EXCEPT
       ![r].todo = @ \ {i},
       ![r].written[i] = Updated(request[r].op, request[r].on, i, request[r].read[i])]
  /\ UNCHANGED <<invoice, document, journal, raced>>

SameBalance(a, b) ==
  /\ a.amountPaid = b.amountPaid /\ a.amountCredited = b.amountCredited
  /\ a.status = "VOID" <=> b.status = "VOID"

StaleInvoices(r) ==
  {i \in Invoices : /\ request[r].written[i] # NoRow
                    /\ ~SameBalance(request[r].read[i], invoice[i])}
    \cup (IF document[request[r].on] = request[r].seen THEN {} ELSE Affected(request[r].on))

FinalStatus(op, d) ==
  IF op = "apply" THEN (IF d \in Payments THEN "RECORDED" ELSE "ISSUED")
  ELSE (IF d \in Payments THEN "VOIDED" ELSE "VOID")

\* Mutant: the issue of a credit note posts nothing.
PostedByPaymentsBug(op, d) == IF op = "apply" /\ d \in Payments THEN {d} ELSE {}
\* Applying posts a journal entry, once per document; reversing posts none.
Posted(op, d) == IF op = "apply" THEN {d} ELSE {}

Commit(r) ==
  LET t == request[r]
  IN  /\ t.op \in {"apply", "reverse"} /\ t.todo = {}
      /\ invoice' = [i \in Invoices |-> IF t.written[i] = NoRow THEN invoice[i] ELSE t.written[i]]
      /\ document' = [document EXCEPT ![t.on] = FinalStatus(t.op, t.on)]
      /\ journal' = journal \cup Posted(t.op, t.on)
      /\ raced' = raced \cup StaleInvoices(r)
      /\ request' = [request EXCEPT ![r] = Idle]

\* A failed check, a closed period, a journal number or a key that another
\* transaction took, a deadlock, a lost connection: nothing is written.
Rollback(r) ==
  /\ request[r] # Idle
  /\ request' = [request EXCEPT ![r] = Idle]
  /\ UNCHANGED <<invoice, document, journal, raced>>

-----------------------------------------------------------------------------
(* The invoice's own status *)

IssueInvoice(i) ==
  /\ invoice[i].status = "DRAFT"
  /\ ~Locked(i)
  /\ invoice' = [invoice EXCEPT ![i].status = "ISSUED"]
  /\ journal' = journal \cup {i}
  /\ UNCHANGED <<document, request, raced>>

\* The due date has passed and some request reads invoices.
SweepOverdue(i) ==
  /\ invoice[i].status \in {"ISSUED", "PARTIALLY_PAID"}
  /\ ~Locked(i)
  /\ invoice' = [invoice EXCEPT ![i].status = "OVERDUE"]
  /\ UNCHANGED <<document, journal, request, raced>>

BeginVoidInvoice(r, i) ==
  /\ request[r] = Idle
  /\ invoice[i].status \notin {"VOID", "PAID"}
  /\ \/ invoice[i].status = "DRAFT"
     \/ invoice[i].amountPaid = 0 /\ invoice[i].amountCredited = 0
  /\ request' = [request EXCEPT ![r] =
       Transaction("voidInvoice", i, "NONE", {}, [Unread EXCEPT ![i] = invoice[i]], Unread)]
  /\ UNCHANGED <<invoice, document, journal, raced>>

Voidable == {"DRAFT", "ISSUED", "OVERDUE"}

VoidInvoice(r) ==
  LET i == request[r].on
  IN  /\ request[r].op = "voidInvoice"
      /\ ~Locked(i)
      /\ IF invoice[i].status \in Voidable
         THEN /\ invoice' = [invoice EXCEPT ![i].status = "VOID"]
              /\ raced' = IF SameBalance(request[r].read[i], invoice[i]) THEN raced
                          ELSE raced \cup {i}
         ELSE UNCHANGED <<invoice, raced>>
      /\ request' = [request EXCEPT ![r] = Idle]
      /\ UNCHANGED <<document, journal>>

-----------------------------------------------------------------------------
Next ==
  \/ \E r \in Requests :
       \/ \E p \in Payments : BeginPayment(r, p)
       \/ \E n \in Notes : BeginIssue(r, n)
       \/ \E d \in Documents : BeginVoid(r, d)
       \/ \E i \in Invoices : ReadInvoice(r, i)
       \/ \E i \in Invoices : WriteInvoice(r, i)
       \/ Commit(r)
       \/ Rollback(r)
       \/ \E i \in Invoices : BeginVoidInvoice(r, i)
       \/ VoidInvoice(r)
  \/ \E n \in Notes : CreateNote(n)
  \/ \E i \in Invoices : IssueInvoice(i)
  \/ \E i \in Invoices : SweepOverdue(i)

Spec == Init /\ [][Next]_vars

-----------------------------------------------------------------------------
(* Properties *)

\* Every row, document and transaction holds values of their types; in particular
\* no reversal makes an amount negative (the Math.max(0, ...) of both voids).
TypeOK ==
  /\ invoice \in [Invoices -> Rows]
  /\ document \in [Documents -> DocumentStatuses]
  /\ journal \subseteq Invoices \cup Documents
  /\ request \in [Requests -> Transactions]
  /\ raced \subseteq Invoices

\* Neither kind of document alone takes an invoice beyond its total, whatever
\* transactions overlap: the validation bounds the absolute amount that is written.
AmountsBounded ==
  \A i \in Invoices : invoice[i].amountPaid <= Total[i] /\ invoice[i].amountCredited <= Total[i]

AppliedOf(kind, status, i) ==
  Sum([d \in Documents |-> Share[d][i]], {d \in kind : document[d] = status})

\* amountPaid and amountCredited are the sums of the recorded allocations and of the
\* issued notes and leave nothing over-applied, on every invoice that no transaction
\* wrote from stale reads: races are the only source of drift.
LedgerExact ==
  \A i \in Invoices \ raced :
    /\ invoice[i].amountPaid = AppliedOf(Payments, "RECORDED", i)
    /\ invoice[i].amountCredited = AppliedOf(Notes, "ISSUED", i)
    /\ Outstanding(i, invoice[i]) >= 0

\* On the same invoices the status tells the balance, whichever document came last
\* and however sweeps, voids and reversals alternated.
StatusTellsBalance ==
  \A i \in Invoices \ raced :
    LET open == Outstanding(i, invoice[i])
    IN  CASE invoice[i].status = "PAID" -> open = 0
          [] invoice[i].status = "OVERDUE" -> open > 0
          [] invoice[i].status = "PARTIALLY_PAID" -> 0 < open /\ open < Total[i]
          [] OTHER -> open = Total[i]

\* The AR account is credited exactly for the payments ever recorded, and for every
\* note in force, and never for an invoice it was not debited for.
JournalMatches ==
  /\ \A p \in Payments : p \in journal <=> document[p] # "NONE"
  /\ \A n \in Notes : /\ document[n] = "ISSUED" => n \in journal
                      /\ n \in journal => document[n] \in {"ISSUED", "VOID"}
  /\ \A d \in journal \cap Documents : Affected(d) \subseteq journal
  /\ \A i \in Invoices : /\ invoice[i].status \notin {"DRAFT", "VOID"} => i \in journal
                         /\ i \in journal => invoice[i].status # "DRAFT"

\* Corrections are final and the journal is append-only: a voided payment stays
\* voided, also when its request is retried, and an issued note or invoice is never
\* a draft again.
CorrectionsAreFinal ==
  [][/\ journal \subseteq journal'
     /\ \A d \in Documents :
          /\ document[d] = "VOIDED" => document'[d] = "VOIDED"
          /\ document[d] \in {"ISSUED", "VOID"} => document'[d] \in {"ISSUED", "VOID"}
     /\ \A i \in Invoices :
          invoice'[i].status = "DRAFT" => invoice[i].status = "DRAFT"]_vars

=============================================================================
