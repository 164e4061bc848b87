------------------------------ MODULE Deliveries ------------------------------
(***************************************************************************)
(* Outbound e-mails (apps/api/src/notifications/email-delivery*.ts): one   *)
(* row per notification, sent by sweeps that any open browser triggers, so *)
(* several overlap.  A sweep reads the rows that are due, claims them one  *)
(* by one with a conditional update that starts a lease, and then hands    *)
(* each to the provider, outside any transaction, and records the outcome  *)
(* with a second conditional update.  What it knows of a row's attempts is *)
(* what it read before the claim.  WhatsApp notifications go the same way  *)
(* (whatsapp-delivery*.ts).                                                *)
(*                                                                         *)
(* A sweep handles its rows in any order here; the code's is by age.       *)
(***************************************************************************)
EXTENDS Integers, FiniteSets

CONSTANTS
  Deliveries,   \* the notifications eligible for an e-mail: one row each (unique)
  Sweeps,       \* slots for the sweeps in progress
  MaxAttempts,  \* MAX_EMAIL_ATTEMPTS
  Lease,        \* EMAIL_PROCESSING_LEASE_MS, in ticks
  Backoff(_),   \* emailRetryDelayForAttempt, in ticks
  MaxNow,       \* bound: the clock stops there
  MaxRetries    \* bound: manual retries per delivery

ASSUME DeliveriesAssumption ==
  /\ IsFiniteSet(Sweeps)
  /\ MaxAttempts \in Nat \ {0} /\ Lease \in Nat /\ MaxNow \in Nat /\ MaxRetries \in Nat
  /\ \A n \in 1..MaxAttempts : Backoff(n) \in Nat

Statuses == {"NONE", "PENDING", "PROCESSING", "SENT", "FAILED"}
Answers == {"ACCEPTED", "RETRYABLE_FAILURE", "TERMINAL_FAILURE"}
Stages == {"NONE", "FOUND", "CLAIMED"} \cup Answers

VARIABLES
  now,
  status,     \* status[d]: EmailDelivery.status, NONE before there is a row
  attempts,   \* EmailDelivery.attempts
  leaseAt,    \* EmailDelivery.leaseAt: when the sweep that claimed it began, 0 for null
  retryAt,    \* EmailDelivery.nextRetryAt, 0 for null
  began,      \* began[w]: the time the sweep in slot w read, 0 once it has claimed its batch
  stage,      \* stage[w][d]: how far sweep w is with d
  read,       \* read[w][d]: the attempts of d that sweep w read, 0 unless it works on d
  accepted,   \* history: how often the provider accepted d
  refused,    \* history: deliveries with a terminal answer of the provider
  takeovers,  \* history: claims of d under another sweep's expired lease
  retries     \* history: manual retries of d

row == <<status, attempts, leaseAt, retryAt>>
sweeping == <<began, stage, read>>
history == <<accepted, refused, takeovers, retries>>
vars == <<now, row, sweeping, history>>

Zero == [d \in Deliveries |-> 0]

Init ==
  /\ now = 0
  /\ status = [d \in Deliveries |-> "NONE"]
  /\ attempts = Zero /\ leaseAt = Zero /\ retryAt = Zero
  /\ began = [w \in Sweeps |-> 0]
  /\ stage = [w \in Sweeps |-> [d \in Deliveries |-> "NONE"]]
  /\ read = [w \in Sweeps |-> Zero]
  /\ accepted = Zero /\ refused = {} /\ takeovers = Zero /\ retries = Zero

Tick == now < MaxNow /\ now' = now + 1 /\ UNCHANGED <<row, sweeping, history>>

\* createPendingDeliveries: the unique key makes a second creation a no-op.
Create(d) ==
  /\ status[d] = "NONE"
  /\ status' = [status EXCEPT ![d] = "PENDING"]
  /\ retryAt' = [retryAt EXCEPT ![d] = now]
  /\ UNCHANGED <<now, attempts, leaseAt, sweeping, history>>

-----------------------------------------------------------------------------
(* A sweep *)

Expired(d, t) == status[d] = "PROCESSING" /\ leaseAt[d] < t - Lease

Due(d) == status[d] = "PENDING" /\ retryAt[d] <= now
Resting(w) == \A d \in Deliveries : stage[w][d] = "NONE"

\* The first read of claimBatch.
Find(w) ==
  LET found == {d \in Deliveries : Due(d) \/ Expired(d, now)}
  IN  /\ Resting(w) /\ found # {}
      /\ began' = [began EXCEPT ![w] = now]
      /\ stage' = [stage EXCEPT ![w] = [d \in Deliveries |-> IF d \in found THEN "FOUND" ELSE "NONE"]]
      /\ read' = [read EXCEPT ![w] = [d \in Deliveries |-> IF d \in found THEN attempts[d] ELSE 0]]
      /\ UNCHANGED <<now, row, history>>

\* Sweep w is done with d.
Leave(w, d) ==
  /\ stage' = [stage EXCEPT ![w][d] = "NONE"]
  /\ read' = [read EXCEPT ![w][d] = 0]

\* Mutant: the claim does not repeat the condition of the read.
ClaimableAnywayBug(w, d) == status[d] # "NONE"
\* The condition the claim repeats: the lease, but not the time of the retry.
Claimable(w, d) == status[d] = "PENDING" \/ Expired(d, began[w])

Claim(w, d) ==
  /\ stage[w][d] = "FOUND"
  /\ IF Claimable(w, d)
     THEN /\ status' = [status EXCEPT ![d] = "PROCESSING"]
          /\ leaseAt' = [leaseAt EXCEPT ![d] = began[w]]
          /\ stage' = [stage EXCEPT ![w][d] = "CLAIMED"] /\ UNCHANGED read
          /\ takeovers' = IF status[d] = "PROCESSING" THEN [takeovers EXCEPT ![d] = @ + 1]
                          ELSE takeovers
     ELSE Leave(w, d) /\ UNCHANGED <<status, leaseAt, takeovers>>
  /\ UNCHANGED <<now, attempts, retryAt, began, accepted, refused, retries>>

\* processOne, up to the provider's answer: once the batch is claimed, one row at a time.
Send(w, d) ==
  /\ stage[w][d] = "CLAIMED"
  /\ \A e \in Deliveries : stage[w][e] \in {"NONE", "CLAIMED"}
  /\ \E answer \in Answers :
       /\ stage' = [stage EXCEPT ![w][d] = answer]
       /\ accepted' = IF answer = "ACCEPTED" THEN [accepted EXCEPT ![d] = @ + 1] ELSE accepted
       /\ refused' = IF answer = "TERMINAL_FAILURE" THEN refused \cup {d} ELSE refused
  /\ began' = [began EXCEPT ![w] = 0]
  /\ UNCHANGED <<now, row, read, takeovers, retries>>

\* markSent: nothing happens when the row is no longer PROCESSING.
RecordSent(w, d) ==
  /\ stage[w][d] = "ACCEPTED"
  /\ IF status[d] = "PROCESSING"
     THEN /\ status' = [status EXCEPT ![d] = "SENT"]
          /\ attempts' = [attempts EXCEPT ![d] = @ + 1]
          /\ leaseAt' = [leaseAt EXCEPT ![d] = 0] /\ retryAt' = [retryAt EXCEPT ![d] = 0]
     ELSE UNCHANGED row
  /\ Leave(w, d)
  /\ UNCHANGED <<now, began, history>>

\* Mutant: the attempts the sweep read count as one more than they were.
AttemptsSoFarBug(w, d) == read[w][d] + 2
AttemptsSoFar(w, d) == read[w][d] + 1

\* Mutant: the outcome is written whatever became of the row.
RecordableAnywayBug(d) == TRUE
\* The condition markFailed repeats.
Recordable(d) == status[d] = "PROCESSING"

RecordFailure(w, d) ==
  LET terminal == stage[w][d] = "TERMINAL_FAILURE" \/ AttemptsSoFar(w, d) >= MaxAttempts
  IN  /\ stage[w][d] \in {"RETRYABLE_FAILURE", "TERMINAL_FAILURE"}
      /\ IF Recordable(d)
         THEN /\ status' = [status EXCEPT ![d] = IF terminal THEN "FAILED" ELSE "PENDING"]
              /\ attempts' = [attempts EXCEPT ![d] = @ + 1]
              /\ leaseAt' = [leaseAt EXCEPT ![d] = 0]
              /\ retryAt' = [retryAt EXCEPT ![d] =
                               IF terminal THEN 0 ELSE now + Backoff(AttemptsSoFar(w, d))]
         ELSE UNCHANGED row
      /\ Leave(w, d)
      /\ UNCHANGED <<now, began, history>>

\* The process dies, or an error leaves the sweep: its rows keep their leases.
Crash(w) ==
  /\ stage' = [stage EXCEPT ![w] = [d \in Deliveries |-> "NONE"]]
  /\ read' = [read EXCEPT ![w] = Zero] /\ began' = [began EXCEPT ![w] = 0]
  /\ UNCHANGED <<now, row, history>>

\* retryDelivery, an administrator's: also while the row is being sent.
Retry(d) ==
  /\ status[d] \in {"FAILED", "PROCESSING"} /\ retries[d] < MaxRetries
  /\ status' = [status EXCEPT ![d] = "PENDING"]
  /\ retryAt' = [retryAt EXCEPT ![d] = now] /\ leaseAt' = [leaseAt EXCEPT ![d] = 0]
  /\ retries' = [retries EXCEPT ![d] = @ + 1]
  /\ UNCHANGED <<now, attempts, sweeping, accepted, refused, takeovers>>

Next ==
  \/ Tick
  \/ \E d \in Deliveries : Create(d) \/ Retry(d)
  \/ \E w \in Sweeps : Find(w) \/ Crash(w)
  \/ \E w \in Sweeps, d \in Deliveries :
       Claim(w, d) \/ Send(w, d) \/ RecordSent(w, d) \/ RecordFailure(w, d)

Spec == Init /\ [][Next]_vars

-----------------------------------------------------------------------------
(* Properties *)

\* Rows, sweeps and histories hold values of their types.
TypeOK ==
  /\ now \in Nat
  /\ status \in [Deliveries -> Statuses]
  /\ attempts \in [Deliveries -> Nat] /\ leaseAt \in [Deliveries -> Nat]
  /\ retryAt \in [Deliveries -> Nat]
  /\ began \in [Sweeps -> Nat]
  /\ stage \in [Sweeps -> [Deliveries -> Stages]]
  /\ read \in [Sweeps -> [Deliveries -> Nat]]
  /\ accepted \in [Deliveries -> Nat] /\ refused \subseteq Deliveries
  /\ takeovers \in [Deliveries -> Nat] /\ retries \in [Deliveries -> Nat]

\* Sweeps that claimed d and have neither been told it was accepted nor recorded anything.
Underway(d) ==
  {w \in Sweeps : stage[w][d] \in {"CLAIMED", "RETRYABLE_FAILURE", "TERMINAL_FAILURE"}}

\* Duplicates are accounted for: the provider accepts a message once, and once more for
\* every expired lease taken over and every manual retry, whatever sweeps overlap or die.
\* A message that was accepted without either is never put back or reported as failed.
AcceptancesAccounted ==
  \A d \in Deliveries :
    accepted[d] + Cardinality(Underway(d)) <=
      takeovers[d] + retries[d] + (IF status[d] \in {"PROCESSING", "SENT"} THEN 1 ELSE 0)

\* A delivery is given up only after a terminal answer or as many recorded attempts as the
\* policy has, although a sweep judges by the attempts it read before its claim.
FailedIsEarned ==
  \A d \in Deliveries :
    status[d] = "FAILED" => d \in refused \/ attempts[d] >= MaxAttempts

\* The sweeps implement delivery on licence (Outbox): a licence for the row, one for each
\* lease taken over and one for each manual retry.
Outcome == [d \in Deliveries |-> IF status[d] \in {"SENT", "FAILED"} THEN status[d] ELSE "OPEN"]
Licences == [d \in Deliveries |-> 1 + takeovers[d] + retries[d]]
Promise == INSTANCE Outbox WITH licence <- Licences, accepted <- accepted, outcome <- Outcome
ImplementsOutbox == Promise!Spec
=============================================================================
