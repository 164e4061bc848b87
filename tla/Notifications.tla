----------------------------- MODULE Notifications -----------------------------
(***************************************************************************)
(* The consumer of the workflow engine's durable events                    *)
(* (apps/api/src/notifications/notification-event-processor.service.ts):   *)
(* sweeps claim WorkflowEvent rows under a lease and turn each into one    *)
(* Notification row per recipient.                                         *)
(*                                                                         *)
(* A sweep is one HTTP request; sweeps overlap.  An action is one database *)
(* statement or transaction of a sweep (with the reads that precede it), a *)
(* request of a user, or the passing of time.  One tick is one lease unit; *)
(* leases and retry times are kept as the time elapsed since, or left      *)
(* until, the instant the row stores.                                      *)
(***************************************************************************)
EXTENDS Naturals, FiniteSets

CONSTANTS
  Events,       \* WorkflowEvent rows, numbered in the order of occurredAt
  Users,        \* users who may be recipients
  Recipients,   \* Recipients[e]: whom the resolver names for event e
  Fickle,       \* the users who change their preference
  Sweeps,       \* slots for process-events requests in flight
  MaxAttempts,  \* MAX_PROCESSING_ATTEMPTS
  Lease,        \* PROCESSING_LEASE_MS, in ticks
  Backoff,      \* Backoff[n]: retryDelayForAttempt(n), in ticks
  MaxWait,      \* the longest backoff
  MaxClaiming,  \* bound: ticks a sweep spends claiming its batch
  MaxRetries,   \* bound: manual retries
  MaxCrashes    \* bound: sweeps that die

ASSUME NotificationsAssumption ==
  /\ Events \subseteq Nat
  /\ Fickle \subseteq Users
  /\ Recipients \in [Events -> SUBSET Users]
  /\ MaxAttempts \in Nat \ {0}
  /\ Lease \in Nat /\ MaxWait \in Nat /\ MaxClaiming \in Nat
  /\ MaxRetries \in Nat /\ MaxCrashes \in Nat
  /\ Backoff \in [1 .. MaxAttempts -> 0 .. MaxWait]

\* Finitely many requests are in flight at a time.
ASSUME SweepsAssumption == IsFiniteSet(Sweeps) /\ Sweeps # {}

VARIABLES
  status,    \* status[e], notificationProcessingStatus, "NONE" before the insert
  attempts,  \* attempts[e], notificationAttempts
  held,      \* held[e]: age of notificationLeaseAt, of a PROCESSING row
  wait,      \* wait[e]: time until notificationNextRetryAt
  copies,    \* copies[e][u]: Notification rows of event e for user u
  optedOut,  \* users whose preference disables the category
  sweep,     \* sweep[w]: where the sweep in slot w stands
  retries,   \* manual retries so far
  crashes    \* crashes so far

rowVars == <<status, attempts, held, wait>>
envVars == <<optedOut, retries, crashes>>
vars == <<rowVars, copies, envVars, sweep>>

Statuses == {"NONE", "PENDING", "PROCESSING", "PROCESSED", "FAILED"}
\* Older leases are not told apart: no sweep still claiming is that old.
Oldest == Lease + MaxClaiming + 1

Earliest(S) == CHOOSE e \in S : \A f \in S : e <= f

-----------------------------------------------------------------------------
(* A sweep: the candidates it has yet to claim, the events it has claimed, *)
(* the attempts it read with them, and the rows built for the first one.   *)

SweepRecords ==
  [at : {"idle", "claim", "resolve", "commit", "fail"}, age : 0 .. MaxClaiming,
   todo : SUBSET Events, mine : SUBSET Events, seen : [Events -> Nat],
   rows : SUBSET Users]

Unseen == [e \in Events |-> 0]
Sweep(position, age, todo, mine, seen, rows) ==
  [at |-> position, age |-> age, todo |-> todo, mine |-> mine, seen |-> seen, rows |-> rows]
Idle == Sweep("idle", 0, {}, {}, Unseen, {})

At(w, position) == sweep[w].at = position
Goto(w, new) == sweep' = [sweep EXCEPT ![w] = new]
Current(w) == Earliest(sweep[w].mine)

\* The sweep is done with its current event, whatever became of it.
Advance(w) ==
  LET left == sweep[w].mine \ {Current(w)}
      seen == [sweep[w].seen EXCEPT ![Current(w)] = 0]
  IN Goto(w, IF left = {} THEN Idle ELSE Sweep("resolve", 0, {}, left, seen, {}))

TypeOK ==
  /\ status \in [Events -> Statuses]
  /\ attempts \in [Events -> Nat]
  /\ held \in [Events -> 0 .. Oldest]
  /\ wait \in [Events -> 0 .. MaxWait]
  /\ copies \in [Events -> [Users -> Nat]]
  /\ optedOut \subseteq Fickle
  /\ sweep \in [Sweeps -> SweepRecords]
  /\ \A w \in Sweeps :
       /\ At(w, "claim") <=> sweep[w].todo # {}
       /\ At(w, "resolve") \/ At(w, "commit") \/ At(w, "fail") => sweep[w].mine # {}
  /\ retries \in 0 .. MaxRetries
  /\ crashes \in 0 .. MaxCrashes

Init ==
  /\ status = [e \in Events |-> "NONE"]
  /\ attempts = [e \in Events |-> 0]
  /\ held = [e \in Events |-> 0]
  /\ wait = [e \in Events |-> 0]
  /\ copies = [e \in Events |-> [u \in Users |-> 0]]
  /\ optedOut = {}
  /\ sweep = [w \in Sweeps |-> Idle]
  /\ retries = 0
  /\ crashes = 0

-----------------------------------------------------------------------------
(* The workflow engine records an event; a user changes a preference; time *)
(* passes.                                                                 *)

Emit(e) ==
  /\ status[e] = "NONE"
  /\ status' = [status EXCEPT ![e] = "PENDING"]
  /\ UNCHANGED <<attempts, held, wait, copies, envVars, sweep>>

ChangePreference(u) ==
  /\ optedOut' = IF u \in optedOut THEN optedOut \ {u} ELSE optedOut \cup {u}
  /\ UNCHANGED <<rowVars, copies, retries, crashes, sweep>>

Older(n) == IF n = Oldest THEN n ELSE n + 1
Sooner(n) == IF n = 0 THEN 0 ELSE n - 1

Tick ==
  /\ \A w \in Sweeps : At(w, "claim") => sweep[w].age < MaxClaiming  \* bound
  /\ held' = [e \in Events |-> IF status[e] = "PROCESSING" THEN Older(held[e]) ELSE 0]
  /\ wait' = [e \in Events |-> Sooner(wait[e])]
  /\ sweep' = [w \in Sweeps |-> IF At(w, "claim") THEN [sweep[w] EXCEPT !.age = @ + 1]
                                ELSE sweep[w]]
  /\ UNCHANGED <<status, attempts, copies, envVars>>

-----------------------------------------------------------------------------
(* claimBatch: the candidates are read at once, with their attempts, then  *)
(* claimed one by one, each with the condition checked again; the instant  *)
(* of the read is the lease of every claim.                                *)

Stale(e, age) == status[e] = "PROCESSING" /\ held[e] > age + Lease

Due(e) == status[e] = "PENDING" /\ wait[e] = 0
Candidates == {e \in Events : Due(e) \/ Stale(e, 0)}

ReadCandidates(w) ==
  /\ At(w, "idle")
  /\ Candidates # {}
  /\ LET seen == [e \in Events |-> IF e \in Candidates THEN attempts[e] ELSE 0]
     IN Goto(w, Sweep("claim", 0, Candidates, {}, seen, {}))
  /\ UNCHANGED <<rowVars, copies, envVars>>

\* An abandoned claim is not taken over.
ClaimableLeaseIgnoredBug(e, age) == status[e] = "PENDING"
Claimable(e, age) == status[e] = "PENDING" \/ Stale(e, age)

Claim(w) ==
  LET s == sweep[w]
      e == Earliest(s.todo)
      left == s.todo \ {e}
      won == Claimable(e, s.age)
      mine == IF won THEN s.mine \cup {e} ELSE s.mine
      seen == IF won THEN s.seen ELSE [s.seen EXCEPT ![e] = 0]
  IN /\ At(w, "claim")
     /\ IF won
        THEN /\ status' = [status EXCEPT ![e] = "PROCESSING"]
             /\ held' = [held EXCEPT ![e] = s.age]
        ELSE UNCHANGED <<status, held>>
     /\ Goto(w, IF left # {} THEN Sweep("claim", s.age, left, mine, seen, {})
                ELSE IF mine # {} THEN Sweep("resolve", 0, {}, mine, seen, {})
                ELSE Idle)
     /\ UNCHANGED <<attempts, wait, copies, envVars>>

-----------------------------------------------------------------------------
(* processOne, for each claimed event in turn.                             *)

Resolve(w) ==
  /\ At(w, "resolve")
  /\ Goto(w, [sweep[w] EXCEPT !.at = "commit",
                              !.rows = Recipients[Current(w)] \ optedOut])
  /\ UNCHANGED <<rowVars, copies, envVars>>

\* createMany without, and with, skipDuplicates on the unique index.
InsertedDuplicatesBug(n) == n + 1
Inserted(n) == IF n = 0 THEN 1 ELSE n

\* A later attempt takes the rows for inserted.
InsertRowsOnceTriedBug(e, rows) ==
  copies' = [copies EXCEPT ![e] = [u \in Users |->
               IF u \in rows /\ attempts[e] = 0 THEN Inserted(@[u]) ELSE @[u]]]
InsertRows(e, rows) ==
  copies' = [copies EXCEPT ![e] = [u \in Users |->
               IF u \in rows THEN Inserted(@[u]) ELSE @[u]]]

\* The rows and PROCESSED in one transaction, whatever the event's status is
\* by now.
Commit(w) ==
  LET e == Current(w)
  IN /\ At(w, "commit")
     /\ InsertRows(e, sweep[w].rows)
     /\ status' = [status EXCEPT ![e] = "PROCESSED"]
     /\ attempts' = [attempts EXCEPT ![e] = @ + 1]
     /\ held' = [held EXCEPT ![e] = 0]
     /\ wait' = [wait EXCEPT ![e] = 0]
     /\ Advance(w)
     /\ UNCHANGED envVars

\* A read or the transaction throws: nothing of it is kept.
Throw(w) ==
  /\ At(w, "resolve") \/ At(w, "commit")
  /\ Goto(w, [sweep[w] EXCEPT !.at = "fail", !.rows = {}])
  /\ UNCHANGED <<rowVars, copies, envVars>>

\* recordFailure: its update is guarded by the status alone, and whether the event is
\* exhausted is decided on the attempts read with the candidate.
Failable(e) == status[e] = "PROCESSING"

\* Mutant: one attempt too many.
TerminalLateBug(n) == n > MaxAttempts
Terminal(n) == n >= MaxAttempts

RecordFailure(w) ==
  LET e == Current(w)
      n == sweep[w].seen[e] + 1
  IN /\ At(w, "fail")
     /\ IF Failable(e)
        THEN /\ status' = [status EXCEPT ![e] = IF Terminal(n) THEN "FAILED" ELSE "PENDING"]
             /\ attempts' = [attempts EXCEPT ![e] = @ + 1]
             /\ held' = [held EXCEPT ![e] = 0]
             /\ wait' = [wait EXCEPT ![e] = IF Terminal(n) THEN 0 ELSE Backoff[n]]
        ELSE UNCHANGED rowVars
     /\ Advance(w)
     /\ UNCHANGED <<copies, envVars>>

\* The process dies, or recordFailure itself throws: the sweep's events stay
\* PROCESSING until their lease is stale.
Crash(w) ==
  /\ ~At(w, "idle")
  /\ crashes < MaxCrashes  \* bound
  /\ crashes' = crashes + 1
  /\ Goto(w, Idle)
  /\ UNCHANGED <<rowVars, copies, optedOut, retries>>

-----------------------------------------------------------------------------
(* POST /notifications/admin/processing/:eventId/retry                     *)

Retryable(e) == status[e] \in {"FAILED", "PROCESSING"}

RetryEvent(e) ==
  /\ Retryable(e)
  /\ retries < MaxRetries  \* bound
  /\ retries' = retries + 1
  /\ status' = [status EXCEPT ![e] = "PENDING"]
  /\ wait' = [wait EXCEPT ![e] = 0]
  /\ held' = [held EXCEPT ![e] = 0]
  /\ UNCHANGED <<attempts, copies, optedOut, crashes, sweep>>

-----------------------------------------------------------------------------
\* The next statement of the sweep in slot w.
Continue(w) ==
  \/ Claim(w)
  \/ Resolve(w)
  \/ Commit(w)
  \/ Throw(w)
  \/ RecordFailure(w)

Next ==
  \/ \E e \in Events : Emit(e) \/ RetryEvent(e)
  \/ \E u \in Fickle : ChangePreference(u)
  \/ Tick
  \/ \E w \in Sweeps : ReadCandidates(w) \/ Continue(w) \/ Crash(w)

Spec == Init /\ [][Next]_vars

(***************************************************************************)
(* Operators named ...Bug are faulty variants, as in Workflow.             *)
(*                                                                         *)
(* No scheduler lives in the code: sweeps are requested from outside, and  *)
(* the fairness of ReadCandidates says they keep being requested.  A sweep *)
(* that began runs on, and time passes.                                    *)
(***************************************************************************)
FairSpec ==
  /\ Spec
  /\ WF_vars(Tick)
  /\ \A w \in Sweeps : WF_vars(ReadCandidates(w)) /\ WF_vars(Continue(w))

-----------------------------------------------------------------------------
(* Properties                                                              *)

(* An event's Notification rows and its PROCESSED status appear together,  *)
(* however sweeps overlap, fail, die and are retried: before it there are  *)
(* none, after it every recipient who always wanted them has one.          *)
RowsComeWithProcessed ==
  \A e \in Events : \A u \in Users :
    /\ copies[e][u] > 0 => status[e] = "PROCESSED" /\ u \in Recipients[e]
    /\ status[e] = "PROCESSED" /\ u \in Recipients[e] \ Fickle => copies[e][u] > 0

(* An event processed twice (a stale lease taken over from a slow sweep, a *)
(* retry of a live claim) does not notify anybody twice.                   *)
NobodyToldTwice == \A e \in Events : \A u \in Users : copies[e][u] <= 1

(* PROCESSED is immutable: no claim, late failure or manual retry reopens  *)
(* an event, and its notifications are not taken back.                     *)
ProcessedIsFinal ==
  [][\A e \in Events :
       /\ status[e] = "PROCESSED" => status'[e] = "PROCESSED"
       /\ \A u \in Users : copies'[e][u] >= copies[e][u]]_vars

(* recordFailure decides on attempts read when the sweep began, and under  *)
(* a guard that another sweep's claim satisfies: still no event is given   *)
(* up, FAILED, before MaxAttempts attempts.                                *)
FailedWasAttempted ==
  \A e \in Events : status[e] = "FAILED" => attempts[e] >= MaxAttempts

(* Overlapping sweeps that read the attempts before another one's failure  *)
(* was recorded postpone the end by at most two attempts each, a failure   *)
(* that does not end the event and one more: without manual retries, no    *)
(* event is attempted for ever.                                            *)
AttemptsAreBounded ==
  retries = 0 => \A e \in Events :
    attempts[e] <= MaxAttempts + 2 * (Cardinality(Sweeps) - 1)

(* Every event ends: PROCESSED, or FAILED for an administrator to look at, *)
(* also when the sweep that claimed it died.                               *)
EventsEnd ==
  \A e \in Events : status[e] = "PENDING" ~> status[e] \in {"PROCESSED", "FAILED"}

=============================================================================
