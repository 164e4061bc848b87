--------------------------- MODULE DeliveriesProofs ---------------------------
(***************************************************************************)
(* Proofs about Deliveries for any number of deliveries and sweeps, any    *)
(* lease and backoff, and without the bounds on the clock and the retries. *)
(***************************************************************************)
EXTENDS Deliveries, FiniteSetTheorems, TLAPS

\* A sweep that goes from one stage to another in Underway's terms.
LEMMA UnderwayFinite ==
  ASSUME NEW d \in Deliveries
  PROVE  /\ IsFiniteSet(Underway(d)) /\ Cardinality(Underway(d)) \in Nat
         /\ IsFiniteSet(Underway(d))' /\ Cardinality(Underway(d))' \in Nat
<1>1. IsFiniteSet(Underway(d)) /\ IsFiniteSet(Underway(d)')
  BY FS_Subset, DeliveriesAssumption DEF Underway
<1> QED
  BY <1>1, FS_CardinalityType

\* A step that moves sweep w on with d keeps the types of the sweeps.
LEMMA StageTyped ==
  ASSUME TypeOK, NEW w \in Sweeps, NEW d \in Deliveries, NEW to \in Stages,
         stage' = [stage EXCEPT ![w][d] = to]
  PROVE  stage' \in [Sweeps -> [Deliveries -> Stages]]
  BY DEF TypeOK

LEMMA LeaveTyped ==
  ASSUME TypeOK, NEW w \in Sweeps, NEW d \in Deliveries, Leave(w, d)
  PROVE  /\ stage' \in [Sweeps -> [Deliveries -> Stages]]
         /\ read' \in [Sweeps -> [Deliveries -> Nat]]
<1>1. "NONE" \in Stages
  BY DEF Stages
<1>2. stage' \in [Sweeps -> [Deliveries -> Stages]]
  BY <1>1, StageTyped DEF Leave
<1>3. read' = [read EXCEPT ![w][d] = 0]
  BY DEF Leave
<1> QED
  BY <1>2, <1>3 DEF TypeOK

\* Counting up one entry of a column, and writing one.
LEMMA ColumnTyped ==
  ASSUME NEW col, NEW S, col \in [Deliveries -> S], NEW d \in Deliveries, NEW x \in S
  PROVE  [col EXCEPT ![d] = x] \in [Deliveries -> S]
  OBVIOUS

LEMMA CountTyped ==
  ASSUME NEW col \in [Deliveries -> Nat], NEW d \in Deliveries
  PROVE  [col EXCEPT ![d] = @ + 1] \in [Deliveries -> Nat]
  OBVIOUS

\* The types hold in every reachable state.
THEOREM TypeCorrect == Spec => []TypeOK
<1> USE DEF Zero, row, sweeping, history
<1>1. Init => TypeOK
  BY DEF Init, TypeOK, Statuses, Stages
<1>2. TypeOK /\ [Next]_vars => TypeOK'
  <2> SUFFICES ASSUME TypeOK, [Next]_vars PROVE TypeOK'
    OBVIOUS
  <2> USE DEF TypeOK
  <2>1. CASE Tick
    BY <2>1 DEF Tick
  <2>2. ASSUME NEW d \in Deliveries, Create(d) PROVE TypeOK'
    BY <2>2 DEF Create, Statuses
  <2>3. ASSUME NEW d \in Deliveries, Retry(d) PROVE TypeOK'
    BY <2>3 DEF Retry, Statuses
  <2>4. ASSUME NEW w \in Sweeps, Find(w) PROVE TypeOK'
    BY <2>4 DEF Find, Stages
  <2>5. ASSUME NEW w \in Sweeps, Crash(w) PROVE TypeOK'
    BY <2>5 DEF Crash, Stages
  <2>6. ASSUME NEW w \in Sweeps, NEW d \in Deliveries, Claim(w, d) PROVE TypeOK'
    <3>1. CASE Claimable(w, d)
      <4>1. stage' \in [Sweeps -> [Deliveries -> Stages]] /\ read' = read
        BY <2>6, <3>1, StageTyped DEF Claim, Stages
      <4>2. /\ status' \in [Deliveries -> Statuses] /\ leaseAt' \in [Deliveries -> Nat]
            /\ takeovers' \in [Deliveries -> Nat]
        <5>1. /\ status' = [status EXCEPT ![d] = "PROCESSING"]
              /\ leaseAt' = [leaseAt EXCEPT ![d] = began[w]]
              /\ takeovers' = takeovers \/ takeovers' = [takeovers EXCEPT ![d] = @ + 1]
          BY <2>6, <3>1 DEF Claim
        <5>2. "PROCESSING" \in Statuses /\ began[w] \in Nat
          BY DEF Statuses
        <5>3. status' \in [Deliveries -> Statuses]
          BY <5>1, <5>2, ColumnTyped
        <5>4. leaseAt' \in [Deliveries -> Nat]
          BY <5>1, <5>2, ColumnTyped
        <5>5. takeovers' \in [Deliveries -> Nat]
          BY <5>1, CountTyped
        <5> QED
          BY <5>3, <5>4, <5>5
      <4> QED
        BY <2>6, <4>1, <4>2 DEF Claim
    <3>2. CASE ~Claimable(w, d)
      BY <2>6, <3>2, LeaveTyped DEF Claim
    <3> QED
      BY <3>1, <3>2
  <2>7. ASSUME NEW w \in Sweeps, NEW d \in Deliveries, Send(w, d) PROVE TypeOK'
    BY <2>7 DEF Send, Stages
  <2>8. ASSUME NEW w \in Sweeps, NEW d \in Deliveries, RecordSent(w, d) PROVE TypeOK'
    <3>1. /\ status' \in [Deliveries -> Statuses] /\ attempts' \in [Deliveries -> Nat]
          /\ leaseAt' \in [Deliveries -> Nat] /\ retryAt' \in [Deliveries -> Nat]
      <4>1. \/ UNCHANGED row
            \/ /\ status' = [status EXCEPT ![d] = "SENT"]
               /\ attempts' = [attempts EXCEPT ![d] = @ + 1]
               /\ leaseAt' = [leaseAt EXCEPT ![d] = 0] /\ retryAt' = [retryAt EXCEPT ![d] = 0]
        BY <2>8 DEF RecordSent
      <4>2. "SENT" \in Statuses /\ 0 \in Nat
        BY DEF Statuses
      <4>3. status' \in [Deliveries -> Statuses]
        BY <4>1, <4>2, ColumnTyped
      <4>4. attempts' \in [Deliveries -> Nat]
        BY <4>1, CountTyped
      <4>5. leaseAt' \in [Deliveries -> Nat]
        BY <4>1, <4>2, ColumnTyped
      <4>6. retryAt' \in [Deliveries -> Nat]
        BY <4>1, <4>2, ColumnTyped
      <4> QED
        BY <4>3, <4>4, <4>5, <4>6
    <3> QED
      BY <2>8, <3>1, LeaveTyped DEF RecordSent
  <2>9. ASSUME NEW w \in Sweeps, NEW d \in Deliveries, RecordFailure(w, d) PROVE TypeOK'
    <3> DEFINE n == AttemptsSoFar(w, d)
               time == IF stage[w][d] = "TERMINAL_FAILURE" \/ n >= MaxAttempts
                       THEN 0 ELSE now + Backoff(n)
    <3>1. time \in Nat
      <4>1. n \in Nat \ {0}
        BY DEF AttemptsSoFar
      <4>2. CASE n >= MaxAttempts
        BY <4>2
      <4>3. CASE ~(n >= MaxAttempts)
        <5>1. n \in 1..MaxAttempts
          BY <4>1, <4>3, DeliveriesAssumption
        <5>2. Backoff(n) \in Nat
          BY <5>1, DeliveriesAssumption
        <5> HIDE DEF n
        <5> QED
          BY <5>2
      <4> QED
        BY <4>2, <4>3
    <3>2. /\ status' \in [Deliveries -> Statuses] /\ attempts' \in [Deliveries -> Nat]
          /\ leaseAt' \in [Deliveries -> Nat]
      <4>1. \/ UNCHANGED row
            \/ /\ status' = [status EXCEPT ![d] = "FAILED"] \/ status' = [status EXCEPT ![d] = "PENDING"]
               /\ attempts' = [attempts EXCEPT ![d] = @ + 1]
               /\ leaseAt' = [leaseAt EXCEPT ![d] = 0]
        BY <2>9 DEF RecordFailure
      <4>2. "FAILED" \in Statuses /\ "PENDING" \in Statuses /\ 0 \in Nat
        BY DEF Statuses
      <4>3. status' \in [Deliveries -> Statuses]
        BY <4>1, <4>2, ColumnTyped
      <4>4. attempts' \in [Deliveries -> Nat]
        BY <4>1, CountTyped
      <4>5. leaseAt' \in [Deliveries -> Nat]
        BY <4>1, <4>2, ColumnTyped
      <4> QED
        BY <4>3, <4>4, <4>5
    <3>3. retryAt' = retryAt \/ retryAt' = [retryAt EXCEPT ![d] = time]
      BY <2>9 DEF RecordFailure
    <3>4. retryAt' \in [Deliveries -> Nat]
      <4> HIDE DEF time
      <4> QED
        BY <3>1, <3>3
    <3> QED
      BY <2>9, <3>2, <3>4, LeaveTyped DEF RecordFailure
  <2>10. CASE UNCHANGED vars
    BY <2>10 DEF vars
  <2> QED
    BY <2>1, <2>2, <2>3, <2>4, <2>5, <2>6, <2>7, <2>8, <2>9, <2>10 DEF Next
<1> QED
  BY <1>1, <1>2, PTL DEF Spec


-----------------------------------------------------------------------------
(* Duplicates are accounted for *)

\* The claims under way of d after a step of a sweep w with d.
LEMMA UnderwayGrows ==
  ASSUME NEW w \in Sweeps, NEW d \in Deliveries, w \notin Underway(d),
         Underway(d)' = Underway(d) \cup {w}
  PROVE  Cardinality(Underway(d)') = Cardinality(Underway(d)) + 1
  BY UnderwayFinite, FS_AddElement

LEMMA UnderwayShrinks ==
  ASSUME NEW w \in Sweeps, NEW d \in Deliveries, w \in Underway(d),
         Underway(d)' = Underway(d) \ {w}
  PROVE  Cardinality(Underway(d)') = Cardinality(Underway(d)) - 1
  BY UnderwayFinite, FS_RemoveElement

\* A step that moves sweep w on with d, and with nothing else.
LEMMA UnderwayMoves ==
  ASSUME TypeOK, NEW w \in Sweeps, NEW d \in Deliveries, NEW to,
         stage' = [stage EXCEPT ![w][d] = to]
  PROVE  /\ \A e \in Deliveries : e # d => Underway(e)' = Underway(e)
         /\ Underway(d)' = IF to \in {"CLAIMED", "RETRYABLE_FAILURE", "TERMINAL_FAILURE"}
                           THEN Underway(d) \cup {w} ELSE Underway(d) \ {w}
  BY DEF TypeOK, Underway

\* What one delivery contributes to AcceptancesAccounted.
Accounted(d) ==
  accepted[d] + Cardinality(Underway(d)) <=
    takeovers[d] + retries[d] + (IF status[d] \in {"PROCESSING", "SENT"} THEN 1 ELSE 0)

\* A step that leaves the row and the histories of d alone and starts no claim of it.
LEMMA AccountedStands ==
  ASSUME TypeOK, TypeOK', NEW d \in Deliveries, Accounted(d),
         status'[d] = status[d], accepted'[d] = accepted[d], takeovers'[d] = takeovers[d],
         retries'[d] = retries[d], Underway(d)' \subseteq Underway(d)
  PROVE  Accounted(d)'
<1>1. Cardinality(Underway(d)') <= Cardinality(Underway(d))
  BY UnderwayFinite, FS_Subset
<1> QED
  BY <1>1, UnderwayFinite DEF Accounted, TypeOK

LEMMA AccountedClaim ==
  ASSUME TypeOK, TypeOK', NEW w \in Sweeps, NEW d \in Deliveries, Claim(w, d), Accounted(d)
  PROVE  Accounted(d)'
<1> USE DEF TypeOK
<1>1. w \notin Underway(d)
  BY DEF Claim, Underway
<1>2. CASE Claimable(w, d)
  <2>1. Cardinality(Underway(d)') = Cardinality(Underway(d)) + 1
    <3>1. Underway(d)' = Underway(d) \cup {w}
      BY <1>2, UnderwayMoves DEF Claim
    <3> QED
      BY <1>1, <3>1, UnderwayGrows
  <2>2. /\ status'[d] = "PROCESSING" /\ accepted'[d] = accepted[d] /\ retries'[d] = retries[d]
        /\ takeovers'[d] = takeovers[d] + (IF status[d] = "PROCESSING" THEN 1 ELSE 0)
        /\ status[d] \in {"PENDING", "PROCESSING"}
    BY <1>2 DEF Claim, Claimable, Expired
  <2> QED
    BY <2>1, <2>2, UnderwayFinite DEF Accounted
<1>3. CASE ~Claimable(w, d)
  <2>1. Underway(d)' = Underway(d) \ {w}
    BY <1>3, UnderwayMoves DEF Claim, Leave
  <2> QED
    BY <1>3, <2>1, AccountedStands DEF Claim
<1> QED
  BY <1>2, <1>3

LEMMA AccountedSend ==
  ASSUME TypeOK, TypeOK', NEW w \in Sweeps, NEW d \in Deliveries, Send(w, d), Accounted(d)
  PROVE  Accounted(d)'
<1> USE DEF TypeOK
<1>1. w \in Underway(d)
  BY DEF Send, Underway
<1>2. PICK answer \in Answers :
        /\ stage' = [stage EXCEPT ![w][d] = answer]
        /\ accepted' = IF answer = "ACCEPTED" THEN [accepted EXCEPT ![d] = @ + 1] ELSE accepted
  BY DEF Send
<1>3. CASE answer = "ACCEPTED"
  <2>1. Cardinality(Underway(d)') = Cardinality(Underway(d)) - 1
    <3>1. Underway(d)' = Underway(d) \ {w}
      BY <1>2, <1>3, UnderwayMoves
    <3> QED
      BY <1>1, <3>1, UnderwayShrinks
  <2> QED
    BY <1>2, <1>3, <2>1, UnderwayFinite DEF Accounted, Send, row
<1>4. CASE answer # "ACCEPTED"
  <2>1. Underway(d)' = Underway(d) \cup {w}
    BY <1>2, <1>4, UnderwayMoves DEF Answers
  <2>2. Underway(d)' \subseteq Underway(d)
    BY <1>1, <2>1
  <2> QED
    BY <1>2, <1>4, <2>2, AccountedStands DEF Send, row
<1> QED
  BY <1>3, <1>4

LEMMA AccountedRecordSent ==
  ASSUME TypeOK, TypeOK', NEW w \in Sweeps, NEW d \in Deliveries, RecordSent(w, d), Accounted(d)
  PROVE  Accounted(d)'
<1> USE DEF TypeOK
<1>1. Underway(d)' = Underway(d)
  <2>1. Underway(d)' = Underway(d) \ {w} /\ w \notin Underway(d)
    BY UnderwayMoves DEF RecordSent, Leave, Underway
  <2> QED
    BY <2>1
<1>2. /\ accepted' = accepted /\ takeovers' = takeovers /\ retries' = retries
      /\ status[d] \in {"PROCESSING", "SENT"} => status'[d] \in {"PROCESSING", "SENT"}
  BY DEF RecordSent, history, row
<1> QED
  BY <1>1, <1>2, UnderwayFinite DEF Accounted

LEMMA AccountedRecordFailure ==
  ASSUME TypeOK, TypeOK', NEW w \in Sweeps, NEW d \in Deliveries, RecordFailure(w, d), Accounted(d)
  PROVE  Accounted(d)'
<1> USE DEF TypeOK
<1>1. w \in Underway(d)
  BY DEF RecordFailure, Underway
<1>2. Underway(d)' = Underway(d) \ {w}
  BY UnderwayMoves DEF RecordFailure, Leave
<1>3. Cardinality(Underway(d)') = Cardinality(Underway(d)) - 1
  BY <1>1, <1>2, UnderwayShrinks
<1>4. /\ accepted' = accepted /\ takeovers' = takeovers /\ retries' = retries
      /\ status[d] = "PROCESSING" \/ status' = status
  BY DEF RecordFailure, Recordable, history, row
<1> QED
  BY <1>3, <1>4, UnderwayFinite DEF Accounted

\* Only the sweeps' own steps with d and the retries of d move d's account.
LEMMA AccountedStep ==
  ASSUME TypeOK, TypeOK', [Next]_vars, NEW e \in Deliveries, Accounted(e)
  PROVE  Accounted(e)'
<1> USE DEF row, sweeping, history
<1>1. CASE Tick
  BY <1>1, AccountedStands DEF Tick, Underway
<1>2. ASSUME NEW d \in Deliveries, Create(d) PROVE Accounted(e)'
  <2>1. Underway(e)' = Underway(e)
    BY <1>2 DEF Create, Underway
  <2>2. CASE e = d
    BY <1>2, <2>1, <2>2, UnderwayFinite DEF Create, Accounted, TypeOK
  <2>3. CASE e # d
    BY <1>2, <2>1, <2>3, AccountedStands DEF Create, TypeOK
  <2> QED
    BY <2>2, <2>3
<1>3. ASSUME NEW d \in Deliveries, Retry(d) PROVE Accounted(e)'
  <2>1. Underway(e)' = Underway(e)
    BY <1>3 DEF Retry, Underway
  <2>2. CASE e = d
    <3>1. /\ status[e] \in {"FAILED", "PROCESSING"} /\ status'[e] = "PENDING"
          /\ retries'[e] = retries[e] + 1 /\ accepted' = accepted /\ takeovers' = takeovers
      BY <1>3, <2>2 DEF Retry, TypeOK
    <3> QED
      BY <2>1, <3>1, UnderwayFinite DEF Accounted, TypeOK
  <2>3. CASE e # d
    BY <1>3, <2>1, <2>3, AccountedStands DEF Retry, TypeOK
  <2> QED
    BY <2>2, <2>3
<1>4. ASSUME NEW w \in Sweeps, Find(w) PROVE Accounted(e)'
  <2>1. Underway(e)' = Underway(e)
    BY <1>4 DEF Find, Underway, Resting, TypeOK
  <2> QED
    BY <1>4, <2>1, AccountedStands DEF Find
<1>5. ASSUME NEW w \in Sweeps, Crash(w) PROVE Accounted(e)'
  <2>1. Underway(e)' \subseteq Underway(e)
    BY <1>5 DEF Crash, Underway, TypeOK
  <2> QED
    BY <1>5, <2>1, AccountedStands DEF Crash
<1>6. ASSUME NEW w \in Sweeps, NEW d \in Deliveries, e # d,
             Claim(w, d) \/ Send(w, d) \/ RecordSent(w, d) \/ RecordFailure(w, d)
      PROVE  Accounted(e)'
  <2>1. \E to : stage' = [stage EXCEPT ![w][d] = to]
    BY <1>6 DEF Claim, Send, RecordSent, RecordFailure, Leave
  <2>2. Underway(e)' = Underway(e)
    BY <1>6, <2>1, UnderwayMoves
  <2>3. /\ status'[e] = status[e] /\ accepted'[e] = accepted[e]
        /\ takeovers'[e] = takeovers[e] /\ retries'[e] = retries[e]
    <3>1. CASE Claim(w, d)
      BY <1>6, <3>1 DEF Claim, TypeOK
    <3>2. CASE Send(w, d)
      BY <1>6, <3>2 DEF Send, TypeOK
    <3>3. CASE RecordSent(w, d)
      BY <1>6, <3>3 DEF RecordSent, TypeOK
    <3>4. CASE RecordFailure(w, d)
      BY <1>6, <3>4 DEF RecordFailure, TypeOK
    <3> QED
      BY <1>6, <3>1, <3>2, <3>3, <3>4
  <2> QED
    BY <2>2, <2>3, AccountedStands
<1>7. ASSUME NEW w \in Sweeps, NEW d \in Deliveries, e = d,
             Claim(w, d) \/ Send(w, d) \/ RecordSent(w, d) \/ RecordFailure(w, d)
      PROVE  Accounted(e)'
  BY <1>7, AccountedClaim, AccountedSend, AccountedRecordSent, AccountedRecordFailure
<1>8. CASE UNCHANGED vars
  BY <1>8, AccountedStands DEF vars, Underway
<1> QED
  BY <1>1, <1>2, <1>3, <1>4, <1>5, <1>6, <1>7, <1>8 DEF Next

\* The provider accepts a message once, and once more for each lease taken over and each
\* manual retry, whatever sweeps overlap or die.
THEOREM DuplicatesAccounted == Spec => []AcceptancesAccounted
<1>1. Init => AcceptancesAccounted
  <2> SUFFICES ASSUME Init, NEW d \in Deliveries PROVE Accounted(d)
    BY DEF AcceptancesAccounted, Accounted
  <2>1. Underway(d) = {}
    BY DEF Init, Underway
  <2> QED
    BY <2>1, FS_EmptySet DEF Init, Accounted, Zero
<1>2. TypeOK /\ TypeOK' /\ AcceptancesAccounted /\ [Next]_vars => AcceptancesAccounted'
  BY AccountedStep DEF AcceptancesAccounted, Accounted
<1> QED
  BY <1>1, <1>2, TypeCorrect, PTL DEF Spec

-----------------------------------------------------------------------------
(* Giving up is earned *)

\* What the sweeps know is no more than the rows and histories record.
Informed ==
  \A w \in Sweeps, d \in Deliveries :
    /\ read[w][d] <= attempts[d]
    /\ stage[w][d] = "TERMINAL_FAILURE" => d \in refused
    /\ stage[w][d] = "ACCEPTED" => accepted[d] > 0

\* Attempts, refusals and acceptances are never taken back.
LEMMA RecordsGrow ==
  ASSUME TypeOK, [Next]_vars, NEW d \in Deliveries
  PROVE  /\ attempts[d] <= attempts'[d] /\ accepted[d] <= accepted'[d]
         /\ d \in refused => d \in refused'
<1> USE DEF TypeOK, row, sweeping, history
<1>1. CASE Tick
  BY <1>1 DEF Tick
<1>2. ASSUME NEW e \in Deliveries, Create(e) \/ Retry(e)
      PROVE  attempts' = attempts /\ accepted' = accepted /\ refused' = refused
  BY <1>2 DEF Create, Retry
<1>3. ASSUME NEW w \in Sweeps, Find(w) \/ Crash(w)
      PROVE  attempts' = attempts /\ accepted' = accepted /\ refused' = refused
  BY <1>3 DEF Find, Crash
<1>4. ASSUME NEW w \in Sweeps, NEW e \in Deliveries, Claim(w, e)
      PROVE  attempts' = attempts /\ accepted' = accepted /\ refused' = refused
  BY <1>4 DEF Claim
<1>5. ASSUME NEW w \in Sweeps, NEW e \in Deliveries, Send(w, e)
      PROVE  /\ attempts' = attempts /\ refused \subseteq refused'
             /\ accepted' = accepted \/ accepted' = [accepted EXCEPT ![e] = @ + 1]
  BY <1>5 DEF Send
<1>6. ASSUME NEW w \in Sweeps, NEW e \in Deliveries, RecordSent(w, e) \/ RecordFailure(w, e)
      PROVE  /\ accepted' = accepted /\ refused' = refused
             /\ attempts' = attempts \/ attempts' = [attempts EXCEPT ![e] = @ + 1]
  BY <1>6 DEF RecordSent, RecordFailure
<1>7. CASE UNCHANGED vars
  BY <1>7 DEF vars
<1> QED
  BY <1>1, <1>2, <1>3, <1>4, <1>5, <1>6, <1>7 DEF Next

\* A step that moves no sweep to a new answer and reads nothing anew.
LEMMA InformedStands ==
  ASSUME TypeOK, TypeOK', [Next]_vars, Informed,
         \A w \in Sweeps, d \in Deliveries :
           /\ stage'[w][d] \in {stage[w][d], "NONE", "FOUND", "CLAIMED"}
           /\ read'[w][d] \in {read[w][d], 0, attempts[d]}
  PROVE  Informed'
<1> SUFFICES ASSUME NEW w \in Sweeps, NEW d \in Deliveries
    PROVE  /\ read'[w][d] <= attempts'[d]
           /\ stage'[w][d] = "TERMINAL_FAILURE" => d \in refused'
           /\ stage'[w][d] = "ACCEPTED" => accepted'[d] > 0
  BY DEF Informed
<1>1. /\ attempts[d] <= attempts'[d] /\ accepted[d] <= accepted'[d]
      /\ d \in refused => d \in refused'
  BY RecordsGrow
<1>2. /\ read[w][d] \in Nat /\ attempts[d] \in Nat /\ attempts'[d] \in Nat
      /\ accepted[d] \in Nat /\ accepted'[d] \in Nat
  BY DEF TypeOK
<1> QED
  BY <1>1, <1>2 DEF Informed

LEMMA InformedStep ==
  ASSUME TypeOK, TypeOK', [Next]_vars, Informed
  PROVE  Informed'
<1> USE DEF row, sweeping, history
<1>1. CASE Tick
  BY <1>1, InformedStands DEF Tick
<1>2. ASSUME NEW d \in Deliveries, Create(d) \/ Retry(d) PROVE Informed'
  BY <1>2, InformedStands DEF Create, Retry
<1>3. ASSUME NEW w \in Sweeps, Find(w) PROVE Informed'
  <2>1. \A v \in Sweeps, d \in Deliveries :
          /\ stage'[v][d] \in {stage[v][d], "NONE", "FOUND"}
          /\ read'[v][d] \in {read[v][d], 0, attempts[d]}
    BY <1>3 DEF Find, TypeOK
  <2> QED
    BY <2>1, InformedStands
<1>4. ASSUME NEW w \in Sweeps, Crash(w) PROVE Informed'
  BY <1>4, InformedStands DEF Crash, TypeOK, Zero
<1>5. ASSUME NEW w \in Sweeps, NEW d \in Deliveries, Claim(w, d) PROVE Informed'
  <2>1. \A v \in Sweeps, e \in Deliveries :
          /\ stage'[v][e] \in {stage[v][e], "NONE", "CLAIMED"}
          /\ read'[v][e] \in {read[v][e], 0}
    <3>1. CASE Claimable(w, d)
      <4>1. stage' = [stage EXCEPT ![w][d] = "CLAIMED"] /\ read' = read
        BY <1>5, <3>1 DEF Claim
      <4> QED
        BY <4>1 DEF TypeOK
    <3>2. CASE ~Claimable(w, d)
      BY <1>5, <3>2 DEF Claim, Leave, TypeOK
    <3> QED
      BY <3>1, <3>2
  <2> QED
    BY <2>1, InformedStands
<1>6. ASSUME NEW w \in Sweeps, NEW d \in Deliveries, RecordSent(w, d) \/ RecordFailure(w, d)
      PROVE  Informed'
  <2>1. Leave(w, d)
    BY <1>6 DEF RecordSent, RecordFailure
  <2>2. \A v \in Sweeps, e \in Deliveries :
          stage'[v][e] \in {stage[v][e], "NONE"} /\ read'[v][e] \in {read[v][e], 0}
    BY <2>1 DEF Leave, TypeOK
  <2> QED
    BY <2>2, InformedStands
<1>7. ASSUME NEW w \in Sweeps, NEW d \in Deliveries, Send(w, d) PROVE Informed'
  <2> SUFFICES ASSUME NEW v \in Sweeps, NEW e \in Deliveries
      PROVE  /\ read'[v][e] <= attempts'[e]
             /\ stage'[v][e] = "TERMINAL_FAILURE" => e \in refused'
             /\ stage'[v][e] = "ACCEPTED" => accepted'[e] > 0
    BY DEF Informed
  <2>1. PICK answer \in Answers :
          /\ stage' = [stage EXCEPT ![w][d] = answer]
          /\ accepted' = IF answer = "ACCEPTED" THEN [accepted EXCEPT ![d] = @ + 1] ELSE accepted
          /\ refused' = IF answer = "TERMINAL_FAILURE" THEN refused \cup {d} ELSE refused
    BY <1>7 DEF Send
  <2>2. read' = read /\ attempts' = attempts
    BY <1>7 DEF Send
  <2>3. CASE v = w /\ e = d
    BY <2>1, <2>2, <2>3 DEF Informed, TypeOK
  <2>4. CASE ~(v = w /\ e = d)
    <3>1. stage'[v][e] = stage[v][e]
      BY <2>1, <2>4 DEF TypeOK
    <3>2. accepted[e] <= accepted'[e] /\ (e \in refused => e \in refused')
      BY RecordsGrow
    <3>3. accepted[e] \in Nat /\ accepted'[e] \in Nat
      BY DEF TypeOK
    <3> QED
      BY <2>2, <3>1, <3>2, <3>3 DEF Informed
  <2> QED
    BY <2>3, <2>4
<1>8. CASE UNCHANGED vars
  BY <1>8, InformedStands DEF vars
<1> QED
  BY <1>1, <1>2, <1>3, <1>4, <1>5, <1>6, <1>7, <1>8 DEF Next

LEMMA AlwaysInformed == Spec => []Informed
<1>1. Init => Informed
  BY DEF Init, Informed, Zero
<1>2. TypeOK /\ TypeOK' /\ Informed /\ [Next]_vars => Informed'
  BY InformedStep
<1> QED
  BY <1>1, <1>2, TypeCorrect, PTL DEF Spec

\* Who fails a delivery has a terminal answer or read nearly as many attempts as allowed.
LEMMA FailureEarned ==
  ASSUME TypeOK, TypeOK', Informed, NEW w \in Sweeps, NEW d \in Deliveries, RecordFailure(w, d),
         status'[d] = "FAILED", status[d] # "FAILED"
  PROVE  d \in refused' \/ attempts'[d] >= MaxAttempts
<1>1. stage[w][d] = "TERMINAL_FAILURE" \/ read[w][d] + 1 >= MaxAttempts
  BY DEF RecordFailure, AttemptsSoFar, TypeOK, row
<1>2. refused' = refused /\ attempts'[d] = attempts[d] + 1
  BY DEF RecordFailure, TypeOK, row, history
<1>3. /\ read[w][d] <= attempts[d] /\ (stage[w][d] = "TERMINAL_FAILURE" => d \in refused)
      /\ read[w][d] \in Nat /\ attempts[d] \in Nat
  BY DEF Informed, TypeOK
<1> QED
  BY <1>1, <1>2, <1>3, DeliveriesAssumption

\* A delivery is given up only after a terminal answer or as many recorded attempts as the
\* policy has, although a sweep judges by the attempts it read before its claim.
THEOREM GivingUpEarned == Spec => []FailedIsEarned
<1>1. Init => FailedIsEarned
  BY DEF Init, FailedIsEarned
<1>2. ASSUME TypeOK, TypeOK', Informed, FailedIsEarned, [Next]_vars PROVE FailedIsEarned'
  <2> SUFFICES ASSUME NEW d \in Deliveries, status'[d] = "FAILED"
      PROVE  d \in refused' \/ attempts'[d] >= MaxAttempts
    BY DEF FailedIsEarned
  <2>1. CASE status[d] = "FAILED"
    <3>1. attempts[d] \in Nat /\ attempts'[d] \in Nat
      BY <1>2 DEF TypeOK
    <3> QED
      BY <1>2, <2>1, <3>1, RecordsGrow, DeliveriesAssumption DEF FailedIsEarned
  <2>2. CASE status[d] # "FAILED"
    <3>1. \E w \in Sweeps : RecordFailure(w, d)
      <4> USE <1>2, <2>2 DEF TypeOK, row
      <4>1. ~Tick /\ ~UNCHANGED vars
        BY DEF Tick, vars
      <4>2. ASSUME NEW e \in Deliveries PROVE ~Create(e) /\ ~Retry(e)
        BY DEF Create, Retry
      <4>3. ASSUME NEW w \in Sweeps PROVE ~Find(w) /\ ~Crash(w)
        BY DEF Find, Crash
      <4>4. ASSUME NEW w \in Sweeps, NEW e \in Deliveries
            PROVE  ~Claim(w, e) /\ ~Send(w, e) /\ ~RecordSent(w, e)
        BY DEF Claim, Send, RecordSent
      <4>5. ASSUME NEW w \in Sweeps, NEW e \in Deliveries, RecordFailure(w, e) PROVE e = d
        BY <4>5 DEF RecordFailure
      <4> QED
        BY <4>1, <4>2, <4>3, <4>4, <4>5 DEF Next
    <3> QED
      BY <1>2, <2>2, <3>1, FailureEarned
  <2> QED
    BY <2>1, <2>2
<1> QED
  BY <1>1, <1>2, TypeCorrect, AlwaysInformed, PTL DEF Spec

-----------------------------------------------------------------------------
(* The sweeps implement delivery on licence *)

\* The provider is handed a message only while a licence is left.
LEMMA SendLicensed ==
  ASSUME TypeOK, AcceptancesAccounted, NEW w \in Sweeps, NEW d \in Deliveries, Send(w, d)
  PROVE  accepted[d] < Licences[d]
<1>1. w \in Underway(d)
  BY DEF Send, Underway
<1>2. Cardinality(Underway(d)) >= 1
  <2>1. Cardinality(Underway(d)) # 0
    BY <1>1, UnderwayFinite, FS_EmptySet
  <2> QED
    BY <2>1, UnderwayFinite
<1>3. accepted[d] + Cardinality(Underway(d)) <= takeovers[d] + retries[d] + 1
  BY UnderwayFinite DEF AcceptancesAccounted, TypeOK
<1>4. Licences[d] = 1 + takeovers[d] + retries[d]
  BY DEF Licences
<1> QED
  BY <1>2, <1>3, <1>4, UnderwayFinite DEF TypeOK

\* A lease taken over or a manual retry is one licence more.
LEMMA LicenceMore ==
  ASSUME TypeOK, TypeOK', NEW d \in Deliveries,
         \/ retries' = [retries EXCEPT ![d] = @ + 1] /\ takeovers' = takeovers
         \/ takeovers' = [takeovers EXCEPT ![d] = @ + 1] /\ retries' = retries
  PROVE  Licences' = [Licences EXCEPT ![d] = @ + 1]
<1>1. ASSUME NEW e \in Deliveries
      PROVE  1 + takeovers'[e] + retries'[e] =
               IF e = d THEN (1 + takeovers[e] + retries[e]) + 1 ELSE 1 + takeovers[e] + retries[e]
  <2>1. takeovers[e] \in Nat /\ retries[e] \in Nat
    BY DEF TypeOK
  <2>2. CASE e = d
    <3>1. \/ retries'[e] = retries[e] + 1 /\ takeovers'[e] = takeovers[e]
          \/ takeovers'[e] = takeovers[e] + 1 /\ retries'[e] = retries[e]
      BY <2>2 DEF TypeOK
    <3> QED
      BY <2>1, <2>2, <3>1
  <2>3. CASE e # d
    <3>1. retries'[e] = retries[e] /\ takeovers'[e] = takeovers[e]
      BY <2>3 DEF TypeOK
    <3> QED
      BY <2>3, <3>1
  <2> QED
    BY <2>2, <2>3
<1> QED
  BY <1>1 DEF Licences

\* The sweeps implement the outbox: every step of theirs is one of the outbox, or none.
THEOREM DeliveriesImplementOutbox == Spec => ImplementsOutbox
<1> DEFINE abstract == <<Licences, accepted, Outcome>>
<1>1. Init => Promise!Init
  <2> SUFFICES ASSUME Init PROVE Promise!Init
    OBVIOUS
  <2>1. Licences = [d \in Deliveries |-> 1]
    BY DEF Init, Licences, Zero
  <2>2. Outcome = [d \in Deliveries |-> "OPEN"]
    BY DEF Init, Outcome
  <2> QED
    BY <2>1, <2>2 DEF Init, Zero, Promise!Init
<1>2. ASSUME TypeOK, TypeOK', Informed, AcceptancesAccounted, [Next]_vars
      PROVE  [Promise!Next]_abstract
  <2> USE <1>2 DEF row, sweeping, history
  <2>1. ASSUME status' = status, takeovers' = takeovers, retries' = retries
        PROVE  Licences' = Licences /\ Outcome' = Outcome
    BY <2>1 DEF Licences, Outcome
  <2>2. CASE Tick \/ UNCHANGED vars
    BY <2>1, <2>2 DEF Tick, vars
  <2>3. ASSUME NEW w \in Sweeps, Find(w) \/ Crash(w) PROVE UNCHANGED abstract
    BY <2>1, <2>3 DEF Find, Crash
  <2>4. ASSUME NEW d \in Deliveries, Create(d) PROVE UNCHANGED abstract
    BY <2>4 DEF Create, Licences, Outcome, TypeOK
  <2>5. ASSUME NEW d \in Deliveries, Retry(d) PROVE Promise!Extend(d)
    <3>1. Licences' = [Licences EXCEPT ![d] = @ + 1]
      BY <2>5, LicenceMore DEF Retry
    <3>2. Outcome' = [Outcome EXCEPT ![d] = "OPEN"] /\ Outcome[d] # "SENT"
      BY <2>5 DEF Retry, Outcome, TypeOK
    <3> QED
      BY <2>5, <3>1, <3>2 DEF Retry, Promise!Extend
  <2>6. ASSUME NEW w \in Sweeps, NEW d \in Deliveries, Claim(w, d)
        PROVE  UNCHANGED abstract \/ Promise!Extend(d)
    <3>1. CASE ~Claimable(w, d)
      BY <2>1, <2>6, <3>1 DEF Claim
    <3>2. CASE Claimable(w, d)
      <4>1. /\ status[d] \in {"PENDING", "PROCESSING"} /\ status' = [status EXCEPT ![d] = "PROCESSING"]
            /\ accepted' = accepted /\ retries' = retries
        BY <2>6, <3>2 DEF Claim, Claimable, Expired
      <4>2. Outcome' = Outcome /\ Outcome[d] = "OPEN"
        BY <4>1 DEF Outcome, TypeOK
      <4>3. CASE status[d] = "PROCESSING"
        <5>1. takeovers' = [takeovers EXCEPT ![d] = @ + 1]
          BY <2>6, <3>2, <4>3 DEF Claim
        <5>2. Licences' = [Licences EXCEPT ![d] = @ + 1]
          BY <4>1, <5>1, LicenceMore
        <5>3. Outcome' = [Outcome EXCEPT ![d] = "OPEN"]
          BY <4>2 DEF Outcome
        <5> QED
          BY <4>1, <4>2, <5>2, <5>3 DEF Promise!Extend
      <4>4. CASE status[d] # "PROCESSING"
        <5>1. takeovers' = takeovers
          BY <2>6, <3>2, <4>4 DEF Claim
        <5> QED
          BY <4>1, <4>2, <5>1 DEF Licences
      <4> QED
        BY <4>3, <4>4
    <3> QED
      BY <3>1, <3>2
  <2>7. ASSUME NEW w \in Sweeps, NEW d \in Deliveries, Send(w, d)
        PROVE  UNCHANGED abstract \/ Promise!Accept(d)
    <3>1. Licences' = Licences /\ Outcome' = Outcome
      BY <2>1, <2>7 DEF Send
    <3>2. accepted' = accepted \/ accepted' = [accepted EXCEPT ![d] = @ + 1]
      BY <2>7 DEF Send
    <3>3. accepted[d] < Licences[d]
      BY <2>7, SendLicensed
    <3> QED
      BY <3>1, <3>2, <3>3 DEF Promise!Accept
  <2>8. ASSUME NEW w \in Sweeps, NEW d \in Deliveries, RecordSent(w, d)
        PROVE  UNCHANGED abstract \/ Promise!Settle(d)
    <3>1. Licences' = Licences /\ accepted' = accepted
      BY <2>8 DEF RecordSent, Licences
    <3>2. CASE status[d] = "PROCESSING"
      <4>1. status' = [status EXCEPT ![d] = "SENT"]
        BY <2>8, <3>2 DEF RecordSent
      <4>2. Outcome[d] = "OPEN" /\ Outcome' = [Outcome EXCEPT ![d] = "SENT"]
        BY <3>2, <4>1 DEF Outcome, TypeOK
      <4>3. accepted[d] > 0
        BY <2>8 DEF RecordSent, Informed
      <4> QED
        BY <3>1, <4>2, <4>3 DEF Promise!Settle
    <3>3. CASE status[d] # "PROCESSING"
      BY <2>1, <2>8, <3>3 DEF RecordSent
    <3> QED
      BY <3>2, <3>3
  <2>9. ASSUME NEW w \in Sweeps, NEW d \in Deliveries, RecordFailure(w, d)
        PROVE  UNCHANGED abstract \/ Promise!Settle(d)
    <3>1. Licences' = Licences /\ accepted' = accepted
      BY <2>9 DEF RecordFailure, Licences
    <3>2. \/ status' = status
          \/ /\ status[d] = "PROCESSING"
             /\ \/ status' = [status EXCEPT ![d] = "FAILED"]
                \/ status' = [status EXCEPT ![d] = "PENDING"]
      BY <2>9 DEF RecordFailure, Recordable
    <3>3. CASE status[d] = "PROCESSING" /\ status' = [status EXCEPT ![d] = "FAILED"]
      <4>1. Outcome[d] = "OPEN" /\ Outcome' = [Outcome EXCEPT ![d] = "FAILED"]
        BY <3>3 DEF Outcome, TypeOK
      <4> QED
        BY <3>1, <4>1 DEF Promise!Settle
    <3>4. CASE status[d] = "PROCESSING" /\ status' = [status EXCEPT ![d] = "PENDING"]
      <4>1. Outcome' = Outcome
        BY <3>4 DEF Outcome, TypeOK
      <4> QED
        BY <3>1, <4>1
    <3>5. CASE status' = status
      BY <3>1, <3>5 DEF Outcome
    <3> QED
      BY <3>2, <3>3, <3>4, <3>5
  <2> QED
    BY <2>2, <2>3, <2>4, <2>5, <2>6, <2>7, <2>8, <2>9 DEF Next, Promise!Next
<1> QED
  BY <1>1, <1>2, TypeCorrect, AlwaysInformed, DuplicatesAccounted, PTL
     DEF Spec, Promise!Spec, ImplementsOutbox
=============================================================================
