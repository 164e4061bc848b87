-------------------------- MODULE NotificationsProofs --------------------------
(***************************************************************************)
(* Proofs about Notifications for every set of events, recipients and      *)
(* overlapping sweeps, every lease and backoff.                            *)
(***************************************************************************)
EXTENDS Notifications, FiniteSetTheorems, WellFoundedInduction, TLAPS

-----------------------------------------------------------------------------
(* What a sweep carries across its awaits: the rows it is about to insert  *)
(* hold every recipient who always wants them, and the attempts it read    *)
(* are no more than those recorded since.                                  *)

RowsOK(w) ==
  At(w, "commit") => /\ sweep[w].rows \subseteq Recipients[Current(w)]
                     /\ Recipients[Current(w)] \ Fickle \subseteq sweep[w].rows

SeenOK(w) == \A e \in Events : sweep[w].seen[e] <= attempts[e]

IInv == /\ TypeOK
        /\ RowsComeWithProcessed
        /\ NobodyToldTwice
        /\ FailedWasAttempted
        /\ \A w \in Sweeps : RowsOK(w) /\ SeenOK(w)

-----------------------------------------------------------------------------
(* The sweep takes its events in order of occurrence: the earliest one is  *)
(* one of them.                                                            *)
LEMMA EarliestIn ==
  ASSUME NEW S \in SUBSET Events, S # {}
  PROVE  Earliest(S) \in S
<1>. DEFINE R == {ss \in Nat \X Nat : ss[1] < ss[2]}
<1>a. IsWellFoundedOn(R, Nat)
  BY NatLessThanWellFounded DEF OpToRel
<1>b. S \subseteq Nat
  BY NotificationsAssumption
<1>1. PICK e \in S : \A f \in S : ~ (<<f, e>> \in R)
  <2>. HIDE DEF R
  <2>. QED
    BY <1>a, <1>b, WFMin
<1>2. ASSUME NEW f \in S PROVE e <= f
  <2>1. <<f, e>> \in Nat \X Nat /\ <<f, e>>[1] = f /\ <<f, e>>[2] = e
    BY <1>b
  <2>2. f < e => <<f, e>> \in R
    BY <2>1
  <2>. QED
    BY <1>1, <1>b, <2>2
<1>. QED
  BY <1>2 DEF Earliest

(* A free slot is typed.                                                   *)
LEMMA IdleTyped == Idle \in SweepRecords
BY NotificationsAssumption DEF Idle, Sweep, Unseen, SweepRecords

(* The initial state, before any event, satisfies the invariant.           *)
LEMMA InitInv == Init => IInv
<1>. SUFFICES ASSUME Init PROVE IInv
  OBVIOUS
<1>2. TypeOK
  BY IdleTyped, NotificationsAssumption
  DEF Init, TypeOK, Statuses, Oldest, At, Idle, Sweep
<1>. QED
  BY <1>2, NotificationsAssumption DEF Init, IInv, RowsComeWithProcessed, NobodyToldTwice,
     FailedWasAttempted, RowsOK, SeenOK, At, Idle, Sweep, Unseen

-----------------------------------------------------------------------------
(* What a typed sweep that is processing its events holds.                 *)
LEMMA Processing ==
  ASSUME TypeOK, NEW w \in Sweeps,
         At(w, "resolve") \/ At(w, "commit") \/ At(w, "fail")
  PROVE  /\ sweep[w] \in SweepRecords /\ sweep[w].todo = {}
         /\ sweep[w].mine \in SUBSET Events
         /\ sweep[w].seen \in [Events -> Nat]
         /\ Current(w) \in Events
<1>1. /\ sweep[w] \in SweepRecords /\ sweep[w].todo = {}
      /\ sweep[w].mine \in SUBSET Events /\ sweep[w].mine # {}
      /\ sweep[w].seen \in [Events -> Nat]
  BY DEF TypeOK, At, SweepRecords
<1>. QED
  BY <1>1, EarliestIn DEF Current

\* A sweep record that is consistent with its position.
Placed(r) == /\ r.at = "claim" <=> r.todo # {}
             /\ r.at \in {"resolve", "commit", "fail"} => r.mine # {}

(* What Advance makes of a sweep.                                          *)
LEMMA Advanced ==
  ASSUME TypeOK, NEW w \in Sweeps, Advance(w),
         At(w, "commit") \/ At(w, "fail")
  PROVE  \E seen \in [Events -> Nat], r \in SweepRecords :
           /\ \A e \in Events : seen[e] <= sweep[w].seen[e]
           /\ r = Idle \/ \E left \in SUBSET Events :
                            r = Sweep("resolve", 0, {}, left, seen, {}) /\ left # {}
           /\ sweep' = [sweep EXCEPT ![w] = r]
<1>1. /\ sweep[w].mine \in SUBSET Events
      /\ sweep[w].seen \in [Events -> Nat] /\ Current(w) \in Events
  BY Processing
<1>. DEFINE left == sweep[w].mine \ {Current(w)}
            seen == [sweep[w].seen EXCEPT ![Current(w)] = 0]
            r == IF left = {} THEN Idle ELSE Sweep("resolve", 0, {}, left, seen, {})
<1>2. sweep' = [sweep EXCEPT ![w] = r]
  BY DEF Advance, Goto
<1>3. left \in SUBSET Events
  BY <1>1
<1>4. seen \in [Events -> Nat] /\ \A e \in Events : seen[e] <= sweep[w].seen[e]
  BY <1>1
<1>. HIDE DEF left, seen
<1>5. r \in SweepRecords
  BY <1>3, <1>4, IdleTyped, NotificationsAssumption DEF Sweep, SweepRecords
<1>6. r = Idle \/ \E l \in SUBSET Events :
                    r = Sweep("resolve", 0, {}, l, seen, {}) /\ l # {}
  BY <1>3
<1>. QED
  BY <1>2, <1>4, <1>5, <1>6

(* Every step leaves every sweep typed and consistent with its position.   *)
LEMMA SweepStep ==
  ASSUME TypeOK, [Next]_vars
  PROVE  /\ sweep' \in [Sweeps -> SweepRecords]
         /\ \A w \in Sweeps : Placed(sweep'[w])
<1>. USE DEF Placed
<1>a. Idle \in SweepRecords /\ Placed(Idle)
  BY IdleTyped DEF Idle, Sweep
<1>b. \A w \in Sweeps : sweep[w] \in SweepRecords /\ Placed(sweep[w])
  BY DEF TypeOK, At
<1>c. SUFFICES \/ sweep' = sweep
               \/ /\ sweep' \in [Sweeps -> SweepRecords]
                  /\ \A w \in Sweeps : Placed(sweep'[w])
               \/ \E w \in Sweeps, r \in SweepRecords :
                    Placed(r) /\ sweep' = [sweep EXCEPT ![w] = r]
  BY <1>b DEF TypeOK
<1>1. CASE UNCHANGED vars
  BY <1>1 DEF vars
<1>2. CASE \E e \in Events : Emit(e) \/ RetryEvent(e)
  BY <1>2 DEF Emit, RetryEvent
<1>3. CASE \E u \in Fickle : ChangePreference(u)
  BY <1>3 DEF ChangePreference
<1>4. CASE Tick
  <2>. DEFINE older(w) == IF At(w, "claim") THEN [sweep[w] EXCEPT !.age = @ + 1] ELSE sweep[w]
  <2>1. ASSUME NEW w \in Sweeps PROVE older(w) \in SweepRecords /\ Placed(older(w))
    <3>1. ASSUME NEW n \in 0 .. MaxClaiming
          PROVE  [sweep[w] EXCEPT !.age = n] \in SweepRecords
      BY <1>b DEF SweepRecords
    <3>2. At(w, "claim") => sweep[w].age + 1 \in 0 .. MaxClaiming
      BY <1>4, <1>b, NotificationsAssumption DEF Tick, SweepRecords
    <3>3. older(w) \in SweepRecords
      BY <1>b, <3>1, <3>2
    <3>. QED
      BY <1>b, <3>3 DEF SweepRecords
  <2>2. sweep' = [w \in Sweeps |-> older(w)]
    BY <1>4 DEF Tick
  <2>. HIDE DEF older
  <2>. QED
    BY <2>1, <2>2
<1>5. ASSUME NEW w \in Sweeps, ReadCandidates(w)
      PROVE  \E r \in SweepRecords : Placed(r) /\ sweep' = [sweep EXCEPT ![w] = r]
  <2>. DEFINE seen == [e \in Events |-> IF e \in Candidates THEN attempts[e] ELSE 0]
              r == Sweep("claim", 0, Candidates, {}, seen, {})
  <2>1. seen \in [Events -> Nat] /\ Candidates \in SUBSET Events /\ Candidates # {}
    BY <1>5 DEF ReadCandidates, TypeOK, Candidates
  <2>2. r \in SweepRecords
    <3>. HIDE DEF seen
    <3>. QED
      BY <2>1, NotificationsAssumption DEF Sweep, SweepRecords
  <2>3. Placed(r) /\ sweep' = [sweep EXCEPT ![w] = r]
    BY <1>5, <2>1 DEF ReadCandidates, Goto, Sweep
  <2>. QED
    BY <2>2, <2>3
<1>6. ASSUME NEW w \in Sweeps, Claim(w)
      PROVE  \E r \in SweepRecords : Placed(r) /\ sweep' = [sweep EXCEPT ![w] = r]
  <2>. DEFINE s == sweep[w]
              e == Earliest(s.todo)
              left == s.todo \ {e}
              won == Claimable(e, s.age)
              mine == IF won THEN s.mine \cup {e} ELSE s.mine
              seen == IF won THEN s.seen ELSE [s.seen EXCEPT ![e] = 0]
              r == IF left # {} THEN Sweep("claim", s.age, left, mine, seen, {})
                   ELSE IF mine # {} THEN Sweep("resolve", 0, {}, mine, seen, {})
                   ELSE Idle
  <2>1. /\ s \in SweepRecords /\ s.todo \in SUBSET Events /\ s.todo # {}
        /\ s.mine \in SUBSET Events /\ s.seen \in [Events -> Nat]
        /\ s.age \in 0 .. MaxClaiming
    BY <1>6, <1>b DEF Claim, At, SweepRecords
  <2>2. e \in Events
    BY <2>1, EarliestIn
  <2>3. left \in SUBSET Events /\ mine \in SUBSET Events /\ seen \in [Events -> Nat]
    BY <2>1, <2>2
  <2>4. sweep' = [sweep EXCEPT ![w] = r]
    BY <1>6 DEF Claim, Goto
  <2>. HIDE DEF s, left, mine, seen
  <2>5. r \in SweepRecords
    <3>1. Sweep("claim", s.age, left, mine, seen, {}) \in SweepRecords
      BY <2>1, <2>3 DEF Sweep, SweepRecords
    <3>2. Sweep("resolve", 0, {}, mine, seen, {}) \in SweepRecords
      BY <2>3, NotificationsAssumption DEF Sweep, SweepRecords
    <3>. QED
      BY <1>a, <3>1, <3>2
  <2>6. Placed(r)
    BY <1>a DEF Sweep
  <2>. QED
    BY <2>4, <2>5, <2>6
<1>7. ASSUME NEW w \in Sweeps, Resolve(w) \/ Throw(w)
      PROVE  \E r \in SweepRecords : Placed(r) /\ sweep' = [sweep EXCEPT ![w] = r]
  <2>. DEFINE resolved == [sweep[w] EXCEPT !.at = "commit",
                                    !.rows = Recipients[Current(w)] \ optedOut]
              thrown == [sweep[w] EXCEPT !.at = "fail", !.rows = {}]
  <2>1. /\ sweep[w] \in SweepRecords /\ sweep[w].todo = {}
        /\ sweep[w].mine # {} /\ Recipients[Current(w)] \subseteq Users
    BY <1>7, <1>b, Processing, NotificationsAssumption DEF Resolve, Throw, At
  <2>2. resolved \in SweepRecords /\ thrown \in SweepRecords
    BY <2>1 DEF SweepRecords
  <2>3. Placed(resolved) /\ Placed(thrown)
    BY <2>1 DEF SweepRecords
  <2>4. sweep' = [sweep EXCEPT ![w] = resolved] \/ sweep' = [sweep EXCEPT ![w] = thrown]
    BY <1>7 DEF Resolve, Throw, Goto
  <2>. QED
    BY <2>2, <2>3, <2>4
<1>8. ASSUME NEW w \in Sweeps, Commit(w) \/ RecordFailure(w)
      PROVE  \E r \in SweepRecords : Placed(r) /\ sweep' = [sweep EXCEPT ![w] = r]
  <2>1. Advance(w) /\ (At(w, "commit") \/ At(w, "fail"))
    BY <1>8 DEF Commit, RecordFailure
  <2>. QED
    BY <1>a, <2>1, Advanced DEF Sweep
<1>9. ASSUME NEW w \in Sweeps, Crash(w)
      PROVE  \E r \in SweepRecords : Placed(r) /\ sweep' = [sweep EXCEPT ![w] = r]
  BY <1>9, <1>a DEF Crash, Goto
<1>. QED
  BY <1>1, <1>2, <1>3, <1>4, <1>5, <1>6, <1>7, <1>8, <1>9 DEF Next, Continue

\* The part of TypeOK that is not about the sweeps.
RowsTyped ==
  /\ status \in [Events -> Statuses] /\ attempts \in [Events -> Nat]
  /\ held \in [Events -> 0 .. Oldest] /\ wait \in [Events -> 0 .. MaxWait]
  /\ copies \in [Events -> [Users -> Nat]] /\ optedOut \subseteq Fickle
  /\ retries \in 0 .. MaxRetries /\ crashes \in 0 .. MaxCrashes

(* Every step keeps the types.                                             *)
LEMMA TypeStep ==
  ASSUME TypeOK, [Next]_vars
  PROVE  TypeOK'
<1>a. SUFFICES RowsTyped'
  BY SweepStep DEF TypeOK, RowsTyped, Placed, At
<1>b. /\ status \in [Events -> Statuses] /\ attempts \in [Events -> Nat]
      /\ held \in [Events -> 0 .. Oldest] /\ wait \in [Events -> 0 .. MaxWait]
      /\ copies \in [Events -> [Users -> Nat]] /\ optedOut \subseteq Fickle
      /\ retries \in 0 .. MaxRetries /\ crashes \in 0 .. MaxCrashes
  BY DEF TypeOK
<1>c. /\ Lease \in Nat /\ MaxClaiming \in Nat /\ MaxWait \in Nat
      /\ MaxRetries \in Nat /\ MaxCrashes \in Nat
      /\ MaxAttempts \in Nat /\ Backoff \in [1 .. MaxAttempts -> 0 .. MaxWait]
  BY NotificationsAssumption
<1>d. {"PENDING", "PROCESSING", "PROCESSED", "FAILED"} \subseteq Statuses
  BY DEF Statuses
<1>1. CASE UNCHANGED vars
  BY <1>1, <1>b DEF vars, rowVars, envVars, RowsTyped
<1>2. ASSUME NEW e \in Events, Emit(e) PROVE RowsTyped'
  BY <1>2, <1>b, <1>d DEF Emit, envVars, RowsTyped
<1>3. ASSUME NEW e \in Events, RetryEvent(e) PROVE RowsTyped'
  BY <1>3, <1>b, <1>c, <1>d DEF RetryEvent, Oldest, RowsTyped
<1>4. ASSUME NEW u \in Fickle, ChangePreference(u) PROVE RowsTyped'
  BY <1>4, <1>b DEF ChangePreference, rowVars, RowsTyped
<1>5. CASE Tick
  <2>1. /\ \A n \in 0 .. Oldest : Older(n) \in 0 .. Oldest
        /\ \A n \in 0 .. MaxWait : Sooner(n) \in 0 .. MaxWait
        /\ 0 \in 0 .. Oldest
    BY <1>c DEF Older, Sooner, Oldest
  <2>2. held' \in [Events -> 0 .. Oldest] /\ wait' \in [Events -> 0 .. MaxWait]
    BY <1>5, <1>b, <2>1 DEF Tick
  <2>. QED
    BY <1>5, <1>b, <2>2 DEF Tick, envVars, RowsTyped
<1>6. ASSUME NEW w \in Sweeps, ReadCandidates(w) \/ Resolve(w) \/ Throw(w) PROVE RowsTyped'
  BY <1>6, <1>b DEF ReadCandidates, Resolve, Throw, rowVars, envVars, RowsTyped
<1>7. ASSUME NEW w \in Sweeps, Crash(w) PROVE RowsTyped'
  BY <1>7, <1>b, <1>c DEF Crash, rowVars, RowsTyped
<1>8. ASSUME NEW w \in Sweeps, Claim(w) PROVE RowsTyped'
  <2>1. sweep[w].age \in 0 .. Oldest
    BY <1>c DEF TypeOK, SweepRecords, Oldest
  <2>. QED
    BY <1>8, <1>b, <1>d, <2>1 DEF Claim, envVars, RowsTyped
<1>9. ASSUME NEW w \in Sweeps, Commit(w) PROVE RowsTyped'
  <2>1. Current(w) \in Events
    BY <1>9, Processing DEF Commit
  <2>2. copies' \in [Events -> [Users -> Nat]]
    BY <1>9, <1>b, <2>1 DEF Commit, InsertRows, Inserted
  <2>3. 0 \in 0 .. Oldest /\ 0 \in 0 .. MaxWait
    BY <1>c DEF Oldest
  <2>. QED
    BY <1>9, <1>b, <1>d, <2>1, <2>2, <2>3 DEF Commit, envVars, RowsTyped
<1>10. ASSUME NEW w \in Sweeps, RecordFailure(w) PROVE RowsTyped'
  <2>1. Current(w) \in Events /\ sweep[w].seen \in [Events -> Nat]
    BY <1>10, Processing DEF RecordFailure
  <2>. DEFINE e == Current(w)
              n == sweep[w].seen[e] + 1
  <2>2. n \in Nat /\ n >= 1
    BY <2>1
  <2>3. (IF Terminal(n) THEN 0 ELSE Backoff[n]) \in 0 .. MaxWait
    <3>. HIDE DEF n
    <3>. QED
      BY <1>c, <2>2 DEF Terminal
  <2>4. CASE Failable(e)
    <3>1. /\ status' = [status EXCEPT ![e] = IF Terminal(n) THEN "FAILED" ELSE "PENDING"]
          /\ attempts' = [attempts EXCEPT ![e] = @ + 1]
          /\ held' = [held EXCEPT ![e] = 0]
          /\ wait' = [wait EXCEPT ![e] = IF Terminal(n) THEN 0 ELSE Backoff[n]]
          /\ UNCHANGED <<copies, envVars>>
      BY <1>10, <2>4 DEF RecordFailure
    <3>2. 0 \in 0 .. Oldest
      BY <1>c DEF Oldest
    <3>. HIDE DEF n
    <3>. QED
      BY <1>b, <1>d, <2>1, <2>3, <3>1, <3>2 DEF envVars, RowsTyped
  <2>5. CASE ~Failable(e)
    BY <1>10, <1>b, <2>5 DEF RecordFailure, rowVars, envVars, RowsTyped
  <2>. QED
    BY <2>4, <2>5
<1>. QED
  BY <1>1, <1>2, <1>3, <1>4, <1>5, <1>6, <1>7, <1>8, <1>9, <1>10 DEF Next, Continue

-----------------------------------------------------------------------------
(* A status guard of the code in front of every write but Commit's: no     *)
(* step takes PROCESSED, a Notification row or a counted attempt back.     *)
Forward(e) ==
  /\ status[e] = "PROCESSED" => status'[e] = "PROCESSED"
  /\ attempts'[e] >= attempts[e]
  /\ \A u \in Users : copies'[e][u] >= copies[e][u]

\* Every step goes forward only: nothing that was created, sent or claimed is taken back.
LEMMA StepForward ==
  ASSUME TypeOK, [Next]_vars
  PROVE  \A e \in Events : Forward(e)
<1>b. /\ status \in [Events -> Statuses] /\ attempts \in [Events -> Nat]
      /\ copies \in [Events -> [Users -> Nat]]
  BY DEF TypeOK
<1>1. CASE UNCHANGED vars
  BY <1>1, <1>b DEF vars, rowVars, Forward
<1>2. ASSUME NEW f \in Events, Emit(f) \/ RetryEvent(f) PROVE \A e \in Events : Forward(e)
  BY <1>2, <1>b DEF Emit, RetryEvent, Retryable, Forward
<1>3. ASSUME NEW u \in Fickle, ChangePreference(u) PROVE \A e \in Events : Forward(e)
  BY <1>3, <1>b DEF ChangePreference, rowVars, Forward
<1>4. CASE Tick
  BY <1>4, <1>b DEF Tick, Forward
<1>5. ASSUME NEW w \in Sweeps, ReadCandidates(w) \/ Resolve(w) \/ Throw(w) \/ Crash(w)
      PROVE  \A e \in Events : Forward(e)
  BY <1>5, <1>b DEF ReadCandidates, Resolve, Throw, Crash, rowVars, Forward
<1>6. ASSUME NEW w \in Sweeps, Claim(w) PROVE \A e \in Events : Forward(e)
  BY <1>6, <1>b DEF Claim, Claimable, Stale, Forward
<1>7. ASSUME NEW w \in Sweeps, Commit(w) PROVE \A e \in Events : Forward(e)
  <2>1. Current(w) \in Events
    BY <1>7, Processing DEF Commit
  <2>. QED
    BY <1>7, <1>b, <2>1 DEF Commit, InsertRows, Inserted, Forward
<1>8. ASSUME NEW w \in Sweeps, RecordFailure(w) PROVE \A e \in Events : Forward(e)
  <2>1. Current(w) \in Events
    BY <1>8, Processing DEF RecordFailure
  <2>. QED
    BY <1>8, <1>b, <2>1 DEF RecordFailure, Failable, rowVars, Forward
<1>. QED
  BY <1>1, <1>2, <1>3, <1>4, <1>5, <1>6, <1>7, <1>8 DEF Next, Continue

(* A sweep moves only in a step of its own, or when time passes.           *)
LEMMA SweepFrame ==
  ASSUME TypeOK, [Next]_vars, NEW v \in Sweeps
  PROVE  sweep'[v] = sweep[v] \/ Tick \/ ReadCandidates(v) \/ Continue(v) \/ Crash(v)
<1>1. CASE UNCHANGED vars
  BY <1>1 DEF vars
<1>2. CASE \E e \in Events : Emit(e) \/ RetryEvent(e)
  BY <1>2 DEF Emit, RetryEvent
<1>3. CASE \E u \in Fickle : ChangePreference(u)
  BY <1>3 DEF ChangePreference
<1>4. ASSUME NEW w \in Sweeps \ {v}, ReadCandidates(w) \/ Continue(w) \/ Crash(w)
      PROVE  sweep'[v] = sweep[v]
  BY <1>4 DEF TypeOK, ReadCandidates, Continue, Claim, Resolve, Commit, Throw, RecordFailure,
     Advance, Crash, Goto
<1>. QED
  BY <1>1, <1>2, <1>3, <1>4 DEF Next

(* What a sweep carries stays true: the attempts it read were recorded     *)
(* before it or are recorded by it, and the rows it builds are for the     *)
(* event it is at.                                                         *)
LEMMA CarriedStep ==
  ASSUME TypeOK, [Next]_vars, NEW v \in Sweeps, RowsOK(v), SeenOK(v)
  PROVE  RowsOK(v)' /\ SeenOK(v)'
<1>a. /\ sweep \in [Sweeps -> SweepRecords] /\ attempts \in [Events -> Nat]
      /\ attempts' \in [Events -> Nat]
      /\ \A e \in Events : attempts'[e] >= attempts[e]
      /\ \A e \in Events : sweep[v].seen[e] \in Nat /\ sweep[v].seen[e] <= attempts[e]
  BY TypeStep, StepForward DEF TypeOK, Forward, SeenOK, SweepRecords
<1>b. ASSUME sweep'[v].seen = Unseen \/ sweep'[v].seen = sweep[v].seen,
             sweep'[v].at # "commit" \/ sweep'[v] = sweep[v]
      PROVE  RowsOK(v)' /\ SeenOK(v)'
  <2>1. SeenOK(v)'
    BY <1>a, <1>b DEF SeenOK, Unseen
  <2>2. RowsOK(v)'
    BY <1>b DEF RowsOK, At, Current
  <2>. QED
    BY <2>1, <2>2
<1>1. CASE sweep'[v] = sweep[v]
  BY <1>1, <1>b
<1>c. Idle.at = "idle" /\ Idle.seen = Unseen
  BY DEF Idle, Sweep
<1>2. CASE Tick
  BY <1>2, <1>a, <1>b, <1>1 DEF Tick, At, SweepRecords
<1>3. CASE ReadCandidates(v)
  <2>1. /\ sweep'[v].at = "claim"
        /\ \A e \in Events : sweep'[v].seen[e] = 0 \/ sweep'[v].seen[e] = attempts[e]
    BY <1>3, <1>a DEF ReadCandidates, Goto, Sweep
  <2>. QED
    BY <1>a, <2>1 DEF RowsOK, SeenOK, At
<1>4. CASE Claim(v)
  <2>. DEFINE e == Earliest(sweep[v].todo)
  <2>1. /\ sweep[v].seen \in [Events -> Nat] /\ e \in Events
    <3>1. sweep[v].todo \in SUBSET Events /\ sweep[v].todo # {}
      BY <1>4, <1>a DEF Claim, TypeOK, SweepRecords
    <3>. QED
      BY <1>a, <3>1, EarliestIn DEF SweepRecords
  <2>2. /\ sweep'[v].at \in {"claim", "resolve", "idle"}
        /\ sweep'[v].seen \in {Unseen, sweep[v].seen, [sweep[v].seen EXCEPT ![e] = 0]}
    BY <1>4, <1>a, <1>c DEF Claim, Goto, Sweep
  <2>3. \A f \in Events : sweep'[v].seen[f] = 0 \/ sweep'[v].seen[f] = sweep[v].seen[f]
    BY <2>1, <2>2 DEF Unseen
  <2>. QED
    BY <1>a, <2>2, <2>3 DEF RowsOK, SeenOK, At
<1>5. CASE Resolve(v)
  <2>1. /\ sweep'[v].rows = Recipients[Current(v)] \ optedOut
        /\ sweep'[v].mine = sweep[v].mine /\ sweep'[v].seen = sweep[v].seen
    BY <1>5, <1>a DEF Resolve, Goto, SweepRecords
  <2>2. Current(v)' = Current(v)
    BY <2>1 DEF Current
  <2>3. optedOut \subseteq Fickle
    BY DEF TypeOK
  <2>. QED
    BY <1>a, <2>1, <2>2, <2>3 DEF RowsOK, SeenOK
<1>6. CASE Throw(v)
  BY <1>6, <1>a, <1>b DEF Throw, Goto, SweepRecords
<1>7. CASE Commit(v) \/ RecordFailure(v)
  <2>1. PICK seen \in [Events -> Nat], r \in SweepRecords :
           /\ \A e \in Events : seen[e] <= sweep[v].seen[e]
           /\ r = Idle \/ \E left \in SUBSET Events :
                            r = Sweep("resolve", 0, {}, left, seen, {}) /\ left # {}
           /\ sweep' = [sweep EXCEPT ![v] = r]
    BY <1>7, Advanced DEF Commit, RecordFailure
  <2>2. sweep'[v].at # "commit" /\ sweep'[v].seen \in {Unseen, seen}
    BY <1>a, <1>c, <2>1 DEF Sweep
  <2>3. \A e \in Events : sweep'[v].seen[e] <= attempts[e] /\ sweep'[v].seen[e] \in Nat
    BY <1>a, <2>1, <2>2 DEF Unseen
  <2>. QED
    BY <1>a, <2>2, <2>3 DEF RowsOK, SeenOK, At
<1>8. CASE Crash(v)
  BY <1>8, <1>a, <1>b, <1>c DEF Crash, Goto
<1>9. sweep'[v] = sweep[v] \/ Tick \/ ReadCandidates(v) \/ Continue(v) \/ Crash(v)
  BY SweepFrame
<1>. QED
  BY <1>1, <1>2, <1>3, <1>4, <1>5, <1>6, <1>7, <1>8, <1>9 DEF Continue

-----------------------------------------------------------------------------
(* The three statements about rows that are stable under every step.       *)
LEMMA RowsStep ==
  ASSUME IInv, [Next]_vars
  PROVE  RowsComeWithProcessed' /\ NobodyToldTwice' /\ FailedWasAttempted'
<1>. DEFINE RowOK(e) ==
       /\ \A u \in Users : /\ copies[e][u] > 0 => status[e] = "PROCESSED" /\ u \in Recipients[e]
                           /\ status[e] = "PROCESSED" /\ u \in Recipients[e] \ Fickle
                                => copies[e][u] > 0
                           /\ copies[e][u] <= 1
       /\ status[e] = "FAILED" => attempts[e] >= MaxAttempts
<1>a. /\ status \in [Events -> Statuses] /\ attempts \in [Events -> Nat]
      /\ copies \in [Events -> [Users -> Nat]]
  BY DEF IInv, TypeOK
<1>b. ASSUME NEW e \in Events PROVE RowOK(e)
  BY DEF IInv, RowsComeWithProcessed, NobodyToldTwice, FailedWasAttempted
<1>c. MaxAttempts \in Nat
  BY NotificationsAssumption
<1>d. SUFFICES ASSUME NEW e \in Events
               PROVE /\ \A u \in Users :
                          /\ copies'[e][u] > 0 => status'[e] = "PROCESSED" /\ u \in Recipients[e]
                          /\ status'[e] = "PROCESSED" /\ u \in Recipients[e] \ Fickle
                               => copies'[e][u] > 0
                          /\ copies'[e][u] <= 1
                     /\ status'[e] = "FAILED" => attempts'[e] >= MaxAttempts
  BY DEF RowsComeWithProcessed, NobodyToldTwice, FailedWasAttempted
<1>1. CASE /\ copies' = copies /\ attempts' = attempts
           /\ status'[e] = status[e]
              \/ (status[e] # "PROCESSED" /\ status'[e] \in {"PENDING", "PROCESSING"})
  BY <1>1, <1>b
<1>2. CASE \E w \in Sweeps : Commit(w)
  <2>. PICK w \in Sweeps : Commit(w)
    BY <1>2
  <2>1. Current(w) \in Events
    BY Processing DEF Commit, IInv
  <2>2. RowsOK(w)
    BY DEF IInv
  <2>3. CASE e = Current(w)
    <3>1. /\ status'[e] = "PROCESSED"
          /\ \A u \in Users : copies'[e][u] = IF u \in sweep[w].rows THEN Inserted(copies[e][u])
                                                                     ELSE copies[e][u]
      BY <1>a, <2>1, <2>3 DEF Commit, InsertRows
    <3>2. /\ sweep[w].rows \subseteq Recipients[e]
          /\ Recipients[e] \ Fickle \subseteq sweep[w].rows
      BY <2>2, <2>3 DEF RowsOK, Commit
    <3>3. \A u \in Users : copies[e][u] \in Nat
      BY <1>a
    <3>. QED
      BY <1>b, <3>1, <3>2, <3>3 DEF Inserted
  <2>4. CASE e # Current(w)
    <3>1. status'[e] = status[e] /\ attempts'[e] = attempts[e] /\ copies'[e] = copies[e]
      BY <1>a, <2>1, <2>4 DEF Commit, InsertRows
    <3>. QED
      BY <1>b, <3>1
  <2>. QED
    BY <2>3, <2>4
<1>3. CASE \E w \in Sweeps : RecordFailure(w)
  <2>. PICK w \in Sweeps : RecordFailure(w)
    BY <1>3
  <2>1. Current(w) \in Events /\ sweep[w].seen \in [Events -> Nat]
    BY Processing DEF RecordFailure, IInv
  <2>2. copies' = copies
    BY DEF RecordFailure
  <2>3. CASE e = Current(w) /\ Failable(e)
    <3>1. /\ status[e] # "PROCESSED" /\ attempts'[e] = attempts[e] + 1
          /\ status'[e] = IF Terminal(sweep[w].seen[e] + 1) THEN "FAILED" ELSE "PENDING"
      BY <1>a, <2>1, <2>3 DEF RecordFailure, Failable
    <3>2. sweep[w].seen[e] <= attempts[e] /\ sweep[w].seen[e] \in Nat /\ attempts[e] \in Nat
      BY <1>a, <2>1 DEF IInv, SeenOK
    <3>. QED
      BY <1>b, <1>c, <2>2, <3>1, <3>2 DEF Terminal
  <2>4. CASE ~(e = Current(w) /\ Failable(e))
    <3>1. status'[e] = status[e] /\ attempts'[e] = attempts[e]
      BY <1>a, <2>1, <2>4 DEF RecordFailure, rowVars
    <3>. QED
      BY <1>b, <2>2, <3>1
  <2>. QED
    BY <2>3, <2>4
<1>4. CASE UNCHANGED vars
  BY <1>4, <1>1 DEF vars, rowVars
<1>5. ASSUME NEW f \in Events, Emit(f) \/ RetryEvent(f)
      PROVE  /\ copies' = copies /\ attempts' = attempts
             /\ status'[e] = status[e]
                \/ (status[e] # "PROCESSED" /\ status'[e] \in {"PENDING", "PROCESSING"})
  BY <1>5, <1>a DEF Emit, RetryEvent, Retryable
<1>6. CASE \E u \in Fickle : ChangePreference(u)
  BY <1>6, <1>1 DEF ChangePreference, rowVars
<1>7. CASE Tick
  BY <1>7, <1>1 DEF Tick
<1>8. ASSUME NEW w \in Sweeps,
             ReadCandidates(w) \/ Claim(w) \/ Resolve(w) \/ Throw(w) \/ Crash(w)
      PROVE  /\ copies' = copies /\ attempts' = attempts
             /\ status'[e] = status[e]
                \/ (status[e] # "PROCESSED" /\ status'[e] \in {"PENDING", "PROCESSING"})
  BY <1>8, <1>a DEF ReadCandidates, Claim, Claimable, Stale, Resolve, Throw, Crash, rowVars
<1>. QED
  BY <1>1, <1>2, <1>3, <1>4, <1>5, <1>6, <1>7, <1>8 DEF Next, Continue

-----------------------------------------------------------------------------
(* The invariant holds in every reachable state, whatever sweeps overlap,  *)
(* fail, die or are retried.                                               *)
THEOREM Invariance == Spec => []IInv
<1>1. IInv /\ [Next]_vars => IInv'
  BY TypeStep, CarriedStep, RowsStep DEF IInv
<1>. QED
  BY InitInv, <1>1, PTL DEF Spec

(* Every row and every sweep in flight holds values of their types.        *)
THEOREM TypeCorrect == Spec => []TypeOK
BY Invariance, PTL DEF IInv

(* processOne is all or nothing: the rows of an event come with PROCESSED. *)
THEOREM AllOrNothing == Spec => []RowsComeWithProcessed
BY Invariance, PTL DEF IInv

(* Processing an event again, as a stale lease allows, tells nobody twice. *)
THEOREM NoDuplicates == Spec => []NobodyToldTwice
BY Invariance, PTL DEF IInv

(* An event is given up only after MaxAttempts attempts, although the      *)
(* decision is made on a count that may be out of date.                    *)
THEOREM GivenUpLate == Spec => []FailedWasAttempted
BY Invariance, PTL DEF IInv

(* PROCESSED and the notifications of an event are never taken back.       *)
THEOREM Final == Spec => ProcessedIsFinal
<1>1. ASSUME IInv, [Next]_vars
      PROVE  [\A e \in Events :
               /\ status[e] = "PROCESSED" => status'[e] = "PROCESSED"
               /\ \A u \in Users : copies'[e][u] >= copies[e][u]]_vars
  BY <1>1, StepForward DEF IInv, Forward
<1>. QED
  BY <1>1, Invariance, PTL DEF Spec, ProcessedIsFinal

-----------------------------------------------------------------------------
(* Attempts are bounded.  The sweeps that hold an event may each still     *)
(* commit it once after it ended; those that read it before its last but   *)
(* one attempt may each put it back to PENDING once.                       *)

Ended == {"PROCESSED", "FAILED"}
Owners(e) == {w \in Sweeps : e \in sweep[w].mine}
Early(e) == {w \in Sweeps : /\ e \in sweep[w].todo \cup sweep[w].mine
                            /\ sweep[w].seen[e] + 1 < MaxAttempts}
Others == Cardinality(Sweeps) - 1

\* What is left of the attempts an event may see.
Budget(e) ==
  /\ status[e] \in Ended => attempts[e] + Cardinality(Owners(e)) <= MaxAttempts + 2 * Others
  /\ status[e] \notin Ended /\ attempts[e] + 1 >= MaxAttempts =>
       attempts[e] + Cardinality(Early(e)) + 1 <= MaxAttempts + Others

BInv == /\ \A w \in Sweeps : sweep[w].todo \cap sweep[w].mine = {}
        /\ retries = 0 => \A e \in Events : Budget(e)

(* Counting sets of sweeps.                                                *)
LEMMA SweepCounts ==
  /\ Others \in Nat /\ Cardinality(Sweeps) = Others + 1
  /\ \A S \in SUBSET Sweeps : Cardinality(S) \in Nat
  /\ \A S, T \in SUBSET Sweeps : S \subseteq T => Cardinality(S) <= Cardinality(T)
  /\ \A S, T \in SUBSET Sweeps : \A w \in T :
       S \subseteq T \ {w} => Cardinality(S) + 1 <= Cardinality(T)
<1>1. \A S \in SUBSET Sweeps : IsFiniteSet(S) /\ Cardinality(S) \in Nat
  BY SweepsAssumption, FS_Subset, FS_CardinalityType
<1>2. \A S, T \in SUBSET Sweeps : S \subseteq T => Cardinality(S) <= Cardinality(T)
  BY <1>1, FS_Subset
<1>3. \A S, T \in SUBSET Sweeps : \A w \in T :
        S \subseteq T \ {w} => Cardinality(S) + 1 <= Cardinality(T)
  <2>1. SUFFICES ASSUME NEW S \in SUBSET Sweeps, NEW T \in SUBSET Sweeps, NEW w \in T,
                        S \subseteq T \ {w}
                 PROVE  Cardinality(S) + 1 <= Cardinality(T)
    OBVIOUS
  <2>2. Cardinality(T \ {w}) = Cardinality(T) - 1
    BY <1>1, FS_RemoveElement
  <2>3. Cardinality(S) <= Cardinality(T \ {w})
    BY <1>2, <2>1
  <2>4. Cardinality(S) \in Nat /\ Cardinality(T) \in Nat
    BY <1>1
  <2>. QED
    BY <2>2, <2>3, <2>4
<1>4. Others \in Nat /\ Cardinality(Sweeps) = Others + 1
  <2>1. PICK w \in Sweeps : TRUE
    BY SweepsAssumption
  <2>2. {} \in SUBSET Sweeps /\ Sweeps \in SUBSET Sweeps /\ {} \subseteq Sweeps \ {w}
    OBVIOUS
  <2>3. Cardinality({}) + 1 <= Cardinality(Sweeps) /\ Cardinality(Sweeps) \in Nat
    BY <1>1, <1>3, <2>1, <2>2
  <2>4. Cardinality({}) = 0
    BY FS_EmptySet
  <2>. QED
    BY <2>3, <2>4 DEF Others
<1>. QED
  BY <1>1, <1>2, <1>3, <1>4

(* A sweep that is done with an event no longer holds it, and keeps what   *)
(* it read of the others.                                                  *)
LEMMA AdvanceReleases ==
  ASSUME TypeOK, NEW w \in Sweeps, Advance(w), At(w, "commit") \/ At(w, "fail")
  PROVE  /\ sweep'[w].todo = {}
         /\ sweep'[w].mine = sweep[w].mine \ {Current(w)}
         /\ \A e \in sweep'[w].mine : sweep'[w].seen[e] = sweep[w].seen[e]
         /\ \A v \in Sweeps \ {w} : sweep'[v] = sweep[v]
<1>1. /\ sweep[w].mine \in SUBSET Events
      /\ sweep[w].seen \in [Events -> Nat] /\ Current(w) \in Events
      /\ sweep \in [Sweeps -> SweepRecords]
  BY Processing DEF TypeOK
<1>. DEFINE left == sweep[w].mine \ {Current(w)}
            seen == [sweep[w].seen EXCEPT ![Current(w)] = 0]
<1>2. sweep' = [sweep EXCEPT ![w] = IF left = {} THEN Idle
                                   ELSE Sweep("resolve", 0, {}, left, seen, {})]
  BY DEF Advance, Goto
<1>3. \A e \in left : seen[e] = sweep[w].seen[e]
  BY <1>1
<1>. HIDE DEF left, seen
<1>4. /\ sweep'[w].todo = {} /\ sweep'[w].mine = left
      /\ \A e \in sweep'[w].mine : sweep'[w].seen[e] = sweep[w].seen[e]
      /\ \A v \in Sweeps \ {w} : sweep'[v] = sweep[v]
  BY <1>1, <1>2, <1>3 DEF Idle, Sweep
<1>. QED
  BY <1>4 DEF left

\* In r', a later record of the same sweep, it holds nothing of event e that it did not in r.
NoMore(r, later, e) ==
  /\ e \in later.mine => e \in r.mine
  /\ e \in later.todo => e \in r.todo
  /\ e \in later.todo \cup later.mine => later.seen[e] = r.seen[e]

(* A sweep comes to hold an event only by claiming it, and read it before  *)
(* that, or reads it now.                                                  *)
LEMMA HoldingStep ==
  ASSUME TypeOK, [Next]_vars, NEW v \in Sweeps, NEW e \in Events,
         sweep[v].todo \cap sweep[v].mine = {}
  PROVE  /\ e \notin sweep'[v].todo \cap sweep'[v].mine
         /\ e \in sweep'[v].mine => e \in sweep[v].mine \/ status[e] \notin Ended
         /\ e \in sweep'[v].todo \cup sweep'[v].mine =>
              \/ sweep'[v].seen[e] = attempts[e]
              \/ e \in sweep[v].todo \cup sweep[v].mine /\ sweep'[v].seen[e] = sweep[v].seen[e]
<1>. DEFINE Held ==
       /\ e \notin sweep'[v].todo \cap sweep'[v].mine
       /\ e \in sweep'[v].mine => e \in sweep[v].mine \/ status[e] \notin Ended
       /\ e \in sweep'[v].todo \cup sweep'[v].mine =>
            \/ sweep'[v].seen[e] = attempts[e]
            \/ e \in sweep[v].todo \cup sweep[v].mine /\ sweep'[v].seen[e] = sweep[v].seen[e]
<1>a. sweep \in [Sweeps -> SweepRecords] /\ sweep[v] \in SweepRecords
  BY DEF TypeOK
<1>b. CASE NoMore(sweep[v], sweep'[v], e)
  BY <1>b DEF NoMore
<1>1. CASE sweep'[v] = sweep[v]
  BY <1>1
<1>2. CASE Tick
  <2>1. /\ sweep'[v].todo = sweep[v].todo /\ sweep'[v].mine = sweep[v].mine
        /\ sweep'[v].seen = sweep[v].seen
    BY <1>2, <1>a DEF Tick, SweepRecords
  <2>2. NoMore(sweep[v], sweep'[v], e)
    BY <2>1 DEF NoMore
  <2>. QED
    BY <1>b, <2>2
<1>3. CASE ReadCandidates(v)
  BY <1>3, <1>a DEF ReadCandidates, Goto, Sweep
<1>4. CASE Claim(v)
  <2>. DEFINE f == Earliest(sweep[v].todo)
              left == sweep[v].todo \ {f}
              won == Claimable(f, sweep[v].age)
              mine == IF won THEN sweep[v].mine \cup {f} ELSE sweep[v].mine
              seen == IF won THEN sweep[v].seen ELSE [sweep[v].seen EXCEPT ![f] = 0]
  <2>1. /\ sweep[v].todo \in SUBSET Events /\ sweep[v].todo # {} /\ f \in sweep[v].todo
        /\ sweep[v].seen \in [Events -> Nat]
    BY <1>4, <1>a, EarliestIn DEF Claim, TypeOK, SweepRecords
  <2>2. sweep'[v] = IF left # {} THEN Sweep("claim", sweep[v].age, left, mine, seen, {})
                    ELSE IF mine # {} THEN Sweep("resolve", 0, {}, mine, seen, {})
                    ELSE Idle
    BY <1>4, <1>a DEF Claim, Goto
  <2>3. won => status[f] \notin Ended
    BY DEF Claimable, Stale, Ended
  <2>4. /\ e \in mine => e \in sweep[v].mine \/ status[e] \notin Ended
        /\ e \in left \cup mine => e \in sweep[v].todo \cup sweep[v].mine
        /\ e \notin left \cap mine
        /\ e \in left \cup mine => seen[e] = sweep[v].seen[e]
    BY <2>1, <2>3
  <2>. HIDE DEF left, mine, seen, won, f
  <2>5. \/ /\ sweep'[v].todo = left /\ sweep'[v].mine = mine /\ sweep'[v].seen = seen
        \/ sweep'[v] = Idle
    BY <2>2 DEF Sweep
  <2>. QED
    BY <2>4, <2>5 DEF Sweep, Idle
<1>5. CASE Resolve(v) \/ Throw(v)
  <2>. DEFINE resolved == [sweep[v] EXCEPT !.at = "commit",
                                           !.rows = Recipients[Current(v)] \ optedOut]
              thrown == [sweep[v] EXCEPT !.at = "fail", !.rows = {}]
  <2>a. sweep'[v] = resolved \/ sweep'[v] = thrown
    BY <1>5, <1>a DEF Resolve, Throw, Goto
  <2>b. /\ resolved.todo = sweep[v].todo /\ thrown.todo = sweep[v].todo
        /\ resolved.mine = sweep[v].mine /\ thrown.mine = sweep[v].mine
        /\ resolved.seen = sweep[v].seen /\ thrown.seen = sweep[v].seen
    BY <1>a DEF SweepRecords
  <2>1. /\ sweep'[v].todo = sweep[v].todo /\ sweep'[v].mine = sweep[v].mine
        /\ sweep'[v].seen = sweep[v].seen
    <3>. HIDE DEF resolved, thrown
    <3>. QED
      BY <2>a, <2>b
  <2>2. NoMore(sweep[v], sweep'[v], e)
    BY <2>1 DEF NoMore
  <2>. QED
    BY <1>b, <2>2
<1>6. CASE Commit(v) \/ RecordFailure(v)
  <2>1. NoMore(sweep[v], sweep'[v], e)
    BY <1>6, AdvanceReleases DEF Commit, RecordFailure, NoMore
  <2>. QED
    BY <1>b, <2>1
<1>7. CASE Crash(v)
  BY <1>7, <1>a, <1>b DEF Crash, Goto, Idle, Sweep, NoMore
<1>8. sweep'[v] = sweep[v] \/ Tick \/ ReadCandidates(v) \/ Continue(v) \/ Crash(v)
  BY SweepFrame
<1>. QED
  BY <1>1, <1>2, <1>3, <1>4, <1>5, <1>6, <1>7, <1>8 DEF Continue

(* Once an event ended no sweep claims it, and from its last but one       *)
(* attempt on no sweep reads it early.                                     *)
LEMMA HoldersOnlyLeave ==
  ASSUME TypeOK, [Next]_vars, NEW e \in Events,
         \A w \in Sweeps : sweep[w].todo \cap sweep[w].mine = {}
  PROVE  /\ status[e] \in Ended => Owners(e)' \subseteq Owners(e)
         /\ attempts[e] + 1 >= MaxAttempts => Early(e)' \subseteq Early(e)
<1>1. attempts[e] \in Nat /\ MaxAttempts \in Nat
  BY NotificationsAssumption DEF TypeOK
<1>2. status[e] \in Ended => Owners(e)' \subseteq Owners(e)
  BY HoldingStep DEF Owners
<1>3. ASSUME attempts[e] + 1 >= MaxAttempts, NEW v \in Early(e)' PROVE v \in Early(e)
  <2>1. v \in Sweeps /\ e \in sweep'[v].todo \cup sweep'[v].mine
        /\ sweep'[v].seen[e] + 1 < MaxAttempts
    BY <1>3 DEF Early
  <2>2. sweep'[v].seen[e] # attempts[e]
    BY <1>1, <1>3, <2>1
  <2>. QED
    BY <2>1, <2>2, HoldingStep DEF Early
<1>. QED
  BY <1>2, <1>3

(* An attempt uses up its share of the budget.                             *)
LEMMA BudgetStep ==
  ASSUME IInv, BInv, [Next]_vars, retries = 0, retries' = 0, NEW e \in Events
  PROVE  Budget(e)'
<1>a. /\ attempts \in [Events -> Nat] /\ status \in [Events -> Statuses]
      /\ attempts[e] \in Nat /\ MaxAttempts \in Nat /\ Budget(e)
      /\ TypeOK /\ \A w \in Sweeps : sweep[w].todo \cap sweep[w].mine = {}
  BY NotificationsAssumption DEF IInv, BInv, TypeOK
<1>b. /\ Owners(e) \in SUBSET Sweeps /\ Early(e) \in SUBSET Sweeps
      /\ Owners(e)' \in SUBSET Sweeps /\ Early(e)' \in SUBSET Sweeps
      /\ Sweeps \in SUBSET Sweeps
  BY DEF Owners, Early
<1>c. /\ Cardinality(Owners(e)) \in Nat /\ Cardinality(Early(e)) \in Nat
      /\ Cardinality(Owners(e)') \in Nat /\ Cardinality(Early(e)') \in Nat
      /\ Others \in Nat
  BY <1>b, SweepCounts
<1>d. /\ status[e] \in Ended => Owners(e)' \subseteq Owners(e)
      /\ attempts[e] + 1 >= MaxAttempts => Early(e)' \subseteq Early(e)
  BY <1>a, HoldersOnlyLeave
<1>e. Budget(e)' <=>
        /\ status'[e] \in Ended =>
             attempts'[e] + Cardinality(Owners(e)') <= MaxAttempts + 2 * Others
        /\ status'[e] \notin Ended /\ attempts'[e] + 1 >= MaxAttempts =>
             attempts'[e] + Cardinality(Early(e)') + 1 <= MaxAttempts + Others
  BY DEF Budget, Others
<1>1. CASE attempts'[e] = attempts[e] /\ (status'[e] \in Ended <=> status[e] \in Ended)
  <2>1. status[e] \in Ended => Cardinality(Owners(e)') <= Cardinality(Owners(e))
    BY <1>b, <1>d, SweepCounts
  <2>2. attempts[e] + 1 >= MaxAttempts => Cardinality(Early(e)') <= Cardinality(Early(e))
    BY <1>b, <1>d, SweepCounts
  <2>. QED
    BY <1>1, <1>a, <1>c, <1>e, <2>1, <2>2 DEF Budget
<1>2. ASSUME NEW w \in Sweeps, Advance(w), At(w, "commit") \/ At(w, "fail"), e = Current(w),
             attempts'[e] = attempts[e] + 1,
             \/ status'[e] \in Ended
             \/ /\ status[e] \notin Ended /\ status'[e] \notin Ended
                /\ sweep[w].seen[e] + 1 < MaxAttempts
      PROVE  Budget(e)'
  <2>1. w \in Owners(e) /\ w \notin Owners(e)' /\ w \notin Early(e)'
    <3>1. e \in sweep[w].mine
      BY <1>2, <1>a, EarliestIn DEF Current, TypeOK, At, SweepRecords
    <3>2. e \notin sweep'[w].mine /\ e \notin sweep'[w].todo
      BY <1>2, <1>a, AdvanceReleases
    <3>. QED
      BY <3>1, <3>2 DEF Owners, Early
  <2>2. Cardinality(Owners(e)') <= Others /\ Cardinality(Early(e)') <= Others
    <3>1. Owners(e)' \subseteq Sweeps \ {w} /\ Early(e)' \subseteq Sweeps \ {w}
      BY <1>b, <2>1
    <3>2. /\ Cardinality(Owners(e)') + 1 <= Cardinality(Sweeps)
          /\ Cardinality(Early(e)') + 1 <= Cardinality(Sweeps)
      BY <1>b, <3>1, SweepCounts
    <3>. QED
      BY <1>c, <3>2, SweepCounts
  <2>3. status[e] \in Ended => Cardinality(Owners(e)') + 1 <= Cardinality(Owners(e))
    <3>1. status[e] \in Ended => Owners(e)' \subseteq Owners(e) \ {w}
      BY <1>d, <2>1
    <3>. QED
      BY <1>b, <2>1, <3>1, SweepCounts
  <2>4. CASE status'[e] \in Ended
    BY <1>2, <1>a, <1>c, <1>e, <2>2, <2>3, <2>4 DEF Budget
  <2>5. CASE /\ status[e] \notin Ended /\ status'[e] \notin Ended
             /\ sweep[w].seen[e] + 1 < MaxAttempts
    <3>1. w \in Early(e)
      BY <2>1, <2>5 DEF Owners, Early
    <3>2. attempts[e] + 1 >= MaxAttempts => Cardinality(Early(e)') + 1 <= Cardinality(Early(e))
      <4>1. attempts[e] + 1 >= MaxAttempts => Early(e)' \subseteq Early(e) \ {w}
        BY <1>d, <2>1
      <4>. QED
        BY <1>b, <3>1, <4>1, SweepCounts
    <3>. QED
      BY <1>2, <1>a, <1>c, <1>e, <2>2, <2>5, <3>2 DEF Budget
  <2>. QED
    BY <1>2, <2>4, <2>5
<1>3. CASE UNCHANGED vars \/ Tick \/ \E u \in Fickle : ChangePreference(u)
  BY <1>3, <1>1 DEF vars, rowVars, Tick, ChangePreference
<1>4. ASSUME NEW f \in Events, Emit(f) \/ RetryEvent(f) PROVE Budget(e)'
  <2>1. ~RetryEvent(f)
    BY DEF RetryEvent
  <2>2. attempts'[e] = attempts[e] /\ (status'[e] \in Ended <=> status[e] \in Ended)
    BY <1>4, <1>a, <2>1 DEF Emit, Ended
  <2>. QED
    BY <1>1, <2>2
<1>5. ASSUME NEW w \in Sweeps,
             ReadCandidates(w) \/ Claim(w) \/ Resolve(w) \/ Throw(w) \/ Crash(w)
      PROVE  Budget(e)'
  <2>1. attempts'[e] = attempts[e] /\ (status'[e] \in Ended <=> status[e] \in Ended)
    BY <1>5, <1>a DEF ReadCandidates, Claim, Claimable, Stale, Resolve, Throw, Crash, rowVars,
       Ended
  <2>. QED
    BY <1>1, <2>1
<1>6. ASSUME NEW w \in Sweeps, Commit(w) PROVE Budget(e)'
  <2>1. CASE e = Current(w)
    <3>1. attempts'[e] = attempts[e] + 1 /\ status'[e] = "PROCESSED"
      BY <1>6, <1>a, <2>1 DEF Commit
    <3>. QED
      BY <1>2, <1>6, <2>1, <3>1 DEF Commit, Ended
  <2>2. CASE e # Current(w)
    <3>1. attempts'[e] = attempts[e] /\ status'[e] = status[e]
      BY <1>6, <1>a, <2>2 DEF Commit
    <3>. QED
      BY <1>1, <3>1
  <2>. QED
    BY <2>1, <2>2
<1>7. ASSUME NEW w \in Sweeps, RecordFailure(w) PROVE Budget(e)'
  <2>1. CASE e = Current(w) /\ Failable(e)
    <3>1. /\ attempts'[e] = attempts[e] + 1 /\ status[e] \notin Ended
          /\ status'[e] = IF Terminal(sweep[w].seen[e] + 1) THEN "FAILED" ELSE "PENDING"
      BY <1>7, <1>a, <2>1 DEF RecordFailure, Failable, Ended
    <3>2. sweep[w].seen[e] \in Nat
      BY <1>7, <1>a, Processing DEF RecordFailure
    <3>3. \/ status'[e] \in Ended
          \/ status'[e] \notin Ended /\ sweep[w].seen[e] + 1 < MaxAttempts
      BY <1>a, <3>1, <3>2 DEF Terminal, Ended
    <3>. QED
      BY <1>2, <1>7, <2>1, <3>1, <3>3 DEF RecordFailure
  <2>2. CASE ~(e = Current(w) /\ Failable(e))
    <3>1. attempts'[e] = attempts[e] /\ status'[e] = status[e]
      BY <1>7, <1>a, <2>2 DEF RecordFailure, rowVars
    <3>. QED
      BY <1>1, <3>1
  <2>. QED
    BY <2>1, <2>2
<1>. QED
  BY <1>3, <1>4, <1>5, <1>6, <1>7 DEF Next, Continue

(* Overlapping sweeps that act on attempts they read long ago postpone the *)
(* end of an event by at most two attempts each, for any number of sweeps, *)
(* any lease and any number of crashes.                                    *)
THEOREM AttemptsBounded == Spec => []AttemptsAreBounded
<1>1. Init => BInv
  <2> SUFFICES ASSUME Init PROVE BInv
    OBVIOUS
  <2>1. \A w \in Sweeps : sweep[w].todo = {} /\ sweep[w].mine = {}
    BY DEF Init, Idle, Sweep
  <2>2. \A e \in Events : status[e] = "NONE" /\ attempts[e] = 0 /\ Early(e) = {}
    BY <2>1 DEF Init, Early
  <2>3. Others \in Nat /\ MaxAttempts \in Nat /\ MaxAttempts >= 1 /\ Cardinality({}) = 0
    BY SweepCounts, NotificationsAssumption, FS_EmptySet
  <2>. QED
    BY <2>1, <2>2, <2>3 DEF BInv, Budget, Ended
<1>2. IInv /\ BInv /\ [Next]_vars => BInv'
  <2> SUFFICES ASSUME IInv, BInv, [Next]_vars PROVE BInv'
    OBVIOUS
  <2>0. TypeOK
    BY DEF IInv
  <2>1. \A w \in Sweeps : sweep'[w].todo \cap sweep'[w].mine = {}
    <3>1. \A w \in Sweeps : \A e \in Events : e \notin sweep'[w].todo \cap sweep'[w].mine
      BY <2>0, HoldingStep DEF BInv
    <3>2. \A w \in Sweeps : sweep'[w].todo \subseteq Events
      BY <2>0, SweepStep DEF SweepRecords
    <3>. QED
      BY <3>1, <3>2
  <2>2. retries' = 0 => retries = 0
    <3>1. ASSUME NEW e \in Events, RetryEvent(e) PROVE retries' # 0
      <4>1. retries \in Nat /\ retries' = retries + 1
        BY <2>0, <3>1, NotificationsAssumption DEF TypeOK, RetryEvent
      <4>. QED
        BY <4>1
    <3>2. UNCHANGED retries \/ \E e \in Events : RetryEvent(e)
      BY DEF Next, Continue, vars, envVars, Emit, ChangePreference, Tick, ReadCandidates,
         Claim, Resolve, Commit, Throw, RecordFailure, Crash
    <3>. QED
      BY <3>1, <3>2
  <2>. QED
    BY <2>1, <2>2, BudgetStep DEF BInv
<1>3. TypeOK /\ BInv => AttemptsAreBounded
  <2> SUFFICES ASSUME TypeOK, BInv, retries = 0, NEW e \in Events
               PROVE  attempts[e] <= MaxAttempts + 2 * (Cardinality(Sweeps) - 1)
    BY DEF AttemptsAreBounded
  <2>1. /\ Owners(e) \in SUBSET Sweeps /\ Early(e) \in SUBSET Sweeps
        /\ attempts[e] \in Nat /\ MaxAttempts \in Nat /\ Budget(e)
    BY NotificationsAssumption DEF Owners, Early, TypeOK, BInv
  <2>2. /\ Cardinality(Owners(e)) \in Nat /\ Cardinality(Early(e)) \in Nat /\ Others \in Nat
        /\ Others = Cardinality(Sweeps) - 1
    BY <2>1, SweepCounts DEF Others
  <2>3. attempts[e] <= MaxAttempts + 2 * Others
    BY <2>1, <2>2 DEF Budget
  <2>. QED
    BY <2>2, <2>3
<1>4. QED
  BY <1>1, <1>2, <1>3, Invariance, TypeCorrect, PTL DEF Spec

=============================================================================
