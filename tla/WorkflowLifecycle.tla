-------------------------- MODULE WorkflowLifecycle --------------------------
(***************************************************************************)
(* What the approval engine promises of one request for approval, with no  *)
(* requests in flight, no database and no purchase order: a chain of steps *)
(* decided in order, each at most once, and a status that reaches APPROVED *)
(* only through the approval of every step and that nothing reopens.       *)
(* Decisions are not tied to the status beyond "routed": the code decides  *)
(* a step without looking at it.                                           *)
(***************************************************************************)
EXTENDS Naturals

CONSTANTS Instances, Sequences

VARIABLES status, verdict

Outcomes == {"APPROVED", "REJECTED", "RETURNED"}

Init ==
  /\ status = [i \in Instances |-> "NONE"]
  /\ verdict = [i \in Instances |-> [s \in Sequences |-> "OPEN"]]

Move(i, from, to) ==
  /\ status[i] \in from
  /\ status' = [status EXCEPT ![i] = to]
  /\ UNCHANGED verdict

Raise(i) == \E to \in {"DRAFT", "SUBMITTED"} : Move(i, {"NONE"}, to)
Submit(i) == Move(i, {"DRAFT"}, "SUBMITTED")
Route(i) == Move(i, {"SUBMITTED"}, "IN_PROGRESS")
Withdraw(i) ==
  \E to \in {"CANCELLED", "EXPIRED"} :
    Move(i, {"DRAFT", "SUBMITTED", "IN_PROGRESS"}, to)

\* Every earlier step was approved, this one is open.
Decide(i, s, result) ==
  /\ status[i] \notin {"NONE", "DRAFT", "SUBMITTED"}
  /\ verdict[i][s] = "OPEN"
  /\ \A r \in Sequences : r < s => verdict[i][r] = "APPROVED"
  /\ verdict' = [verdict EXCEPT ![i][s] = result]
  /\ UNCHANGED status

\* APPROVED takes every step; REJECTED and RETURNED take one.
Conclude(i) ==
  \/ /\ \A s \in Sequences : verdict[i][s] = "APPROVED"
     /\ Move(i, {"IN_PROGRESS"}, "APPROVED")
  \/ \E to \in {"REJECTED", "RETURNED"} :
       /\ \E s \in Sequences : verdict[i][s] = to
       /\ Move(i, {"IN_PROGRESS"}, to)

Next ==
  \E i \in Instances :
    \/ Raise(i) \/ Submit(i) \/ Route(i) \/ Withdraw(i) \/ Conclude(i)
    \/ \E s \in Sequences, result \in Outcomes : Decide(i, s, result)

Spec == Init /\ [][Next]_<<status, verdict>>
=============================================================================
