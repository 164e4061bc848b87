--------------------------- MODULE WorkflowProofs ---------------------------
(***************************************************************************)
(* Proofs about Workflow for every set of instances, orders, users and     *)
(* concurrent requests, and every definition of steps.                     *)
(***************************************************************************)
EXTENDS Workflow, TLAPS

-----------------------------------------------------------------------------
(* The inductive invariant: what a request in flight still knows about the *)
(* rows it read.  The rows only move forward (Forward below), so what held *)
(* when a request read it still holds when it writes.                      *)

WithInstance == Positions \ {"idle", "insert", "orderWrite"}
Unrouted == {"NONE", "DRAFT", "SUBMITTED"}

CallOK(c) ==
  LET i == call[c].inst
  IN /\ At(c, "insert") \/ At(c, "orderWrite") => call[c].order \in Orders
     /\ At(c, "orderWrite") => call[c].out \in OrderStatuses
     /\ call[c].at \in WithInstance => i \in Instances /\ status[i] # "NONE"
     /\ At(c, "activate") =>
          /\ status[i] # "DRAFT"
          /\ \A r \in Sequences : r < call[c].step => step[i][r] = "APPROVED"
     /\ At(c, "decide") =>
          /\ call[c].user \in Users /\ call[c].out \in Outcomes
          /\ step[i][call[c].step] # "PENDING"
     /\ At(c, "onApproved") =>
          /\ call[c].user \in Users /\ call[c].out = "APPROVED"
          /\ Contiguous => AllApproved(i)
          /\ status[i] \notin Unrouted
     /\ At(c, "setStatus") =>
          /\ call[c].out \in Outcomes
          /\ status[i] \notin Unrouted
          /\ call[c].out = "APPROVED" =>
               approvedBy[subject[i]] \in Users /\ (Contiguous => AllApproved(i))
          /\ call[c].out # "APPROVED" => \E s \in Sequences : step[i][s] = call[c].out

\* A step is active or decided only once its instance was routed.
RoutedFirst ==
  \A i \in Instances : \A s \in Sequences :
    step[i][s] # "PENDING" => status[i] \notin Unrouted

\* An inserted instance has a subject.
HasSubject == \A i \in Instances : status[i] # "NONE" => subject[i] \in Orders

Inv == /\ TypeOK /\ HasSubject /\ RoutedFirst /\ StepsInSequence
       /\ \A c \in Calls : CallOK(c)

\* The rows only move forward.
Forward ==
  /\ \A i \in Instances :
       /\ status[i] # "NONE" => status'[i] # "NONE" /\ subject'[i] = subject[i]
       /\ status[i] \notin {"NONE", "DRAFT"} => status'[i] \notin {"NONE", "DRAFT"}
       /\ status[i] \notin Unrouted => status'[i] \notin Unrouted
       /\ \A s \in Sequences :
            /\ step[i][s] # "PENDING" => step'[i][s] # "PENDING"
            /\ step[i][s] \in Outcomes => step'[i][s] = step[i][s]
  /\ \A o \in Orders : approvedBy[o] \in Users => approvedBy'[o] \in Users

-----------------------------------------------------------------------------
(* The CHOOSE of FirstStep is of a smallest step.                          *)
LEMMA FirstStepIsLeast ==
  FirstStep \in Sequences /\ \A r \in Sequences : FirstStep <= r
BY SequencesAssumption DEF FirstStep

(* Without gaps, a step whose successor is missing is the last.            *)
LEMMA NoSuccessorIsLast ==
  ASSUME Contiguous, NEW s \in Sequences, s + 1 \notin Sequences
  PROVE  \A r \in Sequences : r <= s
<1> SUFFICES ASSUME NEW r \in Sequences, ~(r <= s) PROVE FALSE
  OBVIOUS
<1>1. s \in Nat /\ r \in Nat
  BY SequencesAssumption
<1>2. s + 1 \in s .. r
  BY <1>1
<1>3. QED
  BY <1>2 DEF Contiguous

\* The constructor of calls is well typed.
LEMMA RequestTyped ==
  ASSUME NEW position \in Positions, NEW i \in Instances \cup {None},
         NEW o \in Orders \cup {None}, NEW s \in Sequences,
         NEW u \in Users \cup {None},
         NEW outcome \in Outcomes \cup OrderStatuses \cup {"NONE"}
  PROVE  Request(position, i, o, s, u, outcome) \in CallRecords
BY DEF Request, CallRecords

\* A slot that is not in use is a well typed call.
LEMMA IdleTyped == Idle \in CallRecords
BY FirstStepIsLeast DEF Idle, Positions, Request, CallRecords

\* A call on an instance is well typed wherever it stands.
LEMMA OnInstanceTyped ==
  ASSUME NEW position \in Positions, NEW i \in Instances
  PROVE  OnInstance(position, i) \in CallRecords
BY FirstStepIsLeast DEF OnInstance, Request, CallRecords

\* A call that moves on stays well typed.
LEMMA MovedTyped ==
  ASSUME NEW r \in CallRecords, NEW position \in Positions
  PROVE  [r EXCEPT !.at = position] \in CallRecords
BY DEF CallRecords

-----------------------------------------------------------------------------
(* Rows only move forward, whatever step is taken.                         *)
LEMMA RowsMoveForward ==
  ASSUME Inv, [Next]_vars
  PROVE  Forward
<1> USE DEF Inv, Forward, Unrouted, NonTerminal
<1>1. CASE UNCHANGED vars
  BY <1>1 DEF vars
<1>2. CASE Activate \/ Deactivate
  BY <1>2 DEF Activate, Deactivate, headerVars, rowVars, orderVars
<1>3. ASSUME NEW c \in Calls, BeginRequest(c) PROVE Forward
  BY <1>3 DEF BeginRequest, BeginCreate, BeginSubmit, BeginRecovery, BeginCancel,
     BeginResubmit, BeginDecision, BeginOrderWrite, headerVars, rowVars, orderVars
<1>4. ASSUME NEW c \in Calls, Continue(c) PROVE Forward
  <2> USE <1>4 DEF headerVars, rowVars, orderVars
  <2>1. CASE Insert(c)
    BY <2>1 DEF Insert, InsertInstance, TypeOK
  <2>2. CASE \/ OnWorkflowSubmitted(c, "onSubmitted", "submit")
             \/ OnWorkflowSubmitted(c, "onResubmitted", "insertResubmitted")
    BY <2>2 DEF OnWorkflowSubmitted
  <2>3. CASE Submit(c)
    BY <2>3 DEF Submit, TypeOK
  <2>4. CASE ActivateStep(c)
    BY <2>4 DEF ActivateStep, Routed, TypeOK, CallOK, At, WithInstance, Positions, Outcomes,
       CallRecords
  <2>5. CASE DecideStep(c)
    BY <2>5 DEF DecideStep, Decidable, TypeOK, CallOK, At, Outcomes, CallRecords
  <2>6. CASE OnWorkflowApproved(c)
    BY <2>6 DEF OnWorkflowApproved, TypeOK, CallOK, At
  <2>7. CASE SetInstanceStatus(c)
    BY <2>7 DEF SetInstanceStatus, Open, TypeOK, CallOK, At, Outcomes
  <2>8. CASE Cancel(c)
    BY <2>8 DEF Cancel, Open, TypeOK
  <2>9. CASE InsertResubmitted(c)
    BY <2>9 DEF InsertResubmitted, InsertInstance, TypeOK
  <2>10. CASE \/ ReadOrderForExit(c) \/ RevertOrder(c) \/ ClaimForResubmission(c)
              \/ Revalidate(c) \/ WriteOrder(c)
    BY <2>10 DEF ReadOrderForExit, RevertOrder, ClaimForResubmission, Revalidate,
       WriteOrder
  <2>11. QED
    BY <2>1, <2>2, <2>3, <2>4, <2>5, <2>6, <2>7, <2>8, <2>9, <2>10 DEF Continue
<1>5. ASSUME NEW i \in Instances, Expire(i) PROVE Forward
  BY <1>5 DEF Expire, Open, TypeOK, headerVars, rowVars, orderVars
<1>6. ASSUME NEW o \in Orders, NEW to \in Receipts, ReceiveGoods(o, to) PROVE Forward
  BY <1>6 DEF ReceiveGoods, headerVars, rowVars
<1>7. ASSUME NEW c \in Calls, Fail(c) PROVE Forward
  BY <1>7 DEF Fail, headerVars, rowVars, orderVars
<1>8. QED
  BY <1>1, <1>2, <1>3, <1>4, <1>5, <1>6, <1>7 DEF Next, NextWithoutFailure

-----------------------------------------------------------------------------
(* A request that does not move keeps what it knew: rows only move forward.*)
LEMMA WaitingCallStaysOK ==
  ASSUME Inv, Forward, NEW d \in Calls, call'[d] = call[d]
  PROVE  CallOK(d)'
<1> USE DEF Inv, CallOK, At
<1>1. call[d].at \in WithInstance =>
        LET i == call[d].inst
        IN /\ i \in Instances /\ status[i] # "NONE" /\ status'[i] # "NONE"
           /\ subject'[i] = subject[i] /\ subject[i] \in Orders
  BY DEF Forward, HasSubject
<1>2. /\ At(d, "activate") \/ At(d, "decide") \/ At(d, "onApproved") \/ At(d, "setStatus")
           => call[d].at \in WithInstance
      /\ call[d].step \in Sequences
  BY DEF WithInstance, Positions, TypeOK, CallRecords
<1>3. \A j \in Instances : AllApproved(j) => AllApproved(j)'
  BY DEF Forward, AllApproved, Outcomes
<1>4. At(d, "activate") =>
        /\ status'[call[d].inst] # "DRAFT"
        /\ \A r \in Sequences : r < call[d].step => step'[call[d].inst][r] = "APPROVED"
  BY <1>1, <1>2 DEF Forward, Outcomes
<1>5. At(d, "decide") => step'[call[d].inst][call[d].step] # "PENDING"
  BY <1>1, <1>2 DEF Forward
<1>6. At(d, "onApproved") \/ At(d, "setStatus") =>
        status'[call[d].inst] \notin Unrouted
  BY <1>1, <1>2 DEF Forward
<1>7. At(d, "setStatus") /\ call[d].out # "APPROVED" =>
        \E s \in Sequences : step'[call[d].inst][s] = call[d].out
  BY <1>1, <1>2 DEF Forward, Outcomes
<1>8. At(d, "setStatus") /\ call[d].out = "APPROVED" =>
        approvedBy'[subject'[call[d].inst]] \in Users
  BY <1>1, <1>2 DEF Forward
<1>9. QED
  BY <1>1, <1>2, <1>3, <1>4, <1>5, <1>6, <1>7, <1>8

(* A request that is over knows nothing.                                   *)
LEMMA IdleCallOK ==
  ASSUME NEW c \in Calls, call'[c] = Idle
  PROVE  CallOK(c)'
BY DEF CallOK, At, Idle, Request, WithInstance

-----------------------------------------------------------------------------
(* A request that writes to an instance names one that was inserted.       *)
LEMMA WriterHasInstance ==
  ASSUME Inv, NEW c \in Calls,
         At(c, "onSubmitted") \/ At(c, "submit") \/ At(c, "activate") \/ At(c, "decide")
         \/ At(c, "onApproved") \/ At(c, "setStatus") \/ At(c, "exitRead")
         \/ At(c, "exitWrite") \/ At(c, "cancelDraft") \/ At(c, "cancel")
         \/ At(c, "claim") \/ At(c, "revalidate") \/ At(c, "onResubmitted")
         \/ At(c, "insertResubmitted")
  PROVE  /\ call[c].inst \in Instances
         /\ status[call[c].inst] # "NONE"
         /\ subject[call[c].inst] \in Orders
         /\ call[c].step \in Sequences
BY DEF Inv, CallOK, At, WithInstance, Positions, HasSubject, TypeOK, CallRecords

(* Every request in flight carries well-formed values.                     *)
LEMMA CallsTyped ==
  ASSUME Inv, [Next]_vars
  PROVE  call' \in [Calls -> CallRecords]
<1>0. call \in [Calls -> CallRecords] /\ FirstStep \in Sequences
  BY FirstStepIsLeast DEF Inv, TypeOK
<1>1. ASSUME NEW c \in Calls, \E r \in CallRecords : Goto(c, r)
      PROVE  call' \in [Calls -> CallRecords]
  BY <1>0, <1>1 DEF Goto
<1>2. ASSUME NEW c \in Calls, Return(c) PROVE call' \in [Calls -> CallRecords]
  BY <1>1, <1>2, IdleTyped DEF Return
<1>3. ASSUME NEW c \in Calls, NEW position \in Positions, MoveTo(c, position)
      PROVE  call' \in [Calls -> CallRecords]
  BY <1>0, <1>1, <1>3, MovedTyped DEF MoveTo
<1>4. ASSUME NEW c \in Calls, NEW position \in Positions, NEW i \in Instances,
             Goto(c, OnInstance(position, i))
      PROVE  call' \in [Calls -> CallRecords]
  BY <1>1, <1>4, OnInstanceTyped
<1>5. ASSUME NEW c \in Calls, BeginRequest(c) PROVE call' \in [Calls -> CallRecords]
  <2>1. ASSUME NEW o \in Orders, BeginCreate(c, o) PROVE call' \in [Calls -> CallRecords]
    BY <1>0, <1>1, <2>1, RequestTyped DEF BeginCreate, Positions
  <2>2. ASSUME NEW i \in Instances, BeginSubmit(c, i) \/ BeginCancel(c, i) \/ BeginResubmit(c, i)
        PROVE  call' \in [Calls -> CallRecords]
    BY <1>4, <2>2 DEF BeginSubmit, BeginCancel, BeginResubmit, Begin, Positions
  <2>3. ASSUME NEW i \in Instances, BeginRecovery(c, i) PROVE call' \in [Calls -> CallRecords]
    <3>1. FinalApprovers(i) \subseteq Users
      BY DEF FinalApprovers, Inv, TypeOK
    <3>2. QED
      BY <1>0, <1>1, <2>3, <3>1, RequestTyped DEF BeginRecovery, Positions, Outcomes
  <2>4. ASSUME NEW i \in Instances, NEW u \in Users, NEW outcome \in {"APPROVED"} \cup Exits,
               BeginDecision(c, i, u, outcome)
        PROVE  call' \in [Calls -> CallRecords]
    <3>1. outcome \in Outcomes
      BY InputsAssumption DEF Outcomes
    <3>2. QED
      BY <1>1, <2>4, <3>1, RequestTyped DEF BeginDecision, ActiveSteps, Positions
  <2>5. ASSUME NEW o \in Orders, NEW to \in OrderEdits, BeginOrderWrite(c, o, to)
        PROVE  call' \in [Calls -> CallRecords]
    <3>1. to \in OrderStatuses
      BY InputsAssumption DEF OrderStatuses
    <3>2. QED
      BY <1>0, <1>1, <2>5, <3>1, RequestTyped DEF BeginOrderWrite, Positions
  <2>6. QED
    BY <1>5, <2>1, <2>2, <2>3, <2>4, <2>5 DEF BeginRequest
<1>6. ASSUME NEW c \in Calls, Continue(c) PROVE call' \in [Calls -> CallRecords]
  <2>1. CASE DecideStep(c)
    <3>1. ASSUME call[c].step + 1 \in Sequences
          PROVE  [call[c] EXCEPT !.at = "activate", !.step = call[c].step + 1] \in CallRecords
      BY <1>0, <3>1 DEF CallRecords, Positions
    <3>2. QED
      BY <1>1, <1>2, <1>3, <2>1, <3>1 DEF DecideStep, AfterDecision, Positions
  <2>2. CASE InsertResubmitted(c)
    BY <1>2, <1>4, <2>2 DEF InsertResubmitted, Positions
  <2>3. CASE Insert(c) \/ ActivateStep(c) \/ RevertOrder(c) \/ WriteOrder(c)
    BY <1>2, <2>3 DEF Insert, ActivateStep, RevertOrder, WriteOrder
  <2>4. CASE \/ OnWorkflowSubmitted(c, "onSubmitted", "submit")
             \/ OnWorkflowSubmitted(c, "onResubmitted", "insertResubmitted")
             \/ OnWorkflowApproved(c)
    BY <1>3, <2>4 DEF OnWorkflowSubmitted, OnWorkflowApproved, Positions
  <2>5. CASE \/ SetInstanceStatus(c) \/ ReadOrderForExit(c) \/ Cancel(c)
             \/ ClaimForResubmission(c) \/ Revalidate(c)
    BY <1>2, <1>3, <2>5 DEF SetInstanceStatus, ReadOrderForExit, Cancel,
       ClaimForResubmission, Revalidate, Positions
  <2>6. CASE Submit(c)
    BY <1>2, <1>4, <2>6, WriterHasInstance DEF Submit, Positions
  <2>7. QED
    BY <1>6, <2>1, <2>2, <2>3, <2>4, <2>5, <2>6 DEF Continue
<1>7. CASE UNCHANGED call
  BY <1>0, <1>7
<1>8. QED
  BY <1>2, <1>5, <1>6, <1>7 DEF Next, NextWithoutFailure, vars, Fail, Activate,
     Deactivate, Expire, ReceiveGoods

\* Writing the status of one step keeps the step rows well typed.
LEMMA StepTyped ==
  ASSUME TypeOK, NEW i \in Instances, NEW s \in Sequences, NEW v \in StepStatuses
  PROVE  [step EXCEPT ![i][s] = v] \in [Instances -> [Sequences -> StepStatuses]]
BY DEF TypeOK

\* Every step, a stutter included, keeps the type invariant.
LEMMA TypeOKInductive ==
  ASSUME Inv, [Next]_vars
  PROVE  TypeOK'
<1>1. call' \in [Calls -> CallRecords]
  BY CallsTyped
<1>2. TypeOK /\ \A c \in Calls : CallOK(c)
  BY DEF Inv
<1> USE <1>1, <1>2 DEF TypeOK, headerVars, rowVars, orderVars
<1>3. CASE UNCHANGED vars
  BY <1>3 DEF vars
<1>4. CASE Activate \/ Deactivate
  BY <1>4 DEF Activate, Deactivate
<1>5. ASSUME NEW c \in Calls, BeginRequest(c) PROVE TypeOK'
  BY <1>5 DEF BeginRequest, BeginCreate, BeginSubmit, BeginRecovery, BeginCancel,
     BeginResubmit, BeginDecision, BeginOrderWrite
<1>6. ASSUME NEW c \in Calls, Continue(c) PROVE TypeOK'
  <2>1. CASE Insert(c)
    <3>1. call[c].order \in Orders
      BY <2>1 DEF Insert, CallOK
    <3>2. CASE UNCHANGED <<status, headerVars>>
      BY <2>1, <3>2 DEF Insert
    <3>3. ASSUME NEW i \in Instances, NEW due \in DueDates,
                 InsertInstance(i, call[c].order, "DRAFT", None, due)
          PROVE  TypeOK'
      BY <2>1, <3>1, <3>3, InputsAssumption DEF Insert, InsertInstance, Statuses, NonTerminal
    <3>4. QED
      BY <2>1, <3>2, <3>3 DEF Insert
  <2>2. CASE \/ OnWorkflowSubmitted(c, "onSubmitted", "submit")
             \/ OnWorkflowSubmitted(c, "onResubmitted", "insertResubmitted")
    BY <2>2 DEF OnWorkflowSubmitted, OrderStatuses
  <2>3. CASE Submit(c)
    BY <2>3, WriterHasInstance DEF Submit, Record, InstanceEvent, EventTypes, Statuses,
       NonTerminal
  <2>4. CASE ActivateStep(c)
    <3>1. call[c].inst \in Instances /\ call[c].step \in Sequences
      BY <2>4, WriterHasInstance DEF ActivateStep
    <3>2. status' \in [Instances -> Statuses]
      BY <2>4, <3>1 DEF ActivateStep, Routed, Statuses, NonTerminal
    <3>3. step' \in [Instances -> [Sequences -> StepStatuses]]
      <4>1. [step EXCEPT ![call[c].inst][call[c].step] = "ACTIVE"]
              \in [Instances -> [Sequences -> StepStatuses]]
        BY <3>1, StepTyped, Zenon DEF StepStatuses
      <4>2. QED
        BY <2>4, <4>1 DEF ActivateStep
    <3>4. events' \subseteq [type : EventTypes, inst : Instances, step : Sequences \cup {None}]
      BY <2>4, <3>1 DEF ActivateStep, Record, StepEvent, EventTypes
    <3>5. QED
      BY <2>4, <3>2, <3>3, <3>4 DEF ActivateStep
  <2>5. CASE DecideStep(c)
    <3>1. /\ call[c].inst \in Instances /\ call[c].step \in Sequences
          /\ call[c].user \in Users /\ call[c].out \in Outcomes
      BY <2>5, WriterHasInstance DEF DecideStep, CallOK, At
    <3>2. call[c].out \in EventTypes /\ call[c].out \in StepStatuses
      BY <3>1 DEF Outcomes, EventTypes, StepStatuses
    <3>3. step' \in [Instances -> [Sequences -> StepStatuses]]
      <4>1. [step EXCEPT ![call[c].inst][call[c].step] = call[c].out]
              \in [Instances -> [Sequences -> StepStatuses]]
        BY <3>1, <3>2, StepTyped, Zenon
      <4>2. QED
        BY <2>5, <4>1 DEF DecideStep
    <3>4. events' \subseteq [type : EventTypes, inst : Instances, step : Sequences \cup {None}]
      BY <2>5, <3>1, <3>2 DEF DecideStep, Record, StepEvent, EventTypes
    <3>5. decisions' \subseteq [inst : Instances, step : Sequences, user : Users,
                               decision : Outcomes]
      BY <2>5, <3>1 DEF DecideStep
    <3>6. QED
      BY <2>5, <3>3, <3>4, <3>5 DEF DecideStep
  <2>6. CASE OnWorkflowApproved(c)
    BY <2>6 DEF OnWorkflowApproved, CallRecords, OrderStatuses
  <2>7. CASE SetInstanceStatus(c)
    BY <2>7, WriterHasInstance DEF SetInstanceStatus, CallOK, At, Outcomes, Statuses,
       Record, InstanceEvent, EventTypes
  <2>8. CASE Cancel(c)
    BY <2>8, WriterHasInstance DEF Cancel, Record, InstanceEvent, EventTypes, Statuses
  <2>9. CASE InsertResubmitted(c)
    <3>1. call[c].inst \in Instances /\ subject[call[c].inst] \in Orders
      BY <2>9, WriterHasInstance DEF InsertResubmitted
    <3>2. TypeOK' \/ UNCHANGED events \/ \E j \in Instances : Record(InstanceEvent("RESUBMITTED", j))
      BY <2>9 DEF InsertResubmitted
    <3>3. events' \subseteq [type : EventTypes, inst : Instances, step : Sequences \cup {None}]
      BY <3>2 DEF Record, InstanceEvent, EventTypes
    <3>4. QED
      BY <2>9, <3>1, <3>3 DEF InsertResubmitted, InsertInstance, Statuses, NonTerminal
  <2>10. CASE ReadOrderForExit(c) \/ RevertOrder(c) \/ ClaimForResubmission(c)
              \/ Revalidate(c)
    BY <2>10 DEF ReadOrderForExit, RevertOrder, ClaimForResubmission, Revalidate,
       OrderStatuses
  <2>11. CASE WriteOrder(c)
    BY <2>11 DEF WriteOrder, CallOK, At
  <2>12. QED
    BY <1>6, <2>1, <2>2, <2>3, <2>4, <2>5, <2>6, <2>7, <2>8, <2>9, <2>10, <2>11
       DEF Continue
<1>7. ASSUME NEW i \in Instances, Expire(i) PROVE TypeOK'
  BY <1>7 DEF Expire, Record, InstanceEvent, EventTypes, Statuses
<1>8. ASSUME NEW o \in Orders, NEW to \in Receipts, ReceiveGoods(o, to) PROVE TypeOK'
  BY <1>8, InputsAssumption DEF ReceiveGoods, OrderStatuses
<1>9. ASSUME NEW c \in Calls, Fail(c) PROVE TypeOK'
  BY <1>9 DEF Fail
<1>10. QED
  BY <1>3, <1>4, <1>5, <1>6, <1>7, <1>8, <1>9 DEF Next, NextWithoutFailure

-----------------------------------------------------------------------------
(* Only the two inserts give an instance a subject, only activateStep      *)
(* takes a step out of PENDING.                                            *)
LEMMA RowsInductive ==
  ASSUME Inv, [Next]_vars
  PROVE  HasSubject' /\ RoutedFirst' /\ StepsInSequence'
<1>1. Forward /\ TypeOK'
  BY RowsMoveForward, TypeOKInductive
<1>2. \A i \in Instances : status[i] = "NONE" /\ status'[i] # "NONE" => subject'[i] \in Orders
  <2>1. ASSUME NEW c \in Calls, Insert(c) \/ InsertResubmitted(c)
        PROVE  \A i \in Instances :
                 status[i] = "NONE" /\ status'[i] # "NONE" => subject'[i] \in Orders
    BY <2>1, WriterHasInstance DEF Insert, InsertResubmitted, InsertInstance, Inv, TypeOK,
       CallOK, At, headerVars
  <2>2. ASSUME NEW c \in Calls, Continue(c), ~Insert(c), ~InsertResubmitted(c)
        PROVE  \A i \in Instances : status[i] = "NONE" => status'[i] = "NONE"
    BY <2>2, WriterHasInstance DEF Continue, OnWorkflowSubmitted, Submit, ActivateStep,
       DecideStep, OnWorkflowApproved, SetInstanceStatus, ReadOrderForExit, RevertOrder,
       Cancel, ClaimForResubmission, Revalidate, WriteOrder, Routed, Open, NonTerminal,
       Inv, TypeOK
  <2>3. ASSUME NEW c \in Calls, BeginRequest(c) PROVE UNCHANGED status
    BY <2>3 DEF BeginRequest, BeginCreate, BeginSubmit, BeginRecovery, BeginCancel,
       BeginResubmit, BeginDecision, BeginOrderWrite
  <2>4. ASSUME NEW i \in Instances, Expire(i)
        PROVE  \A j \in Instances : status[j] = "NONE" => status'[j] = "NONE"
    BY <2>4 DEF Expire, Open, NonTerminal, Inv, TypeOK
  <2>5. QED
    BY <2>1, <2>2, <2>3, <2>4 DEF Next, NextWithoutFailure, vars, Activate, Deactivate,
       ReceiveGoods, Fail
<1>3. \A i \in Instances : \A s \in Sequences :
        step[i][s] = "PENDING" /\ step'[i][s] # "PENDING" =>
          /\ status'[i] \notin Unrouted
          /\ \A r \in Sequences : r < s => step[i][r] = "APPROVED"
  <2>1. ASSUME NEW c \in Calls, ActivateStep(c)
        PROVE  \A i \in Instances : \A s \in Sequences :
                 step[i][s] = "PENDING" /\ step'[i][s] # "PENDING" =>
                   /\ status'[i] \notin Unrouted
                   /\ \A r \in Sequences : r < s => step[i][r] = "APPROVED"
    <3> DEFINE b == call[c].inst
               n == call[c].step
    <3>1. /\ b \in Instances /\ n \in Sequences /\ At(c, "activate")
          /\ status[b] \notin {"NONE", "DRAFT"}
          /\ \A r \in Sequences : r < n => step[b][r] = "APPROVED"
      BY <2>1, WriterHasInstance DEF ActivateStep, Inv, CallOK
    <3>2. /\ step \in [Instances -> [Sequences -> StepStatuses]]
          /\ status \in [Instances -> Statuses]
      BY DEF Inv, TypeOK
    <3>3. \/ UNCHANGED step
          \/ /\ step' = [step EXCEPT ![b][n] = "ACTIVE"]
             /\ status' = [status EXCEPT ![b] = Routed(b)]
      BY <2>1 DEF ActivateStep
    <3>4. Routed(b) \notin Unrouted
      BY <3>1 DEF Routed, Unrouted
    <3> HIDE DEF b, n
    <3>5. QED
      BY <3>1, <3>2, <3>3, <3>4
  <2>2. ASSUME NEW c \in Calls, DecideStep(c)
        PROVE  \A i \in Instances : \A s \in Sequences :
                 step[i][s] = "PENDING" => step'[i][s] = "PENDING"
    <3>1. call[c].inst \in Instances /\ call[c].step \in Sequences
      BY <2>2, WriterHasInstance DEF DecideStep
    <3>2. QED
      <4>1. step[call[c].inst][call[c].step] # "ACTIVE" => UNCHANGED step
        BY <2>2 DEF DecideStep, Decidable, rowVars
      <4>2. step[call[c].inst][call[c].step] = "ACTIVE" =>
              step' = [step EXCEPT ![call[c].inst][call[c].step] = call[c].out]
        BY <2>2 DEF DecideStep, Decidable
      <4>3. step \in [Instances -> [Sequences -> StepStatuses]]
        BY DEF Inv, TypeOK
      <4>4. CASE step[call[c].inst][call[c].step] = "ACTIVE"
        <5> DEFINE b == call[c].inst
                   r == call[c].step
                   v == call[c].out
        <5>1. step' = [step EXCEPT ![b][r] = v] /\ step[b][r] = "ACTIVE"
          BY <4>2, <4>4
        <5> HIDE DEF b, r, v
        <5>2. QED
          BY <4>3, <5>1
      <4>5. QED
        BY <4>1, <4>4
  <2>3. (\A c \in Calls : ~ActivateStep(c) /\ ~DecideStep(c)) => UNCHANGED step
    BY DEF Next, NextWithoutFailure, Continue, BeginRequest, rowVars, vars, Activate,
       Deactivate, ReceiveGoods, Fail, Expire, Insert, OnWorkflowSubmitted, Submit,
       OnWorkflowApproved, SetInstanceStatus, ReadOrderForExit, RevertOrder, Cancel,
       ClaimForResubmission, Revalidate, InsertResubmitted, WriteOrder, BeginCreate,
       BeginSubmit, BeginRecovery, BeginCancel, BeginResubmit, BeginDecision,
       BeginOrderWrite
  <2>4. QED
    BY <2>1, <2>2, <2>3
<1>4. HasSubject' /\ RoutedFirst'
  BY <1>1, <1>2, <1>3 DEF Inv, HasSubject, RoutedFirst, Forward
<1>5. ASSUME NEW i \in Instances, NEW r \in Sequences, NEW s \in Sequences,
             r < s, step'[i][s] # "PENDING"
      PROVE  step'[i][r] = "APPROVED"
  BY <1>1, <1>3, <1>5 DEF Inv, StepsInSequence, Forward, Outcomes
<1>6. QED
  BY <1>4, <1>5 DEF StepsInSequence

-----------------------------------------------------------------------------
(* A request at a position that only needs its instance.                   *)
LEMMA PlainCallOK ==
  ASSUME NEW c \in Calls,
         call'[c].at \in {"onSubmitted", "submit", "exitRead", "exitWrite", "cancelDraft",
                          "cancel", "claim", "revalidate", "onResubmitted",
                          "insertResubmitted"},
         call'[c].inst \in Instances, status'[call'[c].inst] # "NONE"
  PROVE  CallOK(c)'
BY DEF CallOK, At

(* No step comes before the first, where a submitted instance is routed.   *)
LEMMA StartsAtFirst ==
  ASSUME NEW c \in Calls, NEW i \in Instances, call'[c] = OnInstance("activate", i),
         status'[i] \notin {"NONE", "DRAFT"}
  PROVE  CallOK(c)'
<1>1. /\ call'[c].at = "activate" /\ call'[c].inst = i /\ call'[c].step = FirstStep
  BY DEF OnInstance, Request
<1>2. \A r \in Sequences : ~(r < FirstStep)
  BY FirstStepIsLeast, SequencesAssumption
<1>3. QED
  BY <1>1, <1>2 DEF CallOK, At

(* No step of a request in flight breaks what the others know.             *)
LEMMA CallsOKInductive ==
  ASSUME Inv, [Next]_vars
  PROVE  \A c \in Calls : CallOK(c)'
<1>1. /\ Forward /\ TypeOK' /\ HasSubject'
      /\ \A c \in Calls : CallOK(c) /\ call[c] \in CallRecords
      /\ call \in [Calls -> CallRecords] /\ FirstStep \in Sequences
  BY RowsMoveForward, TypeOKInductive, RowsInductive, FirstStepIsLeast DEF Inv, TypeOK
<1>2. \A c \in Calls : call'[c] = call[c] => CallOK(c)'
  BY <1>1, WaitingCallStaysOK
<1>3. \A c \in Calls : call'[c] = Idle => CallOK(c)'
  BY IdleCallOK
<1>4. ASSUME NEW c \in Calls, NEW r, Goto(c, r)
      PROVE  call'[c] = r /\ \A d \in Calls \ {c} : CallOK(d)'
  BY <1>1, <1>2, <1>4 DEF Goto
<1>5. ASSUME NEW c \in Calls, Return(c) PROVE \A d \in Calls : CallOK(d)'
  BY <1>3, <1>4, <1>5 DEF Return
<1>6. ASSUME NEW c \in Calls, NEW i \in Instances, status[i] # "NONE",
             NEW position \in {"onSubmitted", "cancelDraft", "cancel", "claim"},
             Goto(c, OnInstance(position, i))
      PROVE  \A d \in Calls : CallOK(d)'
  <2>1. call'[c] = OnInstance(position, i) /\ status'[i] # "NONE"
    BY <1>1, <1>4, <1>6 DEF Forward
  <2>2. CallOK(c)'
    BY <2>1, PlainCallOK DEF OnInstance, Request
  <2>3. QED
    BY <1>4, <1>6, <2>2
<1>7. ASSUME NEW c \in Calls, call[c].inst \in Instances, status[call[c].inst] # "NONE",
             NEW position \in {"submit", "exitRead", "exitWrite", "revalidate",
                               "onResubmitted", "insertResubmitted"},
             MoveTo(c, position)
      PROVE  \A d \in Calls : CallOK(d)'
  <2>1. call'[c] = [call[c] EXCEPT !.at = position]
    BY <1>4, <1>7 DEF MoveTo
  <2>2. call'[c].at = position /\ call'[c].inst = call[c].inst
    BY <1>1, <2>1 DEF CallRecords
  <2>3. CallOK(c)'
    BY <1>1, <1>7, <2>2, PlainCallOK DEF Forward
  <2>4. QED
    BY <1>4, <1>7, <2>3 DEF MoveTo
<1>8. ASSUME NEW c \in Calls, BeginRequest(c) PROVE \A d \in Calls : CallOK(d)'
  <2>1. ASSUME NEW o \in Orders, BeginCreate(c, o) PROVE \A d \in Calls : CallOK(d)'
    BY <1>4, <2>1 DEF BeginCreate, Request, CallOK, At, WithInstance
  <2>2. ASSUME NEW i \in Instances, BeginSubmit(c, i) \/ BeginCancel(c, i) \/ BeginResubmit(c, i)
        PROVE  \A d \in Calls : CallOK(d)'
    BY <1>6, <2>2 DEF BeginSubmit, BeginCancel, BeginResubmit, Begin, Open, NonTerminal
  <2>3. ASSUME NEW i \in Instances, BeginRecovery(c, i) PROVE \A d \in Calls : CallOK(d)'
    <3>1. PICK u \in FinalApprovers(i) :
            Goto(c, Request("onApproved", i, None, FirstStep, u, "APPROVED"))
      BY <2>3 DEF BeginRecovery
    <3>2. u \in Users
      BY DEF FinalApprovers, Inv, TypeOK
    <3>3. status'[i] = "IN_PROGRESS" /\ AllApproved(i)'
      BY <2>3 DEF BeginRecovery, AllApproved, rowVars
    <3>4. call'[c] = Request("onApproved", i, None, FirstStep, u, "APPROVED")
      BY <1>4, <3>1
    <3>5. CallOK(c)'
      BY <3>2, <3>3, <3>4 DEF CallOK, At, Request, Unrouted
    <3>6. QED
      BY <1>4, <3>1, <3>5
  <2>4. ASSUME NEW i \in Instances, NEW u \in Users, NEW outcome \in {"APPROVED"} \cup Exits,
               BeginDecision(c, i, u, outcome)
        PROVE  \A d \in Calls : CallOK(d)'
    <3>1. PICK s \in ActiveSteps(i) : Goto(c, Request("decide", i, None, s, u, outcome))
      BY <2>4 DEF BeginDecision
    <3>2. step[i][s] = "ACTIVE" /\ s \in Sequences /\ outcome \in Outcomes
      BY InputsAssumption DEF ActiveSteps, Outcomes
    <3>3. step'[i][s] = "ACTIVE" /\ status'[i] = status[i] /\ status[i] # "NONE"
      BY <2>4, <3>2 DEF BeginDecision, rowVars, Inv, RoutedFirst, Unrouted
    <3>4. call'[c] = Request("decide", i, None, s, u, outcome)
      BY <1>4, <3>1
    <3>5. CallOK(c)'
      BY <3>2, <3>3, <3>4 DEF CallOK, At, Request
    <3>6. QED
      BY <1>4, <3>1, <3>5
  <2>5. ASSUME NEW o \in Orders, NEW to \in OrderEdits, BeginOrderWrite(c, o, to)
        PROVE  \A d \in Calls : CallOK(d)'
    <3>1. to \in OrderStatuses
      BY InputsAssumption DEF OrderStatuses
    <3>2. call'[c] = Request("orderWrite", None, o, FirstStep, None, to)
      BY <1>4, <2>5 DEF BeginOrderWrite
    <3>3. CallOK(c)'
      BY <3>1, <3>2 DEF CallOK, At, Request, WithInstance
    <3>4. QED
      BY <1>4, <2>5, <3>3 DEF BeginOrderWrite
  <2>6. QED
    BY <1>8, <2>1, <2>2, <2>3, <2>4, <2>5 DEF BeginRequest
<1>9. ASSUME NEW c \in Calls, Continue(c) PROVE \A d \in Calls : CallOK(d)'
  <2>1. CASE DecideStep(c)
    <3> DEFINE i == call[c].inst
               s == call[c].step
    <3>1. /\ At(c, "decide") /\ i \in Instances /\ s \in Sequences /\ s \in Nat
          /\ call[c].user \in Users /\ call[c].out \in Outcomes
          /\ status'[i] # "NONE"
      BY <1>1, <2>1, WriterHasInstance, SequencesAssumption DEF DecideStep, CallOK, At, Forward
    <3>2. CASE step[i][s] # "ACTIVE"
      BY <1>5, <2>1, <3>2 DEF DecideStep, Decidable
    <3>3. CASE step[i][s] = "ACTIVE"
      <4>1. AfterDecision(c) /\ step' = [step EXCEPT ![i][s] = call[c].out]
        BY <2>1, <3>3 DEF DecideStep, Decidable
      <4>2. /\ step'[i][s] = call[c].out
            /\ \A r \in Sequences : r < s => step'[i][r] = "APPROVED"
        <5>1. step \in [Instances -> [Sequences -> StepStatuses]]
          BY DEF Inv, TypeOK
        <5>2. \A r \in Sequences : r < s => step[i][r] = "APPROVED"
          BY <3>1, <3>3 DEF Inv, StepsInSequence
        <5>3. step'[i][s] = call[c].out
          BY <3>1, <4>1, <5>1
        <5>4. QED
          BY <1>1, <3>1, <5>2, <5>3 DEF Forward, Outcomes
      <4>3. status'[i] \notin Unrouted
        BY <1>1, <3>1, <3>3 DEF Inv, RoutedFirst, Forward
      <4>4. CASE call[c].out # "APPROVED"
        <5>1. MoveTo(c, "setStatus")
          BY <4>1, <4>4 DEF AfterDecision
        <5>2. call'[c] = [call[c] EXCEPT !.at = "setStatus"]
          BY <1>4, <5>1 DEF MoveTo
        <5>3. call'[c].at = "setStatus" /\ call'[c].inst = i /\ call'[c].out = call[c].out
          BY <1>1, <5>2 DEF CallRecords
        <5>4. CallOK(c)'
          BY <3>1, <4>2, <4>3, <4>4, <5>3 DEF CallOK, At
        <5>5. QED
          BY <1>4, <5>1, <5>4 DEF MoveTo
      <4>5. CASE call[c].out = "APPROVED" /\ s + 1 \in Sequences
        <5>1. Goto(c, [call[c] EXCEPT !.at = "activate", !.step = s + 1])
          BY <4>1, <4>5 DEF AfterDecision
        <5>2. call'[c] = [call[c] EXCEPT !.at = "activate", !.step = s + 1]
          BY <1>4, <5>1
        <5>3. call'[c].at = "activate" /\ call'[c].inst = i /\ call'[c].step = s + 1
          BY <1>1, <5>2 DEF CallRecords
        <5>4. \A r \in Sequences : r < s + 1 => step'[i][r] = "APPROVED"
          <6>1. ASSUME NEW r \in Sequences, r < s + 1 PROVE r < s \/ r = s
            BY <3>1, <6>1, SequencesAssumption
          <6>2. step'[i][s] = "APPROVED"
            BY <4>2, <4>5
          <6> HIDE DEF s
          <6>3. QED
            BY <4>2, <6>1, <6>2
        <5>5. CallOK(c)'
          BY <3>1, <4>3, <5>3, <5>4 DEF CallOK, At, Unrouted
        <5>6. QED
          BY <1>4, <5>1, <5>5
      <4>6. CASE call[c].out = "APPROVED" /\ s + 1 \notin Sequences
        <5>1. MoveTo(c, "onApproved")
          BY <4>1, <4>6 DEF AfterDecision
        <5>2. call'[c] = [call[c] EXCEPT !.at = "onApproved"]
          BY <1>4, <5>1 DEF MoveTo
        <5>3. /\ call'[c].at = "onApproved" /\ call'[c].inst = i
              /\ call'[c].out = "APPROVED" /\ call'[c].user = call[c].user
          BY <1>1, <4>6, <5>2 DEF CallRecords
        <5>4. Contiguous => \A r \in Sequences : step'[i][r] = "APPROVED"
          <6>1. SUFFICES ASSUME Contiguous, NEW r \in Sequences
                         PROVE  step'[i][r] = "APPROVED"
            OBVIOUS
          <6>2. r <= s
            BY <3>1, <4>6, <6>1, NoSuccessorIsLast
          <6>3. QED
            <7>1. r < s \/ r = s
              BY <3>1, <6>1, <6>2, SequencesAssumption
            <7>2. step'[i][s] = "APPROVED"
              BY <4>2, <4>6
            <7> HIDE DEF s
            <7>3. QED
              BY <4>2, <6>1, <7>1, <7>2
        <5>5. CallOK(c)'
          BY <3>1, <4>3, <5>3, <5>4 DEF CallOK, At, AllApproved
        <5>6. QED
          BY <1>4, <5>1, <5>5 DEF MoveTo
      <4>7. QED
        BY <4>4, <4>5, <4>6
    <3>4. QED
      BY <3>2, <3>3
  <2>2. CASE OnWorkflowApproved(c)
    <3> DEFINE i == call[c].inst
    <3>1. /\ i \in Instances /\ subject[i] \in Orders /\ MoveTo(c, "setStatus")
          /\ CallOK(c) /\ At(c, "onApproved")
      BY <1>1, <2>2, WriterHasInstance DEF OnWorkflowApproved
    <3>2. call'[c] = [call[c] EXCEPT !.at = "setStatus"]
      BY <1>4, <3>1 DEF MoveTo
    <3>3. call'[c].at = "setStatus" /\ call'[c].inst = i /\ call'[c].out = "APPROVED"
      BY <1>1, <3>1, <3>2 DEF CallRecords, CallOK
    <3>4. /\ approvedBy'[subject'[i]] \in Users
          /\ status'[i] \notin Unrouted /\ status'[i] # "NONE"
          /\ Contiguous => \A s \in Sequences : step'[i][s] = "APPROVED"
      <4>1. /\ approvedBy' = [approvedBy EXCEPT ![subject[i]] = call[c].user]
            /\ UNCHANGED <<subject, status, step>>
        BY <2>2 DEF OnWorkflowApproved, headerVars, rowVars
      <4>2. /\ call[c].user \in Users
            /\ Contiguous => AllApproved(i)
            /\ status[i] \notin Unrouted
        BY <3>1 DEF CallOK, At
      <4>3. approvedBy \in [Orders -> Users \cup {None}]
        BY DEF Inv, TypeOK
      <4>4. Contiguous => \A s \in Sequences : step'[i][s] = "APPROVED"
        BY <4>1, <4>2 DEF AllApproved
      <4>5. approvedBy'[subject'[i]] \in Users
        <5> DEFINE o == subject[i]
                   u == call[c].user
        <5>1. o \in Orders /\ u \in Users /\ approvedBy' = [approvedBy EXCEPT ![o] = u]
          BY <3>1, <4>1, <4>2
        <5> HIDE DEF o, u
        <5>2. approvedBy'[o] \in Users
          BY <4>3, <5>1
        <5>3. subject'[i] = o
          BY <4>1 DEF o
        <5>4. QED
          BY <5>2, <5>3
      <4>6. QED
        BY <4>1, <4>2, <4>4, <4>5 DEF Unrouted
    <3>5. CallOK(c)'
      BY <3>1, <3>3, <3>4 DEF CallOK, At, Outcomes, AllApproved
    <3>6. QED
      BY <1>4, <3>1, <3>5 DEF MoveTo
  <2>3. CASE Submit(c)
    <3>1. call[c].inst \in Instances /\ status'[call[c].inst] # "NONE"
      BY <1>1, <2>3, WriterHasInstance DEF Submit, Forward
    <3>2. CASE status[call[c].inst] # "DRAFT"
      BY <1>5, <2>3, <3>2 DEF Submit
    <3>3. CASE status[call[c].inst] = "DRAFT"
      <4>1. Goto(c, OnInstance("activate", call[c].inst)) /\ status'[call[c].inst] = "SUBMITTED"
        <5>1. /\ Goto(c, OnInstance("activate", call[c].inst))
              /\ status' = [status EXCEPT ![call[c].inst] = "SUBMITTED"]
          BY <2>3, <3>3 DEF Submit
        <5>2. status \in [Instances -> Statuses]
          BY DEF Inv, TypeOK
        <5>3. QED
          BY <3>1, <5>1, <5>2
      <4>2. call'[c] = OnInstance("activate", call[c].inst)
        BY <1>4, <4>1
      <4>3. CallOK(c)'
        BY <3>1, <4>1, <4>2, StartsAtFirst
      <4>4. QED
        BY <1>4, <4>1, <4>3
    <3>4. QED
      BY <3>2, <3>3
  <2>4. CASE InsertResubmitted(c)
    <3>1. CASE Return(c)
      BY <1>5, <3>1
    <3>2. ASSUME NEW j \in Instances, Goto(c, OnInstance("activate", j)),
                 InsertInstance(j, subject[call[c].inst], "SUBMITTED", call[c].inst, FALSE)
          PROVE  \A d \in Calls : CallOK(d)'
      <4>1. call'[c] = OnInstance("activate", j) /\ status'[j] = "SUBMITTED"
        BY <1>4, <3>2 DEF InsertInstance, Inv, TypeOK
      <4>2. CallOK(c)'
        BY <4>1, StartsAtFirst
      <4>3. QED
        BY <1>4, <3>2, <4>2
    <3>3. QED
      BY <2>4, <3>1, <3>2 DEF InsertResubmitted
  <2>5. CASE Insert(c) \/ ActivateStep(c) \/ RevertOrder(c) \/ WriteOrder(c)
    BY <1>5, <2>5 DEF Insert, ActivateStep, RevertOrder, WriteOrder
  <2>6. CASE \/ OnWorkflowSubmitted(c, "onSubmitted", "submit")
             \/ OnWorkflowSubmitted(c, "onResubmitted", "insertResubmitted")
             \/ SetInstanceStatus(c) \/ ReadOrderForExit(c) \/ Cancel(c)
             \/ ClaimForResubmission(c) \/ Revalidate(c)
    BY <1>5, <1>7, <2>6, WriterHasInstance DEF OnWorkflowSubmitted, SetInstanceStatus,
       ReadOrderForExit, Cancel, ClaimForResubmission, Revalidate
  <2>7. QED
    BY <1>9, <2>1, <2>2, <2>3, <2>4, <2>5, <2>6 DEF Continue
<1>10. ASSUME NEW c \in Calls, Fail(c) PROVE \A d \in Calls : CallOK(d)'
  BY <1>5, <1>10 DEF Fail
<1>11. CASE UNCHANGED call
  BY <1>2, <1>11
<1>12. QED
  BY <1>8, <1>9, <1>10, <1>11 DEF Next, NextWithoutFailure, vars, Activate, Deactivate,
     Expire, ReceiveGoods

-----------------------------------------------------------------------------
(* The invariant of the engine, and what follows from it alone.            *)

(* A new deployment, with no instance and no request, satisfies it.        *)
LEMMA InitImpliesInv == Init => Inv
<1> SUFFICES ASSUME Init PROVE Inv
  OBVIOUS
<1>1. TypeOK
  BY IdleTyped DEF Init, TypeOK, Statuses, StepStatuses, OrderStatuses
<1>2. HasSubject /\ RoutedFirst /\ StepsInSequence
  BY DEF Init, HasSubject, RoutedFirst, StepsInSequence
<1>3. \A c \in Calls : CallOK(c)
  BY DEF Init, CallOK, At, Idle, Request, WithInstance
<1>4. QED
  BY <1>1, <1>2, <1>3 DEF Inv

(* Every transaction of every request, and every failure, preserves it.    *)
LEMMA InvInductive == Inv /\ [Next]_vars => Inv'
BY TypeOKInductive, RowsInductive, CallsOKInductive DEF Inv

(* What a request read stays true until it writes: the values it carries   *)
(* across its awaits never become wrong in a way the proofs below need.    *)
THEOREM Invariance == Spec => []Inv
BY InitImpliesInv, InvInductive, PTL DEF Spec

(* Every row and every request in flight always holds a value of its type. *)
THEOREM TypeCorrect == Spec => []TypeOK
<1>1. Inv => TypeOK
  BY DEF Inv
<1>2. QED
  BY <1>1, Invariance, PTL

(* A step is activated only after all those before it were approved, for   *)
(* any number of steps and of racing decisions: activateStep is reached    *)
(* only from the submission or from the approval of the previous step.     *)
THEOREM SequentialSteps == Spec => []StepsInSequence
<1>1. Inv => StepsInSequence
  BY DEF Inv
<1>2. QED
  BY <1>1, Invariance, PTL

(* Across any step the rows of the engine only move forward.               *)
THEOREM RowsForward == Spec => [][Forward]_vars
<1>1. Inv /\ [Next]_vars => [Forward]_vars
  BY RowsMoveForward
<1>2. QED
  BY <1>1, Invariance, PTL DEF Spec

-----------------------------------------------------------------------------
(* One active instance per order.                                          *)

(* A step that inserts no instance makes no instance non-terminal.         *)
LEMMA OnlyInsertsOpen ==
  ASSUME Inv, [Next]_vars,
         \A c \in Calls : ~Insert(c) /\ ~InsertResubmitted(c)
  PROVE  \A i \in Instances :
           status'[i] \in NonTerminal => status[i] \in NonTerminal /\ subject'[i] = subject[i]
<1>1. /\ status \in [Instances -> Statuses]
      /\ \A c \in Calls : CallOK(c)
  BY DEF Inv, TypeOK
<1>2. UNCHANGED subject
  BY DEF Next, NextWithoutFailure, Continue, BeginRequest, headerVars, vars, Activate,
     Deactivate, ReceiveGoods, Fail, Expire, ActivateStep, OnWorkflowSubmitted, Submit,
     DecideStep, OnWorkflowApproved, SetInstanceStatus, ReadOrderForExit, RevertOrder,
     Cancel, ClaimForResubmission, Revalidate, WriteOrder, BeginCreate, BeginSubmit,
     BeginRecovery, BeginCancel, BeginResubmit, BeginDecision, BeginOrderWrite
<1>3. ASSUME NEW c \in Calls, Submit(c) \/ ActivateStep(c) \/ SetInstanceStatus(c) \/ Cancel(c)
      PROVE  \A i \in Instances : status'[i] \in NonTerminal => status[i] \in NonTerminal
  BY <1>1, <1>3, WriterHasInstance
     DEF Submit, ActivateStep, Routed, SetInstanceStatus, Cancel, Open, NonTerminal, CallOK,
         At, Outcomes
<1>4. ASSUME NEW i \in Instances, Expire(i)
      PROVE  \A j \in Instances : status'[j] \in NonTerminal => status[j] \in NonTerminal
  BY <1>1, <1>4 DEF Expire, NonTerminal
<1>5. \/ UNCHANGED status
      \/ \E c \in Calls : Submit(c) \/ ActivateStep(c) \/ SetInstanceStatus(c) \/ Cancel(c)
      \/ \E i \in Instances : Expire(i)
  BY DEF Next, NextWithoutFailure, Continue, BeginRequest, vars, Activate,
     Deactivate, ReceiveGoods, Fail, OnWorkflowSubmitted, DecideStep, OnWorkflowApproved,
     ReadOrderForExit, RevertOrder, ClaimForResubmission, Revalidate, WriteOrder,
     BeginCreate, BeginSubmit, BeginRecovery, BeginCancel, BeginResubmit, BeginDecision,
     BeginOrderWrite
<1>6. QED
  BY <1>2, <1>3, <1>4, <1>5

(* An insert is refused while its order has an active instance.            *)
LEMMA InsertKeepsOneActive ==
  ASSUME Inv, OneActivePerSubject, NEW i \in Instances, NEW o, NEW st, NEW prev, NEW due,
         InsertInstance(i, o, st, prev, due), ~HasActiveInstance(o)
  PROVE  OneActivePerSubject'
<1>1. /\ status \in [Instances -> Statuses]
      /\ subject \in [Instances -> Orders \cup {None}]
  BY DEF Inv, TypeOK
<1>2. /\ status' = [status EXCEPT ![i] = st]
      /\ subject' = [subject EXCEPT ![i] = o]
  BY DEF InsertInstance
<1>3. \A j \in Instances : subject[j] = o => status[j] \notin NonTerminal
  BY DEF HasActiveInstance
<1>4. QED
  BY <1>1, <1>2, <1>3 DEF OneActivePerSubject

(* Two creations or resubmissions of one order, however they interleave,   *)
(* leave at most one of its instances active.                              *)
THEOREM OneActive == Spec => []OneActivePerSubject
<1>1. Init => OneActivePerSubject
  BY DEF Init, OneActivePerSubject, NonTerminal
<1>2. Inv /\ OneActivePerSubject /\ [Next]_vars => OneActivePerSubject'
  <2> SUFFICES ASSUME Inv, OneActivePerSubject, [Next]_vars
               PROVE  OneActivePerSubject'
    OBVIOUS
  <2>1. ASSUME NEW c \in Calls, Insert(c) PROVE OneActivePerSubject'
    <3>1. CASE UNCHANGED <<status, headerVars>>
      BY <3>1 DEF OneActivePerSubject, headerVars
    <3>2. ASSUME ~HasActiveInstance(call[c].order),
                 NEW i \in Instances, NEW due \in DueDates,
                 InsertInstance(i, call[c].order, "DRAFT", None, due)
          PROVE  OneActivePerSubject'
      BY <3>2, InsertKeepsOneActive
    <3>3. QED
      BY <2>1, <3>1, <3>2 DEF Insert
  <2>2. ASSUME NEW c \in Calls, InsertResubmitted(c) PROVE OneActivePerSubject'
    <3> DEFINE b == call[c].inst
    <3>1. CASE UNCHANGED <<status, headerVars>>
      BY <3>1 DEF OneActivePerSubject, headerVars
    <3>2. ASSUME ~HasActiveInstance(subject[b]), NEW j \in Instances,
                 InsertInstance(j, subject[b], "SUBMITTED", b, FALSE)
          PROVE  OneActivePerSubject'
      BY <3>2, InsertKeepsOneActive
    <3>3. QED
      BY <2>2, <3>1, <3>2 DEF InsertResubmitted
  <2>3. CASE \A c \in Calls : ~Insert(c) /\ ~InsertResubmitted(c)
    BY <2>3, OnlyInsertsOpen DEF OneActivePerSubject
  <2>4. QED
    BY <2>1, <2>2, <2>3
<1>3. QED
  BY <1>1, <1>2, Invariance, PTL DEF Spec

-----------------------------------------------------------------------------
(* One decision per step.                                                  *)

(* Only DecideStep changes decisions, and once decided a step stays.       *)
LEMMA OnlyDecideStepDecides ==
  ASSUME [Next]_vars, \A c \in Calls : ~DecideStep(c)
  PROVE  /\ UNCHANGED decisions
         /\ \/ UNCHANGED step
            \/ \E c \in Calls : ActivateStep(c)
BY DEF Next, NextWithoutFailure, Continue, BeginRequest, rowVars, vars, Activate,
   Deactivate, ReceiveGoods, Fail, Expire, Insert, OnWorkflowSubmitted, Submit,
   ActivateStep, OnWorkflowApproved, SetInstanceStatus, ReadOrderForExit, RevertOrder,
   Cancel, ClaimForResubmission, Revalidate, InsertResubmitted, WriteOrder, BeginCreate,
   BeginSubmit, BeginRecovery, BeginCancel, BeginResubmit, BeginDecision, BeginOrderWrite

(* Racing approvals, rejections and returns of a step, by any number of    *)
(* users, record one decision: the one whose guarded update found the step *)
(* ACTIVE.                                                                 *)
THEOREM OneDecision == Spec => []OneDecisionPerStep
<1>1. Init => OneDecisionPerStep
  BY DEF Init, OneDecisionPerStep, Outcomes
<1>2. Inv /\ OneDecisionPerStep /\ [Next]_vars => OneDecisionPerStep'
  <2> SUFFICES ASSUME Inv, OneDecisionPerStep, [Next]_vars
               PROVE  OneDecisionPerStep'
    OBVIOUS
  <2>1. /\ step \in [Instances -> [Sequences -> StepStatuses]]
        /\ decisions \subseteq [inst : Instances, step : Sequences, user : Users,
                                decision : Outcomes]
    BY DEF Inv, TypeOK
  <2>2. ASSUME NEW c \in Calls, ActivateStep(c) PROVE OneDecisionPerStep'
    <3> DEFINE b == call[c].inst
               n == call[c].step
    <3>1. b \in Instances /\ n \in Sequences
      BY <2>2, WriterHasInstance DEF ActivateStep
    <3>2. /\ UNCHANGED decisions
          /\ \/ UNCHANGED step
             \/ step[b][n] = "PENDING" /\ step' = [step EXCEPT ![b][n] = "ACTIVE"]
      BY <2>2 DEF ActivateStep
    <3> HIDE DEF b, n
    <3>3. CASE UNCHANGED step
      BY <3>2, <3>3 DEF OneDecisionPerStep
    <3>4. CASE step[b][n] = "PENDING" /\ step' = [step EXCEPT ![b][n] = "ACTIVE"]
      <4>1. \A i \in Instances : \A s \in Sequences :
              step'[i][s] = step[i][s] \/ (step[i][s] = "PENDING" /\ step'[i][s] = "ACTIVE")
        BY <2>1, <3>1, <3>4
      <4>2. \A i \in Instances : \A s \in Sequences :
              \A v \in Outcomes : step'[i][s] = v <=> step[i][s] = v
        BY <4>1 DEF Outcomes
      <4>3. \A d \in decisions : step'[d.inst][d.step] = d.decision
        BY <2>1, <4>2 DEF OneDecisionPerStep
      <4>4. QED
        BY <3>2, <4>2, <4>3 DEF OneDecisionPerStep
    <3>5. QED
      BY <3>2, <3>3, <3>4
  <2>3. ASSUME NEW c \in Calls, DecideStep(c) PROVE OneDecisionPerStep'
    <3> DEFINE b == call[c].inst
               n == call[c].step
               v == call[c].out
               row == [inst |-> b, step |-> n, user |-> call[c].user, decision |-> v]
    <3>1. b \in Instances /\ n \in Sequences /\ v \in Outcomes
      BY <2>3, WriterHasInstance DEF DecideStep, Inv, CallOK, At
    <3>2. \/ UNCHANGED <<step, decisions>>
          \/ /\ step[b][n] = "ACTIVE"
             /\ step' = [step EXCEPT ![b][n] = v]
             /\ decisions' = decisions \cup {row}
      BY <2>3 DEF DecideStep, Decidable, rowVars
    <3>3. row.inst = b /\ row.step = n /\ row.decision = v
      OBVIOUS
    <3> HIDE DEF b, n, v, row
    <3>4. CASE UNCHANGED <<step, decisions>>
      BY <3>4 DEF OneDecisionPerStep
    <3>5. CASE /\ step[b][n] = "ACTIVE"
               /\ step' = [step EXCEPT ![b][n] = v]
               /\ decisions' = decisions \cup {row}
      <4>1. \A d \in decisions : ~(d.inst = b /\ d.step = n)
        BY <2>1, <3>5 DEF OneDecisionPerStep, Outcomes
      <4>2. step'[b][n] = v
        BY <2>1, <3>1, <3>5
      <4>3. \A i \in Instances : \A s \in Sequences :
              ~(i = b /\ s = n) => step'[i][s] = step[i][s]
        BY <2>1, <3>1, <3>5
      <4>4. \A d \in decisions' : step'[d.inst][d.step] = d.decision
        BY <2>1, <3>3, <3>5, <4>1, <4>2, <4>3 DEF OneDecisionPerStep
      <4>5. \A d, e \in decisions' : d.inst = e.inst /\ d.step = e.step => d = e
        BY <3>3, <3>5, <4>1 DEF OneDecisionPerStep
      <4>6. \A i \in Instances : \A s \in Sequences :
              step'[i][s] \in Outcomes => \E d \in decisions' : d.inst = i /\ d.step = s
        BY <3>3, <3>5, <4>3 DEF OneDecisionPerStep
      <4>7. QED
        BY <4>4, <4>5, <4>6 DEF OneDecisionPerStep
    <3>6. QED
      BY <3>2, <3>4, <3>5
  <2>4. CASE \A c \in Calls : ~DecideStep(c)
    BY <2>2, <2>4, OnlyDecideStepDecides DEF OneDecisionPerStep
  <2>5. QED
    BY <2>3, <2>4
<1>3. QED
  BY <1>1, <1>2, Invariance, PTL DEF Spec

-----------------------------------------------------------------------------
(* An approved instance earned it.                                         *)

(* Strengthened by the approver being a user, which Forward preserves.     *)
Earned ==
  \A i \in Instances :
    status[i] = "APPROVED" => AllApproved(i) /\ approvedBy[subject[i]] \in Users

(* An instance becomes APPROVED only in SetInstanceStatus.                 *)
LEMMA OnlySetInstanceStatusApproves ==
  ASSUME Inv, [Next]_vars, NEW i \in Instances, status[i] # "APPROVED",
         status'[i] = "APPROVED"
  PROVE  \E c \in Calls :
           /\ At(c, "setStatus") /\ call[c].inst = i /\ call[c].out = "APPROVED"
<1>1. status \in [Instances -> Statuses]
  BY DEF Inv, TypeOK
<1>2. ASSUME NEW c \in Calls, Continue(c), ~SetInstanceStatus(c)
      PROVE  FALSE
  BY <1>1, <1>2, WriterHasInstance
     DEF Continue, Insert, InsertInstance, OnWorkflowSubmitted, Submit, ActivateStep, Routed,
         DecideStep, OnWorkflowApproved, ReadOrderForExit, RevertOrder, Cancel,
         ClaimForResubmission, Revalidate, InsertResubmitted, WriteOrder, headerVars
<1>3. ASSUME NEW c \in Calls, SetInstanceStatus(c)
      PROVE  At(c, "setStatus") /\ call[c].inst = i /\ call[c].out = "APPROVED"
  BY <1>1, <1>3 DEF SetInstanceStatus
<1>4. ASSUME NEW c \in Calls, BeginRequest(c) PROVE UNCHANGED status
  BY <1>4 DEF BeginRequest, BeginCreate, BeginSubmit, BeginRecovery, BeginCancel,
     BeginResubmit, BeginDecision, BeginOrderWrite
<1>5. ASSUME NEW j \in Instances, Expire(j) PROVE FALSE
  BY <1>1, <1>5 DEF Expire
<1>6. QED
  BY <1>2, <1>3, <1>4, <1>5 DEF Next, NextWithoutFailure, vars, Activate, Deactivate,
     ReceiveGoods, Fail

(* With gapless sequence numbers (validateSteps does not require them), an *)
(* instance is APPROVED only after all its steps were and its order was    *)
(* stamped with an approver, wherever a request fails on the way.          *)
THEOREM ApprovalIsEarned ==
  ASSUME Contiguous
  PROVE  Spec => []ApprovedIsEarned
<1>1. Init => Earned
  BY DEF Init, Earned
<1>2. Inv /\ Earned /\ [Next]_vars => Earned'
  <2> SUFFICES ASSUME Inv, Earned, [Next]_vars, NEW i \in Instances,
                      status'[i] = "APPROVED"
               PROVE  (\A s \in Sequences : step'[i][s] = "APPROVED")
                      /\ approvedBy'[subject'[i]] \in Users
    BY DEF Earned, AllApproved
  <2>1. Forward
    BY RowsMoveForward
  <2>2. /\ AllApproved(i) /\ approvedBy[subject[i]] \in Users
        /\ status[i] # "NONE" /\ subject[i] \in Orders
    <3>1. CASE status[i] = "APPROVED"
      BY <3>1 DEF Earned, Inv, HasSubject
    <3>2. CASE status[i] # "APPROVED"
      <4>1. PICK c \in Calls :
              At(c, "setStatus") /\ call[c].inst = i /\ call[c].out = "APPROVED"
        BY <3>2, OnlySetInstanceStatusApproves
      <4>2. status[i] # "NONE" /\ subject[i] \in Orders
        BY <4>1, WriterHasInstance
      <4>3. CallOK(c)
        BY DEF Inv
      <4>4. QED
        BY <4>1, <4>2, <4>3, Contiguous DEF CallOK
    <3>3. QED
      BY <3>1, <3>2
  <2>3. QED
    BY <2>1, <2>2 DEF Forward, AllApproved, Outcomes
<1>3. TypeOK /\ Earned => ApprovedIsEarned
  BY NoneAssumption DEF TypeOK, Earned, ApprovedIsEarned
<1>4. QED
  BY <1>1, <1>2, <1>3, Invariance, TypeCorrect, PTL DEF Spec

-----------------------------------------------------------------------------
(* A returned instance is resubmitted once.                                *)

\* Where a resubmission stands after its claim.
Resubmitting == {"revalidate", "onResubmitted", "insertResubmitted"}

\* The request that won the claim of a RETURNED instance is alone with it, and has
\* inserted no successor yet.
ClaimHolder(c) ==
  LET i == call[c].inst
  IN call[c].at \in Resubmitting =>
       /\ claimed[i] /\ status[i] = "RETURNED"
       /\ \A j \in Instances : previous[j] # i
       /\ \A d \in Calls : call[d].at \in Resubmitting /\ call[d].inst = i => d = c

Resubmissions ==
  /\ ResubmittedOnce
  /\ \A c \in Calls : ClaimHolder(c)
  /\ \A c \in Calls : At(c, "claim") => status[call[c].inst] = "RETURNED"

(* A returned instance stays returned, and a claim is never given back.    *)
LEMMA ReturnedStays ==
  ASSUME Inv, [Next]_vars, NEW i \in Instances
  PROVE  /\ status[i] = "RETURNED" => status'[i] = "RETURNED"
         /\ claimed[i] => claimed'[i]
<1>1. /\ status \in [Instances -> Statuses]
      /\ claimed \in [Instances -> BOOLEAN]
  BY DEF Inv, TypeOK
<1>2. status[i] = "RETURNED" => status'[i] = "RETURNED"
  <2>1. ASSUME NEW c \in Calls, Continue(c), status[i] = "RETURNED"
        PROVE  status'[i] = "RETURNED"
    BY <1>1, <2>1 DEF Continue, Insert, InsertInstance, OnWorkflowSubmitted, Submit,
       ActivateStep, Routed, DecideStep, OnWorkflowApproved, SetInstanceStatus, Open,
       NonTerminal, ReadOrderForExit, RevertOrder, Cancel, ClaimForResubmission, Revalidate,
       InsertResubmitted, WriteOrder
  <2>2. ASSUME NEW j \in Instances, Expire(j), status[i] = "RETURNED"
        PROVE  status'[i] = "RETURNED"
    BY <1>1, <2>2 DEF Expire, Open, NonTerminal
  <2>3. QED
    BY <2>1, <2>2 DEF Next, NextWithoutFailure, vars, Activate, Deactivate, ReceiveGoods,
       Fail, BeginRequest, BeginCreate, BeginSubmit, BeginRecovery, BeginCancel,
       BeginResubmit, BeginDecision, BeginOrderWrite
<1>3. claimed[i] => claimed'[i]
  <2>1. ASSUME NEW c \in Calls, ClaimForResubmission(c) PROVE claimed[i] => claimed'[i]
    BY <1>1, <2>1 DEF ClaimForResubmission
  <2>2. UNCHANGED claimed \/ \E c \in Calls : ClaimForResubmission(c)
    BY DEF Next, NextWithoutFailure, Continue, BeginRequest, vars, Activate, Deactivate,
       ReceiveGoods, Fail, Expire, Insert, OnWorkflowSubmitted, Submit, ActivateStep,
       DecideStep, OnWorkflowApproved, SetInstanceStatus, ReadOrderForExit, RevertOrder,
       Cancel, Revalidate, InsertResubmitted, WriteOrder, BeginCreate, BeginSubmit,
       BeginRecovery, BeginCancel, BeginResubmit, BeginDecision, BeginOrderWrite
  <2>3. QED
    BY <2>1, <2>2
<1>4. QED
  BY <1>2, <1>3

(* A request gets past the claim only by winning it, and reaches the claim *)
(* only from a RETURNED instance.                                          *)
LEMMA ResubmissionSteps ==
  ASSUME Inv, [Next]_vars, NEW d \in Calls
  PROVE  /\ call'[d].at \in Resubmitting =>
              /\ call'[d].inst = call[d].inst
              /\ \/ call[d].at \in Resubmitting
                 \/ ClaimForResubmission(d) /\ ~claimed[call[d].inst]
         /\ call'[d].at = "claim" =>
              call'[d] = call[d] \/ status[call'[d].inst] = "RETURNED"
<1> DEFINE Result ==
      /\ call'[d].at \in Resubmitting =>
           /\ call'[d].inst = call[d].inst
           /\ \/ call[d].at \in Resubmitting
              \/ ClaimForResubmission(d) /\ ~claimed[call[d].inst]
      /\ call'[d].at = "claim" =>
           call'[d] = call[d] \/ status[call'[d].inst] = "RETURNED"
<1>1. call \in [Calls -> CallRecords]
  BY DEF Inv, TypeOK
<1>2. CASE call'[d] = call[d]
  BY <1>2
<1>3. ASSUME NEW r, Goto(d, r), r.at \notin Resubmitting \cup {"claim"} PROVE Result
  BY <1>1, <1>3 DEF Goto
<1>4. CASE Return(d)
  BY <1>3, <1>4 DEF Return, Idle, Request, Resubmitting
<1>5. ASSUME NEW position \in Positions \ (Resubmitting \cup {"claim"}), MoveTo(d, position)
      PROVE  Result
  <2>1. [call[d] EXCEPT !.at = position].at = position
    BY <1>1 DEF CallRecords
  <2>2. QED
    BY <1>3, <1>5, <2>1 DEF MoveTo
<1>6. ASSUME NEW position \in Resubmitting, MoveTo(d, position)
      PROVE  call'[d].at = position /\ call'[d].inst = call[d].inst
  BY <1>1, <1>6 DEF MoveTo, Goto, CallRecords
<1>7. ASSUME NEW c \in Calls, NEW r, Goto(c, r), c # d PROVE call'[d] = call[d]
  BY <1>1, <1>7 DEF Goto
<1>8. CASE BeginRequest(d)
  BY <1>1, <1>3, <1>8 DEF BeginRequest, BeginCreate, BeginSubmit, BeginRecovery, BeginCancel,
     BeginResubmit, BeginDecision, BeginOrderWrite, Begin, OnInstance, Request, Resubmitting,
     Goto
<1>9. CASE Continue(d)
  <2>1. CASE \/ ClaimForResubmission(d) \/ Revalidate(d)
             \/ OnWorkflowSubmitted(d, "onResubmitted", "insertResubmitted")
    BY <1>4, <1>6, <2>1 DEF ClaimForResubmission, Claimable, Revalidate,
       OnWorkflowSubmitted, Resubmitting, At
  <2>2. CASE DecideStep(d)
    <3>1. [call[d] EXCEPT !.at = "activate", !.step = call[d].step + 1].at = "activate"
      BY <1>1 DEF CallRecords
    <3>2. QED
      BY <1>3, <1>4, <1>5, <2>2, <3>1 DEF DecideStep, AfterDecision, Positions, Resubmitting
  <2>3. CASE Submit(d) \/ InsertResubmitted(d)
    BY <1>3, <1>4, <2>3 DEF Submit, InsertResubmitted, OnInstance, Request, Resubmitting
  <2>4. CASE \/ Insert(d) \/ OnWorkflowSubmitted(d, "onSubmitted", "submit")
             \/ ActivateStep(d) \/ OnWorkflowApproved(d) \/ SetInstanceStatus(d)
             \/ ReadOrderForExit(d) \/ RevertOrder(d) \/ Cancel(d) \/ WriteOrder(d)
    BY <1>4, <1>5, <2>4 DEF Insert, OnWorkflowSubmitted, ActivateStep, OnWorkflowApproved,
       SetInstanceStatus, ReadOrderForExit, RevertOrder, Cancel, WriteOrder, Positions,
       Resubmitting
  <2>5. QED
    BY <1>9, <2>1, <2>2, <2>3, <2>4 DEF Continue
<1>10. ASSUME NEW c \in Calls, BeginRequest(c) \/ Continue(c) \/ Fail(c), c # d
       PROVE  call'[d] = call[d]
  BY <1>7, <1>10 DEF BeginRequest, BeginCreate, BeginSubmit, BeginRecovery, BeginCancel,
     BeginResubmit, BeginDecision, BeginOrderWrite, Begin, Continue, Insert,
     OnWorkflowSubmitted, Submit, ActivateStep, DecideStep, AfterDecision,
     OnWorkflowApproved, SetInstanceStatus, ReadOrderForExit, RevertOrder, Cancel,
     ClaimForResubmission, Revalidate, InsertResubmitted, WriteOrder, Fail, Return, MoveTo
<1>11. QED
  BY <1>2, <1>4, <1>8, <1>9, <1>10 DEF Next, NextWithoutFailure, vars, Activate, Deactivate,
     Expire, ReceiveGoods, Fail

(* Only the two inserts write the row's links to its order and predecessor.*)
LEMMA OnlyInsertsLink ==
  ASSUME Inv, [Next]_vars
  PROVE  \/ UNCHANGED <<subject, previous>>
         \/ \E i \in Instances, o \in Orders :
              /\ status[i] = "NONE"
              /\ subject' = [subject EXCEPT ![i] = o]
              /\ previous' = [previous EXCEPT ![i] = None]
         \/ \E c \in Calls, j \in Instances :
              /\ At(c, "insertResubmitted") /\ call'[c].at = "activate"
              /\ status[j] = "NONE"
              /\ subject' = [subject EXCEPT ![j] = subject[call[c].inst]]
              /\ previous' = [previous EXCEPT ![j] = call[c].inst]
<1>1. ASSUME NEW c \in Calls, Insert(c)
      PROVE  \/ UNCHANGED <<subject, previous>>
             \/ \E i \in Instances, o \in Orders :
                  /\ status[i] = "NONE"
                  /\ subject' = [subject EXCEPT ![i] = o]
                  /\ previous' = [previous EXCEPT ![i] = None]
  BY <1>1 DEF Insert, InsertInstance, headerVars, Inv, CallOK, At
<1>2. ASSUME NEW c \in Calls, InsertResubmitted(c)
      PROVE  \/ UNCHANGED <<subject, previous>>
             \/ \E j \in Instances :
                  /\ At(c, "insertResubmitted") /\ call'[c].at = "activate"
                  /\ status[j] = "NONE"
                  /\ subject' = [subject EXCEPT ![j] = subject[call[c].inst]]
                  /\ previous' = [previous EXCEPT ![j] = call[c].inst]
  <2>1. ASSUME NEW j \in Instances, Goto(c, OnInstance("activate", j))
        PROVE  call'[c].at = "activate"
    BY <2>1 DEF Goto, OnInstance, Request, Inv, TypeOK
  <2>2. QED
    BY <1>2, <2>1 DEF InsertResubmitted, InsertInstance, headerVars
<1>3. ASSUME \A c \in Calls : ~Insert(c) /\ ~InsertResubmitted(c)
      PROVE  UNCHANGED <<subject, previous>>
  <2>1. UNCHANGED subject
    BY <1>3 DEF Next, NextWithoutFailure, Continue, BeginRequest, headerVars, vars, Activate,
       Deactivate, ReceiveGoods, Fail, Expire, ActivateStep, OnWorkflowSubmitted, Submit,
       DecideStep, OnWorkflowApproved, SetInstanceStatus, ReadOrderForExit, RevertOrder,
       Cancel, ClaimForResubmission, Revalidate, WriteOrder, BeginCreate, BeginSubmit,
       BeginRecovery, BeginCancel, BeginResubmit, BeginDecision, BeginOrderWrite
  <2>2. UNCHANGED previous
    BY <1>3 DEF Next, NextWithoutFailure, Continue, BeginRequest, headerVars, vars, Activate,
       Deactivate, ReceiveGoods, Fail, Expire, ActivateStep, OnWorkflowSubmitted, Submit,
       DecideStep, OnWorkflowApproved, SetInstanceStatus, ReadOrderForExit, RevertOrder,
       Cancel, ClaimForResubmission, Revalidate, WriteOrder, BeginCreate, BeginSubmit,
       BeginRecovery, BeginCancel, BeginResubmit, BeginDecision, BeginOrderWrite
  <2>3. QED
    BY <2>1, <2>2
<1>4. QED
  BY <1>1, <1>2, <1>3

(* A claim is lost to the first request, and what follows it in another    *)
(* transaction is done by that request alone.                              *)
LEMMA ClaimsInductive ==
  ASSUME Inv, Resubmissions, [Next]_vars, NEW c \in Calls, call'[c].at \in Resubmitting
  PROVE  /\ ClaimHolder(c)'
         /\ call[c].at = "claim" => \A d \in Calls : call[d].at \in Resubmitting =>
                                                       call[d].inst # call[c].inst
<1> DEFINE i == call[c].inst
<1>1. /\ call'[c].inst = i
      /\ \/ call[c].at \in Resubmitting
         \/ ClaimForResubmission(c) /\ ~claimed[i] /\ At(c, "claim")
  BY ResubmissionSteps DEF ClaimForResubmission
<1>2. i \in Instances /\ status[i] = "RETURNED"
  BY <1>1, WriterHasInstance DEF Resubmissions, ClaimHolder, Resubmitting, At
<1>3. /\ \A j \in Instances : previous[j] # i
      /\ \A d \in Calls : call[d].at \in Resubmitting /\ call[d].inst = i => d = c
  <2>1. CASE call[c].at \in Resubmitting
    BY <2>1 DEF Resubmissions, ClaimHolder
  <2>2. CASE ~claimed[i]
    <3>1. \A j \in Instances : previous[j] # i
      BY <1>2, <2>2, NoneAssumption DEF Resubmissions, ResubmittedOnce
    <3>2. \A d \in Calls : call[d].at \in Resubmitting => call[d].inst # i
      BY <2>2 DEF Resubmissions, ClaimHolder
    <3>3. QED
      BY <3>1, <3>2
  <2>3. QED
    BY <1>1, <2>1, <2>2
<1>4. claimed'[i] /\ status'[i] = "RETURNED"
  <2>1. claimed \in [Instances -> BOOLEAN]
    BY DEF Inv, TypeOK
  <2>2. ClaimForResubmission(c) => claimed'[i]
    BY <1>2, <2>1 DEF ClaimForResubmission
  <2>3. call[c].at \in Resubmitting => claimed[i]
    BY DEF Resubmissions, ClaimHolder
  <2>4. QED
    BY <1>1, <1>2, <2>2, <2>3, ReturnedStays
<1>5. \A j \in Instances : previous'[j] # i
  <2>1. previous \in [Instances -> Instances \cup {None}]
    BY DEF Inv, TypeOK
  <2>2. ASSUME NEW d \in Calls, At(d, "insertResubmitted"), call'[d].at = "activate"
        PROVE  call[d].inst # i
    <3>1. call[d].at \in Resubmitting /\ d # c
      BY <2>2 DEF At, Resubmitting
    <3>2. QED
      BY <1>3, <3>1
  <2>3. i # None
    BY <1>2, NoneAssumption
  <2> HIDE DEF i
  <2>4. QED
    BY <1>3, <2>1, <2>2, <2>3, OnlyInsertsLink
<1>6. \A d \in Calls : call'[d].at \in Resubmitting /\ call'[d].inst = i => d = c
  <2>1. ASSUME NEW d \in Calls, call'[d].at \in Resubmitting, call'[d].inst = i, d # c
        PROVE  FALSE
    <3>1. /\ call[d].inst = i
          /\ call[d].at \in Resubmitting \/ (ClaimForResubmission(d) /\ ~claimed[i])
      BY <2>1, ResubmissionSteps
    <3>2. ClaimForResubmission(d) /\ ~claimed[i]
      BY <1>3, <2>1, <3>1
    <3>3. call'[c] = call[c]
      BY <2>1, <3>2 DEF ClaimForResubmission, MoveTo, Return, Goto, Inv, TypeOK
    <3>4. call[c].at \in Resubmitting
      BY <3>3
    <3>5. QED
      BY <3>2, <3>4 DEF Resubmissions, ClaimHolder
  <2>2. QED
    BY <2>1
<1>7. ClaimHolder(c)'
  BY <1>1, <1>4, <1>5, <1>6 DEF ClaimHolder
<1>8. QED
  BY <1>3, <1>7 DEF Resubmitting

(* Racing resubmissions of a returned instance, also from requests that    *)
(* read it before it was claimed, give it at most one successor: the claim *)
(* is won once and never handed back, and only its winner inserts.         *)
THEOREM ResubmissionOnce == Spec => []ResubmittedOnce
<1>1. Init => Resubmissions
  BY NoneAssumption DEF Init, Resubmissions, ResubmittedOnce, ClaimHolder, At, Idle, Request,
     Resubmitting
<1>2. Inv /\ Resubmissions /\ [Next]_vars => Resubmissions'
  <2> SUFFICES ASSUME Inv, Resubmissions, [Next]_vars PROVE Resubmissions'
    OBVIOUS
  <2>1. \A c \in Calls : ClaimHolder(c)'
    BY ClaimsInductive DEF ClaimHolder
  <2>2. \A c \in Calls : At(c, "claim")' => status'[call'[c].inst] = "RETURNED"
    <3>1. ASSUME NEW c \in Calls, At(c, "claim")' PROVE status'[call'[c].inst] = "RETURNED"
      <4>1. status[call'[c].inst] = "RETURNED"
        BY <3>1, ResubmissionSteps DEF Resubmissions, At
      <4>2. call'[c].inst \in Instances
        BY <3>1, CallsOKInductive, InvInductive DEF CallOK, At, WithInstance, Positions
      <4>3. QED
        BY <4>1, <4>2, ReturnedStays
    <3>2. QED
      BY <3>1
  <2>3. ResubmittedOnce'
    <3>1. /\ previous \in [Instances -> Instances \cup {None}]
          /\ subject \in [Instances -> Orders \cup {None}]
      BY DEF Inv, TypeOK
    <3>2. \A i \in Instances : previous[i] # None =>
            /\ previous[i] \in Instances
            /\ status[previous[i]] = "RETURNED" /\ status'[previous[i]] = "RETURNED"
            /\ claimed'[previous[i]] /\ subject[i] = subject[previous[i]]
            /\ \A j \in Instances : previous[i] = previous[j] => i = j
      BY <3>1, ReturnedStays DEF Resubmissions, ResubmittedOnce
    <3>3. CASE UNCHANGED <<subject, previous>>
      BY <3>2, <3>3 DEF ResubmittedOnce
    <3>4. ASSUME NEW k \in Instances, NEW o \in Orders, status[k] = "NONE",
                 subject' = [subject EXCEPT ![k] = o],
                 previous' = [previous EXCEPT ![k] = None]
          PROVE  ResubmittedOnce'
      <4>1. \A i \in Instances : previous'[i] # None =>
              previous'[i] = previous[i] /\ subject'[i] = subject[i] /\ i # k
        BY <3>1, <3>4
      <4>2. \A i \in Instances : previous'[i] # None => previous[i] # k
        BY <3>2, <3>4, <4>1
      <4>3. \A i \in Instances : i # k => subject'[i] = subject[i]
        BY <3>1, <3>4
      <4>4. QED
        BY <3>2, <4>1, <4>2, <4>3 DEF ResubmittedOnce
    <3>5. ASSUME NEW c \in Calls, NEW k \in Instances, At(c, "insertResubmitted"),
                 status[k] = "NONE",
                 subject' = [subject EXCEPT ![k] = subject[call[c].inst]],
                 previous' = [previous EXCEPT ![k] = call[c].inst]
          PROVE  ResubmittedOnce'
      <4> DEFINE b == call[c].inst
      <4>1. /\ b \in Instances /\ b # None
            /\ claimed[b] /\ status[b] = "RETURNED" /\ b # k
            /\ \A j \in Instances : previous[j] # b
        BY <3>5, WriterHasInstance, NoneAssumption
           DEF Resubmissions, ClaimHolder, Resubmitting, At
      <4>2. claimed'[b] /\ status'[b] = "RETURNED"
        BY <4>1, ReturnedStays
      <4>3. /\ previous' = [previous EXCEPT ![k] = b]
            /\ subject' = [subject EXCEPT ![k] = subject[b]]
        BY <3>5
      <4> HIDE DEF b
      <4>4. /\ previous'[k] = b /\ subject'[k] = subject[b]
            /\ \A i \in Instances : i # k =>
                 previous'[i] = previous[i] /\ subject'[i] = subject[i]
        BY <3>1, <4>1, <4>3
      <4>5. \A i \in Instances : previous[i] # None => previous[i] # k
        BY <3>2, <3>5
      <4>6. QED
        BY <3>2, <4>1, <4>2, <4>4, <4>5 DEF ResubmittedOnce
    <3>6. QED
      BY <3>3, <3>4, <3>5, OnlyInsertsLink
  <2>4. QED
    BY <2>1, <2>2, <2>3 DEF Resubmissions
<1>3. Resubmissions => ResubmittedOnce
  BY DEF Resubmissions
<1>4. QED
  BY <1>1, <1>2, <1>3, Invariance, PTL DEF Spec

-----------------------------------------------------------------------------
(* The durable events say what the rows say.                               *)

\* Strengthened by: only a resubmission gives a row its predecessor.
EventsKept ==
  /\ EventsMatchState
  /\ \A i \in Instances : status[i] \in {"NONE", "DRAFT"} => previous[i] = None

\* The events setInstanceStatus and expire commit with a new status.
WrittenWith(v, b) ==
  IF v \in {"SUBMITTED", "APPROVED", "CANCELLED", "EXPIRED"} THEN {InstanceEvent(v, b)} ELSE {}

(* A guarded update of the status that commits its event keeps the events  *)
(* in step with the rows.                                                  *)
LEMMA StatusEventKept ==
  ASSUME TypeOK, EventsKept, NEW b \in Instances,
         NEW v \in Outcomes \cup {"SUBMITTED", "CANCELLED", "EXPIRED"},
         status[b] \in NonTerminal,
         v \in Outcomes => status[b] = "IN_PROGRESS",
         v = "SUBMITTED" => status[b] = "DRAFT",
         status' = [status EXCEPT ![b] = v],
         events' = events \cup WrittenWith(v, b),
         UNCHANGED <<step, previous>>
  PROVE  EventsKept'
<1>1. /\ status'[b] = v
      /\ \A i \in Instances : i # b => status'[i] = status[i]
  BY DEF TypeOK
<1>2. \A i \in Instances : \A type :
        InstanceEvent(type, i) \in events' <=>
          \/ InstanceEvent(type, i) \in events
          \/ i = b /\ type = v /\ v \in {"SUBMITTED", "APPROVED", "CANCELLED", "EXPIRED"}
  BY DEF WrittenWith, InstanceEvent
<1>3. \A i \in Instances : \A s \in Sequences :
        \A type \in {"APPROVAL_REQUIRED", "STEP_APPROVED", "REJECTED", "RETURNED"} :
          StepEvent(type, i, s) \in events' <=> StepEvent(type, i, s) \in events
  BY DEF WrittenWith, InstanceEvent, StepEvent
<1>4. \A i \in Instances : \A type \in {"APPROVED", "CANCELLED", "EXPIRED"} :
        InstanceEvent(type, i) \in events' <=> status'[i] = type
  BY <1>1, <1>2 DEF EventsKept, EventsMatchState, NonTerminal, Outcomes
<1>5. \A i \in Instances : status'[i] \in {"SUBMITTED", "IN_PROGRESS"} \cup Outcomes =>
        InstanceEvent(IF previous[i] = None THEN "SUBMITTED" ELSE "RESUBMITTED", i) \in events'
  <2>1. ASSUME NEW i \in Instances, status'[i] \in {"SUBMITTED", "IN_PROGRESS"} \cup Outcomes
        PROVE  InstanceEvent(IF previous[i] = None THEN "SUBMITTED" ELSE "RESUBMITTED", i)
                 \in events'
    <3>1. CASE v = "SUBMITTED" /\ i = b
      BY <1>2, <3>1 DEF EventsKept
    <3>2. CASE ~(v = "SUBMITTED" /\ i = b)
      <4>1. status[i] \in {"SUBMITTED", "IN_PROGRESS"} \cup Outcomes
        BY <1>1, <2>1, <3>2 DEF Outcomes
      <4>2. InstanceEvent(IF previous[i] = None THEN "SUBMITTED" ELSE "RESUBMITTED", i)
              \in events
        BY <4>1 DEF EventsKept, EventsMatchState
      <4>3. QED
        BY <4>2
    <3>3. QED
      BY <3>1, <3>2
  <2>2. QED
    BY <2>1
<1>6. \A i \in Instances : status'[i] \in {"NONE", "DRAFT"} => previous'[i] = None
  BY <1>1 DEF EventsKept, Outcomes
<1>7. \A i \in Instances : \A s \in Sequences :
        /\ StepEvent("APPROVAL_REQUIRED", i, s) \in events' <=> step'[i][s] # "PENDING"
        /\ StepEvent("STEP_APPROVED", i, s) \in events' <=> step'[i][s] = "APPROVED"
        /\ \A type \in {"REJECTED", "RETURNED"} :
             StepEvent(type, i, s) \in events' <=> step'[i][s] = type
  BY <1>3 DEF EventsKept, EventsMatchState
<1>8. QED
  BY <1>4, <1>5, <1>6, <1>7 DEF EventsKept, EventsMatchState, InstanceEvent, StepEvent

\* The event that activateStep and decideStep commit with the new status of a step.
StepEventType(v) ==
  IF v = "ACTIVE" THEN "APPROVAL_REQUIRED"
  ELSE IF v = "APPROVED" THEN "STEP_APPROVED" ELSE v

(* So does a guarded update of a step; the first one of an instance also   *)
(* makes it IN_PROGRESS.                                                   *)
LEMMA StepEventKept ==
  ASSUME TypeOK, EventsKept, NEW b \in Instances, NEW n \in Sequences,
         NEW v \in {"ACTIVE"} \cup Outcomes,
         step[b][n] = IF v = "ACTIVE" THEN "PENDING" ELSE "ACTIVE",
         step' = [step EXCEPT ![b][n] = v],
         status' = [status EXCEPT ![b] = Routed(b)] \/ UNCHANGED status,
         events' = events \cup {StepEvent(StepEventType(v), b, n)},
         UNCHANGED previous
  PROVE  EventsKept'
<1>1. \A i \in Instances :
        \/ status'[i] = status[i]
        \/ status[i] \in {"SUBMITTED", "IN_PROGRESS"} /\ status'[i] = "IN_PROGRESS"
  BY DEF TypeOK, Routed
<1>2. \A i \in Instances : \A type \in {"APPROVED", "CANCELLED", "EXPIRED", "SUBMITTED", "RESUBMITTED"} :
        InstanceEvent(type, i) \in events' <=> InstanceEvent(type, i) \in events
  BY DEF InstanceEvent, StepEvent, StepEventType, Outcomes
<1>3. \A i \in Instances : \A s \in Sequences : \A type :
        StepEvent(type, i, s) \in events' <=>
          \/ StepEvent(type, i, s) \in events
          \/ i = b /\ s = n /\ type = StepEventType(v)
  BY DEF StepEvent
<1>4. \A i \in Instances : \A type \in {"APPROVED", "CANCELLED", "EXPIRED"} :
        InstanceEvent(type, i) \in events' <=> status'[i] = type
  BY <1>1, <1>2 DEF EventsKept, EventsMatchState
<1>5. \A i \in Instances : status'[i] \in {"SUBMITTED", "IN_PROGRESS"} \cup Outcomes =>
        InstanceEvent(IF previous'[i] = None THEN "SUBMITTED" ELSE "RESUBMITTED", i) \in events'
  BY <1>1, <1>2 DEF EventsKept, EventsMatchState
<1>6. \A i \in Instances : status'[i] \in {"NONE", "DRAFT"} => previous'[i] = None
  BY <1>1 DEF EventsKept
<1>7. ASSUME NEW i \in Instances, NEW s \in Sequences
      PROVE  /\ StepEvent("APPROVAL_REQUIRED", i, s) \in events' <=> step'[i][s] # "PENDING"
             /\ StepEvent("STEP_APPROVED", i, s) \in events' <=> step'[i][s] = "APPROVED"
             /\ \A type \in {"REJECTED", "RETURNED"} :
                  StepEvent(type, i, s) \in events' <=> step'[i][s] = type
  <2>1. /\ StepEvent("APPROVAL_REQUIRED", i, s) \in events <=> step[i][s] # "PENDING"
        /\ StepEvent("STEP_APPROVED", i, s) \in events <=> step[i][s] = "APPROVED"
        /\ \A type \in {"REJECTED", "RETURNED"} :
             StepEvent(type, i, s) \in events <=> step[i][s] = type
    BY DEF EventsKept, EventsMatchState
  <2>2. CASE i = b /\ s = n
    <3>1. step'[b][n] = v
      BY DEF TypeOK
    <3>2. QED
      BY <1>3, <2>1, <2>2, <3>1 DEF StepEventType, Outcomes
  <2>3. CASE ~(i = b /\ s = n)
    <3>1. step'[i][s] = step[i][s]
      BY <2>3 DEF TypeOK
    <3>2. QED
      BY <1>3, <2>1, <2>3, <3>1
  <2>4. QED
    BY <2>2, <2>3
<1>8. QED
  BY <1>4, <1>5, <1>6, <1>7 DEF EventsKept, EventsMatchState, InstanceEvent, StepEvent

(* A new instance has no event, or the one of its resubmission.            *)
LEMMA InsertEventKept ==
  ASSUME TypeOK, EventsKept, NEW b \in Instances, NEW o, NEW prev \in Instances \cup {None},
         NEW st \in {"DRAFT", "SUBMITTED"}, NEW due,
         st = "DRAFT" <=> prev = None,
         InsertInstance(b, o, st, prev, due),
         events' = events \cup (IF st = "DRAFT" THEN {} ELSE {InstanceEvent("RESUBMITTED", b)}),
         UNCHANGED step
  PROVE  EventsKept'
<1>1. /\ status[b] = "NONE" /\ status'[b] = st /\ previous'[b] = prev
      /\ \A i \in Instances : i # b => status'[i] = status[i] /\ previous'[i] = previous[i]
  BY DEF TypeOK, InsertInstance
<1>2. \A i \in Instances : \A type :
        InstanceEvent(type, i) \in events' <=>
          \/ InstanceEvent(type, i) \in events
          \/ i = b /\ type = "RESUBMITTED" /\ st = "SUBMITTED"
  BY DEF InstanceEvent
<1>3. \A i \in Instances : \A s \in Sequences :
        \A type \in {"APPROVAL_REQUIRED", "STEP_APPROVED", "REJECTED", "RETURNED"} :
          StepEvent(type, i, s) \in events' <=> StepEvent(type, i, s) \in events
  BY DEF InstanceEvent, StepEvent
<1>4. \A i \in Instances : \A type \in {"APPROVED", "CANCELLED", "EXPIRED"} :
        InstanceEvent(type, i) \in events' <=> status'[i] = type
  BY <1>1, <1>2 DEF EventsKept, EventsMatchState
<1>5. ASSUME NEW i \in Instances, status'[i] \in {"SUBMITTED", "IN_PROGRESS"} \cup Outcomes
      PROVE  InstanceEvent(IF previous'[i] = None THEN "SUBMITTED" ELSE "RESUBMITTED", i)
               \in events'
  <2>1. CASE i = b
    BY <1>1, <1>2, <1>5, <2>1 DEF Outcomes
  <2>2. CASE i # b
    <3>1. InstanceEvent(IF previous[i] = None THEN "SUBMITTED" ELSE "RESUBMITTED", i) \in events
      BY <1>1, <1>5, <2>2 DEF EventsKept, EventsMatchState
    <3>2. QED
      BY <1>1, <2>2, <3>1
  <2>3. QED
    BY <2>1, <2>2
<1>6. \A i \in Instances : status'[i] \in {"NONE", "DRAFT"} => previous'[i] = None
  BY <1>1 DEF EventsKept
<1>7. \A i \in Instances : \A s \in Sequences :
        /\ StepEvent("APPROVAL_REQUIRED", i, s) \in events' <=> step'[i][s] # "PENDING"
        /\ StepEvent("STEP_APPROVED", i, s) \in events' <=> step'[i][s] = "APPROVED"
        /\ \A type \in {"REJECTED", "RETURNED"} :
             StepEvent(type, i, s) \in events' <=> step'[i][s] = type
  BY <1>3 DEF EventsKept, EventsMatchState
<1>8. QED
  BY <1>4, <1>5, <1>6, <1>7 DEF EventsKept, EventsMatchState, InstanceEvent, StepEvent

(* What leaves the rows and the events alone keeps them in step.           *)
LEMMA OtherStepsKeepEvents ==
  ASSUME EventsKept, UNCHANGED <<status, step, events, previous>>
  PROVE  EventsKept'
BY DEF EventsKept, EventsMatchState, InstanceEvent, StepEvent

(* An event is committed with the transition it tells of and never for one *)
(* that lost its race, for any number of requests and failures: what the   *)
(* notification worker reads is what happened.                             *)
THEOREM EventsTellState == Spec => []EventsMatchState
<1>1. Init => EventsKept
  BY DEF Init, EventsKept, EventsMatchState, InstanceEvent, StepEvent, Outcomes
<1>2. Inv /\ EventsKept /\ [Next]_vars => EventsKept'
  <2> SUFFICES ASSUME Inv, EventsKept, [Next]_vars PROVE EventsKept'
    OBVIOUS
  <2>0. TypeOK /\ \A c \in Calls : CallOK(c)
    BY DEF Inv
  <2>1. ASSUME NEW c \in Calls, Submit(c) \/ SetInstanceStatus(c) \/ Cancel(c)
        PROVE  EventsKept'
    <3> DEFINE b == call[c].inst
    <3>1. b \in Instances /\ UNCHANGED <<step, previous>>
      BY <2>1, WriterHasInstance DEF Submit, SetInstanceStatus, Cancel, rowVars, headerVars
    <3>2. CASE UNCHANGED <<status, events>>
      BY <3>1, <3>2, OtherStepsKeepEvents
    <3>3. CASE Submit(c) /\ status[b] = "DRAFT"
      <4>1. /\ status' = [status EXCEPT ![b] = "SUBMITTED"]
            /\ events' = events \cup WrittenWith("SUBMITTED", b)
        BY <3>3 DEF Submit, Record, WrittenWith
      <4>2. QED
        BY <2>0, <3>1, <3>3, <4>1, StatusEventKept DEF NonTerminal, Outcomes
    <3>4. CASE SetInstanceStatus(c) /\ Open(b)
      <4>1. /\ call[c].out \in Outcomes /\ status[b] = "IN_PROGRESS"
        BY <2>0, <3>4 DEF SetInstanceStatus, CallOK, At, Open, NonTerminal, Unrouted
      <4>2. /\ status' = [status EXCEPT ![b] = call[c].out]
            /\ events' = events \cup WrittenWith(call[c].out, b)
        BY <3>4, <4>1 DEF SetInstanceStatus, Record, WrittenWith, Outcomes
      <4>3. QED
        BY <2>0, <3>1, <4>1, <4>2, StatusEventKept DEF NonTerminal, Outcomes
    <3>5. CASE Cancel(c) /\ Open(b)
      <4>1. /\ status' = [status EXCEPT ![b] = "CANCELLED"]
            /\ events' = events \cup WrittenWith("CANCELLED", b)
        BY <3>5 DEF Cancel, Record, WrittenWith
      <4>2. QED
        BY <2>0, <3>1, <3>5, <4>1, StatusEventKept DEF Open, Outcomes
    <3>6. QED
      BY <2>1, <3>2, <3>3, <3>4, <3>5 DEF Submit, SetInstanceStatus, Cancel
  <2>2. ASSUME NEW i \in Instances, Expire(i) PROVE EventsKept'
    <3>1. /\ status' = [status EXCEPT ![i] = "EXPIRED"]
          /\ events' = events \cup WrittenWith("EXPIRED", i)
          /\ UNCHANGED <<step, previous>>
      BY <2>2 DEF Expire, Record, WrittenWith, rowVars, headerVars
    <3>2. QED
      BY <2>0, <2>2, <3>1, StatusEventKept DEF Expire, Open, Outcomes
  <2>3. ASSUME NEW c \in Calls, ActivateStep(c) PROVE EventsKept'
    <3> DEFINE b == call[c].inst
               n == call[c].step
    <3>1. b \in Instances /\ n \in Sequences /\ UNCHANGED previous
      BY <2>3, WriterHasInstance DEF ActivateStep, headerVars
    <3>2. CASE step[b][n] # "PENDING"
      BY <2>3, <3>1, <3>2, OtherStepsKeepEvents DEF ActivateStep
    <3>3. CASE step[b][n] = "PENDING"
      <4>1. /\ step' = [step EXCEPT ![b][n] = "ACTIVE"]
            /\ status' = [status EXCEPT ![b] = Routed(b)]
            /\ events' = events \cup {StepEvent(StepEventType("ACTIVE"), b, n)}
        BY <2>3, <3>3 DEF ActivateStep, Record, StepEventType
      <4> HIDE DEF b, n
      <4>2. QED
        BY <2>0, <3>1, <3>3, <4>1, StepEventKept
    <3>4. QED
      BY <3>2, <3>3
  <2>4. ASSUME NEW c \in Calls, DecideStep(c) PROVE EventsKept'
    <3> DEFINE b == call[c].inst
               n == call[c].step
               v == call[c].out
    <3>1. /\ b \in Instances /\ n \in Sequences /\ v \in Outcomes
          /\ UNCHANGED <<status, previous>>
      BY <2>0, <2>4, WriterHasInstance DEF DecideStep, headerVars, CallOK, At
    <3>2. CASE ~Decidable(b, n)
      BY <2>4, <3>1, <3>2, OtherStepsKeepEvents DEF DecideStep, rowVars
    <3>3. CASE Decidable(b, n)
      <4>1. /\ step[b][n] = "ACTIVE"
            /\ step' = [step EXCEPT ![b][n] = v]
            /\ events' = events \cup {StepEvent(IF v = "APPROVED" THEN "STEP_APPROVED"
                                                ELSE v, b, n)}
        BY <2>4, <3>3 DEF DecideStep, Decidable, Record
      <4> HIDE DEF b, n, v
      <4>2. /\ v # "ACTIVE"
            /\ events' = events \cup {StepEvent(StepEventType(v), b, n)}
        BY <3>1, <4>1 DEF StepEventType, Outcomes
      <4>3. QED
        BY <2>0, <3>1, <4>1, <4>2, StepEventKept
    <3>4. QED
      BY <3>2, <3>3
  <2>5. ASSUME NEW c \in Calls, Insert(c) \/ InsertResubmitted(c) PROVE EventsKept'
    <3>1. UNCHANGED step
      BY <2>5 DEF Insert, InsertResubmitted, rowVars
    <3>2. CASE UNCHANGED <<status, headerVars, events>>
      BY <3>1, <3>2, OtherStepsKeepEvents DEF headerVars
    <3>3. ASSUME NEW i \in Instances, NEW due \in DueDates, UNCHANGED events,
                 InsertInstance(i, call[c].order, "DRAFT", None, due)
          PROVE  EventsKept'
      BY <2>0, <3>1, <3>3, InsertEventKept
    <3>4. ASSUME NEW j \in Instances, Record(InstanceEvent("RESUBMITTED", j)),
                 At(c, "insertResubmitted"),
                 InsertInstance(j, subject[call[c].inst], "SUBMITTED", call[c].inst, FALSE)
          PROVE  EventsKept'
      <4>1. call[c].inst \in Instances /\ call[c].inst # None
        BY <3>4, WriterHasInstance, NoneAssumption
      <4>2. QED
        BY <2>0, <3>1, <3>4, <4>1, InsertEventKept DEF Record
    <3>5. QED
      BY <2>5, <3>2, <3>3, <3>4 DEF Insert, InsertResubmitted
  <2>6. ASSUME \A c \in Calls : /\ ~Submit(c) /\ ~SetInstanceStatus(c) /\ ~Cancel(c)
                                /\ ~ActivateStep(c) /\ ~DecideStep(c)
                                /\ ~Insert(c) /\ ~InsertResubmitted(c),
               \A i \in Instances : ~Expire(i)
        PROVE  UNCHANGED <<status, step, events>> /\ UNCHANGED previous
    BY <2>6 DEF Next, NextWithoutFailure, Continue, BeginRequest, vars, rowVars, headerVars,
       Activate, Deactivate, ReceiveGoods, Fail, OnWorkflowSubmitted, OnWorkflowApproved,
       ReadOrderForExit, RevertOrder, ClaimForResubmission, Revalidate, WriteOrder,
       BeginCreate, BeginSubmit, BeginRecovery, BeginCancel, BeginResubmit, BeginDecision,
       BeginOrderWrite
  <2>7. QED
    BY <2>1, <2>2, <2>3, <2>4, <2>5, <2>6, OtherStepsKeepEvents
<1>3. EventsKept => EventsMatchState
  BY DEF EventsKept
<1>4. QED
  BY <1>1, <1>2, <1>3, Invariance, PTL DEF Spec

-----------------------------------------------------------------------------
(* The approver of an order decided.                                       *)

\* User u approved the last step of instance i.
LastApprovedBy(i, u) ==
  \E d \in decisions : d.inst = i /\ IsLast(d.step) /\ d.user = u /\ d.decision = "APPROVED"

\* The user a request is about to stamp on the order did approve.
Stamped ==
  /\ \A c \in Calls : At(c, "onApproved") => LastApprovedBy(call[c].inst, call[c].user)
  /\ \A o \in Orders : approvedBy[o] # None =>
       \E i \in Instances : subject[i] = o /\ status[i] # "NONE"
                            /\ LastApprovedBy(i, approvedBy[o])

(* Decisions are never deleted.                                            *)
LEMMA DecisionsGrow ==
  ASSUME [Next]_vars
  PROVE  decisions \subseteq decisions'
<1>1. ASSUME NEW c \in Calls, DecideStep(c) PROVE decisions \subseteq decisions'
  BY <1>1 DEF DecideStep, rowVars
<1>2. QED
  BY <1>1, OnlyDecideStepDecides

(* A request reaches the stamp of the order from its own approval of the   *)
(* last step, or on behalf of the user whose approval it found recorded.   *)
LEMMA StampsEarned ==
  ASSUME Contiguous, Inv, [Next]_vars, NEW d \in Calls, call'[d].at = "onApproved"
  PROVE  \/ call'[d] = call[d]
         \/ LastApprovedBy(call[d].inst, call[d].user)'
<1>1. call \in [Calls -> CallRecords]
  BY DEF Inv, TypeOK
<1>2. ASSUME NEW r, Goto(d, r) PROVE r.at = "onApproved" /\ call'[d] = r
  BY <1>1, <1>2 DEF Goto
<1>3. ASSUME Return(d) PROVE FALSE
  BY <1>2, <1>3 DEF Return, Idle, Request
<1>4. ASSUME NEW position \in Positions \ {"onApproved"}, MoveTo(d, position) PROVE FALSE
  <2>1. [call[d] EXCEPT !.at = position].at = position
    BY <1>1 DEF CallRecords
  <2>2. QED
    BY <1>2, <1>4, <2>1 DEF MoveTo
<1>5. ASSUME NEW position \in Positions \ {"onApproved"}, NEW i, Goto(d, OnInstance(position, i))
      PROVE  FALSE
  BY <1>2, <1>5 DEF OnInstance, Request
<1>6. ASSUME NEW c \in Calls, NEW r, Goto(c, r), c # d PROVE call'[d] = call[d]
  BY <1>1, <1>6 DEF Goto
<1>7. ASSUME NEW c \in Calls, BeginRequest(c) \/ Continue(c) \/ Fail(c), c # d
      PROVE  call'[d] = call[d]
  BY <1>6, <1>7 DEF BeginRequest, BeginCreate, BeginSubmit, BeginRecovery, BeginCancel,
     BeginResubmit, BeginDecision, BeginOrderWrite, Begin, Continue, Insert,
     OnWorkflowSubmitted, Submit, ActivateStep, DecideStep, AfterDecision,
     OnWorkflowApproved, SetInstanceStatus, ReadOrderForExit, RevertOrder, Cancel,
     ClaimForResubmission, Revalidate, InsertResubmitted, WriteOrder, Fail, Return, MoveTo
<1>8. CASE BeginRequest(d)
  <2>1. ASSUME NEW i \in Instances, BeginRecovery(d, i)
        PROVE  LastApprovedBy(call[d].inst, call[d].user)'
    <3>1. PICK u \in FinalApprovers(i) :
            Goto(d, Request("onApproved", i, None, FirstStep, u, "APPROVED"))
      BY <2>1 DEF BeginRecovery
    <3>2. call'[d].inst = i /\ call'[d].user = u
      BY <1>2, <3>1 DEF Request
    <3>3. LastApprovedBy(i, u) /\ UNCHANGED decisions
      BY <2>1 DEF BeginRecovery, rowVars, FinalApprovers, LastApprovedBy
    <3>4. QED
      BY <3>2, <3>3 DEF LastApprovedBy
  <2>2. ASSUME NEW i \in Instances, BeginSubmit(d, i) \/ BeginCancel(d, i) \/ BeginResubmit(d, i)
        PROVE  FALSE
    BY <1>5, <2>2 DEF BeginSubmit, BeginCancel, BeginResubmit, Begin, Positions
  <2>3. ASSUME NEW i \in Instances, NEW u \in Users, NEW outcome \in {"APPROVED"} \cup Exits,
               BeginDecision(d, i, u, outcome)
        PROVE  FALSE
    BY <1>2, <2>3 DEF BeginDecision, Request
  <2>4. ASSUME NEW o \in Orders, NEW to \in OrderEdits, BeginOrderWrite(d, o, to)
        PROVE  FALSE
    BY <1>2, <2>4 DEF BeginOrderWrite, Request
  <2>5. ASSUME NEW o \in Orders, BeginCreate(d, o) PROVE FALSE
    BY <1>2, <2>5 DEF BeginCreate, Request
  <2>6. QED
    BY <1>8, <2>1, <2>2, <2>3, <2>4, <2>5 DEF BeginRequest
<1>9. CASE Continue(d)
  <2>1. CASE DecideStep(d)
    <3> DEFINE b == call[d].inst
               n == call[d].step
               row == [inst |-> b, step |-> n, user |-> call[d].user,
                       decision |-> call[d].out]
    <3>1. /\ AfterDecision(d) /\ n \in Sequences /\ row \in decisions'
      BY <1>3, <2>1, WriterHasInstance DEF DecideStep
    <3>2. call[d].out = "APPROVED" /\ n + 1 \notin Sequences /\ MoveTo(d, "onApproved")
      <4>1. ASSUME Goto(d, [call[d] EXCEPT !.at = "activate", !.step = n + 1]) PROVE FALSE
        <5>1. [call[d] EXCEPT !.at = "activate", !.step = n + 1].at = "activate"
          BY <1>1 DEF CallRecords
        <5>2. QED
          BY <1>2, <4>1, <5>1
      <4>2. QED
        BY <1>4, <3>1, <4>1 DEF AfterDecision, Positions
    <3>3. IsLast(n)
      BY <3>1, <3>2, Contiguous, NoSuccessorIsLast DEF IsLast
    <3>4. call'[d].inst = b /\ call'[d].user = call[d].user
      BY <1>1, <1>2, <3>2 DEF MoveTo, CallRecords
    <3>5. row.inst = b /\ row.step = n /\ row.user = call[d].user /\ row.decision = "APPROVED"
      BY <3>2
    <3>6. \E e \in decisions' : /\ e.inst = call'[d].inst /\ IsLast(e.step)
                                /\ e.user = call'[d].user /\ e.decision = "APPROVED"
      <4> HIDE DEF row, b, n
      <4>1. QED
        BY <3>1, <3>3, <3>4, <3>5
    <3>7. QED
      BY <3>6 DEF LastApprovedBy, IsLast
  <2>2. CASE Submit(d) \/ InsertResubmitted(d)
    BY <1>3, <1>5, <2>2 DEF Submit, InsertResubmitted, Positions
  <2>3. CASE ~DecideStep(d) /\ ~Submit(d) /\ ~InsertResubmitted(d)
    BY <1>3, <1>4, <1>9, <2>3 DEF Continue, Insert, OnWorkflowSubmitted, ActivateStep,
       OnWorkflowApproved, SetInstanceStatus, ReadOrderForExit, RevertOrder, Cancel,
       ClaimForResubmission, Revalidate, WriteOrder, Positions
  <2>4. QED
    BY <2>1, <2>2, <2>3
<1>10. CASE Fail(d)
  BY <1>3, <1>10 DEF Fail
<1>11. QED
  BY <1>7, <1>8, <1>9, <1>10 DEF Next, NextWithoutFailure, vars, Activate, Deactivate,
     Expire, ReceiveGoods

(* The approver stamped on an order approved the last step of one of its   *)
(* workflows, also when another request completed the approval after a     *)
(* crash, for any number of approvers and of steps.                        *)
THEOREM ApproverIsDecider ==
  ASSUME Contiguous
  PROVE  Spec => []ApproverDecided
<1>1. Init => Stamped
  BY DEF Init, Stamped, At, Idle, Request
<1>2. Inv /\ Stamped /\ [Next]_vars => Stamped'
  <2> SUFFICES ASSUME Inv, Stamped, [Next]_vars PROVE Stamped'
    OBVIOUS
  <2>1. Forward /\ decisions \subseteq decisions'
    BY RowsMoveForward, DecisionsGrow
  <2>2. \A i, u : LastApprovedBy(i, u) => LastApprovedBy(i, u)'
    BY <2>1 DEF LastApprovedBy, IsLast
  <2>3. ASSUME NEW c \in Calls, At(c, "onApproved")'
        PROVE  LastApprovedBy(call[c].inst, call[c].user)'
    <3>1. CASE call'[c] = call[c]
      <4>1. LastApprovedBy(call[c].inst, call[c].user)
        BY <2>3, <3>1 DEF Stamped, At
      <4>2. QED
        BY <2>1, <3>1, <4>1 DEF LastApprovedBy, IsLast
    <3>2. CASE LastApprovedBy(call[c].inst, call[c].user)'
      BY <3>2 DEF LastApprovedBy
    <3>3. QED
      BY <2>3, <3>1, <3>2, StampsEarned, Contiguous DEF At
  <2>4. ASSUME NEW o \in Orders, approvedBy'[o] # None
        PROVE  \E i \in Instances : subject'[i] = o /\ status'[i] # "NONE"
                                    /\ LastApprovedBy(i, approvedBy[o])'
    <3>1. PICK i \in Instances : subject[i] = o /\ status[i] # "NONE"
                                 /\ LastApprovedBy(i, approvedBy'[o])
      <4>1. CASE approvedBy'[o] = approvedBy[o]
        BY <2>4, <4>1 DEF Stamped
      <4>2. ASSUME NEW c \in Calls, OnWorkflowApproved(c), approvedBy'[o] # approvedBy[o]
            PROVE  \E i \in Instances : subject[i] = o /\ status[i] # "NONE"
                                        /\ LastApprovedBy(i, approvedBy'[o])
        <5>1. /\ call[c].inst \in Instances /\ status[call[c].inst] # "NONE"
              /\ LastApprovedBy(call[c].inst, call[c].user)
          BY <4>2, WriterHasInstance DEF OnWorkflowApproved, Stamped
        <5>2. approvedBy'[o] = call[c].user /\ subject[call[c].inst] = o
          BY <4>2 DEF OnWorkflowApproved, Inv, TypeOK
        <5>3. QED
          BY <5>1, <5>2
      <4>3. UNCHANGED approvedBy \/ \E c \in Calls : OnWorkflowApproved(c)
        BY DEF Next, NextWithoutFailure, Continue, BeginRequest, orderVars, vars, Activate,
           Deactivate, ReceiveGoods, Fail, Expire, Insert, ActivateStep, OnWorkflowSubmitted,
           Submit, DecideStep, SetInstanceStatus, ReadOrderForExit, RevertOrder, Cancel,
           ClaimForResubmission, Revalidate, InsertResubmitted, WriteOrder, BeginCreate,
           BeginSubmit, BeginRecovery, BeginCancel, BeginResubmit, BeginDecision,
           BeginOrderWrite
      <4>4. QED
        BY <4>1, <4>2, <4>3
    <3>2. subject'[i] = o /\ status'[i] # "NONE"
      BY <2>1, <3>1 DEF Forward
    <3>3. LastApprovedBy(i, approvedBy[o])'
      BY <2>1, <3>1 DEF LastApprovedBy, IsLast
    <3>4. QED
      BY <3>2, <3>3
  <2>5. QED
    BY <2>3, <2>4 DEF Stamped
<1>3. Stamped => ApproverDecided
  BY DEF Stamped, ApproverDecided, LastApprovedBy
<1>4. QED
  BY <1>1, <1>2, <1>3, Invariance, PTL DEF Spec

-----------------------------------------------------------------------------
(* The engine implements the lifecycle.                                    *)

(* What leaves the steps alone is invisible in the verdicts.               *)
LEMMA VerdictsKept == UNCHANGED step => UNCHANGED verdict
BY DEF verdict

(* The requests refine the moves of one instance: each transaction of the  *)
(* engine is a move of the lifecycle or invisible to it, so an instance is *)
(* decided in order, is APPROVED only with every step, and never reopens.  *)
THEOREM Refinement ==
  ASSUME Contiguous
  PROVE  Spec => ImplementsLifecycle
<1>1. Init => Lifecycle!Init
  BY DEF Init, Lifecycle!Init, verdict, Outcomes
<1>2. Inv /\ [Next]_vars => [Lifecycle!Next]_<<status, verdict>>
  <2> SUFFICES ASSUME Inv, [Next]_vars
               PROVE  Lifecycle!Next \/ UNCHANGED <<status, verdict>>
    OBVIOUS
  <2>0. /\ status \in [Instances -> Statuses]
        /\ step \in [Instances -> [Sequences -> StepStatuses]]
        /\ \A c \in Calls : CallOK(c)
    BY DEF Inv, TypeOK
  <2>1. ASSUME NEW c \in Calls, ActivateStep(c)
        PROVE  Lifecycle!Next \/ UNCHANGED <<status, verdict>>
    <3> DEFINE b == call[c].inst
               n == call[c].step
    <3>1. /\ b \in Instances /\ n \in Sequences
          /\ \/ UNCHANGED <<step, status>>
             \/ /\ step[b][n] = "PENDING"
                /\ step' = [step EXCEPT ![b][n] = "ACTIVE"]
                /\ status' = [status EXCEPT ![b] = Routed(b)]
      BY <2>1, WriterHasInstance DEF ActivateStep
    <3> HIDE DEF b, n
    <3>2. CASE UNCHANGED <<step, status>>
      BY <3>2 DEF verdict
    <3>3. CASE /\ step[b][n] = "PENDING"
               /\ step' = [step EXCEPT ![b][n] = "ACTIVE"]
               /\ status' = [status EXCEPT ![b] = Routed(b)]
      <4>1. \A i \in Instances : \A s \in Sequences :
              step'[i][s] = step[i][s] \/ (step[i][s] = "PENDING" /\ step'[i][s] = "ACTIVE")
        BY <2>0, <3>1, <3>3
      <4>2. UNCHANGED verdict
        BY <4>1 DEF verdict, Outcomes
      <4>3. CASE status[b] = "SUBMITTED"
        BY <3>1, <3>3, <4>2, <4>3
           DEF Routed, Lifecycle!Next, Lifecycle!Route, Lifecycle!Move
      <4>4. CASE status[b] # "SUBMITTED"
        BY <2>0, <3>1, <3>3, <4>2, <4>4 DEF Routed
      <4>5. QED
        BY <4>3, <4>4
    <3>4. QED
      BY <3>1, <3>2, <3>3
  <2>2. ASSUME NEW c \in Calls, DecideStep(c)
        PROVE  Lifecycle!Next \/ UNCHANGED <<status, verdict>>
    <3> DEFINE b == call[c].inst
               n == call[c].step
               v == call[c].out
    <3>1. /\ b \in Instances /\ n \in Sequences /\ v \in Outcomes
          /\ UNCHANGED status
          /\ \/ UNCHANGED step
             \/ step[b][n] = "ACTIVE" /\ step' = [step EXCEPT ![b][n] = v]
      BY <2>2, WriterHasInstance DEF DecideStep, Decidable, rowVars, Inv, CallOK, At
    <3> HIDE DEF b, n, v
    <3>2. CASE UNCHANGED step
      BY <3>1, <3>2 DEF verdict
    <3>3. CASE step[b][n] = "ACTIVE" /\ step' = [step EXCEPT ![b][n] = v]
      <4>1. status[b] \notin Unrouted /\ verdict[b][n] = "OPEN"
        BY <3>1, <3>3 DEF Inv, RoutedFirst, verdict, Outcomes
      <4>2. \A r \in Sequences : r < n => verdict[b][r] = "APPROVED"
        BY <3>1, <3>3 DEF Inv, StepsInSequence, verdict, Outcomes
      <4>3. verdict' = [verdict EXCEPT ![b][n] = v]
        BY <2>0, <3>1, <3>3 DEF verdict
      <4>4. Lifecycle!Decide(b, n, v)
        BY <3>1, <4>1, <4>2, <4>3 DEF Lifecycle!Decide, Unrouted
      <4>5. QED
        BY <3>1, <4>4 DEF Lifecycle!Next, Outcomes, Lifecycle!Outcomes
    <3>4. QED
      BY <3>1, <3>2, <3>3
  <2>3. ASSUME NEW c \in Calls, SetInstanceStatus(c)
        PROVE  Lifecycle!Next \/ UNCHANGED <<status, verdict>>
    <3> DEFINE b == call[c].inst
               v == call[c].out
    <3>1. /\ b \in Instances /\ v \in Outcomes /\ status[b] \notin Unrouted
          /\ v = "APPROVED" => AllApproved(b)
          /\ v # "APPROVED" => \E s \in Sequences : step[b][s] = v
          /\ UNCHANGED step
          /\ \/ UNCHANGED status
             \/ Open(b) /\ status' = [status EXCEPT ![b] = v]
      BY <2>0, <2>3, WriterHasInstance, Contiguous DEF SetInstanceStatus, CallOK, rowVars, At
    <3> HIDE DEF b, v
    <3>2. CASE UNCHANGED status
      BY <3>1, <3>2 DEF verdict
    <3>3. CASE Open(b) /\ status' = [status EXCEPT ![b] = v]
      <4>1. status[b] = "IN_PROGRESS"
        BY <3>1, <3>3 DEF Open, NonTerminal, Unrouted
      <4>2. Lifecycle!Move(b, {"IN_PROGRESS"}, v)
        BY <3>1, <3>3, <4>1, VerdictsKept DEF Lifecycle!Move
      <4>3. \/ v = "APPROVED" /\ \A s \in Sequences : verdict[b][s] = "APPROVED"
            \/ v \in {"REJECTED", "RETURNED"} /\ \E s \in Sequences : verdict[b][s] = v
        BY <3>1 DEF AllApproved, verdict, Outcomes
      <4>4. QED
        BY <3>1, <4>2, <4>3 DEF Lifecycle!Next, Lifecycle!Conclude
    <3>4. QED
      BY <3>1, <3>2, <3>3
  <2>4. ASSUME NEW c \in Calls, Submit(c) \/ Cancel(c)
        PROVE  Lifecycle!Next \/ UNCHANGED <<status, verdict>>
    <3> DEFINE b == call[c].inst
    <3>1. /\ b \in Instances /\ UNCHANGED step
          /\ \/ UNCHANGED status
             \/ status[b] = "DRAFT" /\ status' = [status EXCEPT ![b] = "SUBMITTED"]
             \/ status[b] \in NonTerminal /\ status' = [status EXCEPT ![b] = "CANCELLED"]
      BY <2>4, WriterHasInstance DEF Submit, Cancel, Open, rowVars
    <3> HIDE DEF b
    <3>2. CASE UNCHANGED status
      BY <3>1, <3>2 DEF verdict
    <3>3. CASE status[b] = "DRAFT" /\ status' = [status EXCEPT ![b] = "SUBMITTED"]
      BY <3>1, <3>3, VerdictsKept DEF Lifecycle!Next, Lifecycle!Move, Lifecycle!Submit
    <3>4. CASE status[b] \in NonTerminal /\ status' = [status EXCEPT ![b] = "CANCELLED"]
      BY <3>1, <3>4, VerdictsKept DEF Lifecycle!Next, Lifecycle!Move, Lifecycle!Withdraw, NonTerminal
    <3>5. QED
      BY <3>1, <3>2, <3>3, <3>4
  <2>5. ASSUME NEW i \in Instances, Expire(i)
        PROVE  Lifecycle!Next
    BY <2>5, VerdictsKept
       DEF Expire, Open, rowVars, Lifecycle!Next, Lifecycle!Move, Lifecycle!Withdraw, NonTerminal
  <2>6. ASSUME NEW c \in Calls, Insert(c) \/ InsertResubmitted(c)
        PROVE  Lifecycle!Next \/ UNCHANGED <<status, verdict>>
    <3>1. /\ UNCHANGED step
          /\ \/ UNCHANGED status
             \/ \E i \in Instances, to \in {"DRAFT", "SUBMITTED"} :
                  status[i] = "NONE" /\ status' = [status EXCEPT ![i] = to]
      BY <2>6 DEF Insert, InsertResubmitted, InsertInstance, rowVars
    <3>2. CASE UNCHANGED status
      BY <3>1, <3>2 DEF verdict
    <3>3. ASSUME NEW i \in Instances, NEW to \in {"DRAFT", "SUBMITTED"},
                 status[i] = "NONE", status' = [status EXCEPT ![i] = to]
          PROVE  Lifecycle!Next
      BY <3>1, <3>3, VerdictsKept DEF Lifecycle!Next, Lifecycle!Move, Lifecycle!Raise
    <3>4. QED
      BY <3>1, <3>2, <3>3
  <2>7. \/ UNCHANGED <<status, step>>
        \/ \E c \in Calls : \/ ActivateStep(c) \/ DecideStep(c) \/ SetInstanceStatus(c)
                            \/ Submit(c) \/ Cancel(c) \/ Insert(c) \/ InsertResubmitted(c)
        \/ \E i \in Instances : Expire(i)
    BY DEF Next, NextWithoutFailure, Continue, BeginRequest, vars, rowVars, Activate,
       Deactivate, ReceiveGoods, Fail, OnWorkflowSubmitted, OnWorkflowApproved,
       ReadOrderForExit, RevertOrder, ClaimForResubmission, Revalidate, WriteOrder,
       BeginCreate, BeginSubmit, BeginRecovery, BeginCancel, BeginResubmit, BeginDecision,
       BeginOrderWrite
  <2>8. CASE UNCHANGED <<status, step>>
    BY <2>8 DEF verdict
  <2>9. QED
    BY <2>1, <2>2, <2>3, <2>4, <2>5, <2>6, <2>7, <2>8
<1>3. QED
  BY <1>1, <1>2, Invariance, PTL DEF Spec, ImplementsLifecycle, Lifecycle!Spec

=============================================================================
