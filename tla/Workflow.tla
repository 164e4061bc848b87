------------------------------ MODULE Workflow ------------------------------
(***************************************************************************)
(* The approval engine (apps/api/src/workflow) together with the one       *)
(* subject it governs in full, the purchase order: workflow instances,     *)
(* their snapshotted steps, decisions and durable events, and the status   *)
(* column of the order that the subject handler and the procurement and    *)
(* inventory services also write.                                          *)
(*                                                                         *)
(* Every HTTP request is a call: it reads, then commits a chain of short   *)
(* database transactions, awaiting between them.  One action below is one  *)
(* such transaction (with the unlocked reads made just before it), so      *)
(* calls interleave between any two of them, and Fail abandons a call      *)
(* between two of them: a crash of the process or an error of the database *)
(* leaves what was committed.                                              *)
(***************************************************************************)
EXTENDS Naturals

CONSTANTS
  Instances,  \* ids of WorkflowInstance rows
  Orders,     \* purchase orders, the subjects
  Users,      \* users who may be approvers
  Calls,      \* slots for requests in flight
  Sequences,  \* the sequence numbers of the definition's steps
  Eligible,   \* Eligible[s]: the users checkStepEligibility accepts for step s
  DueDates,   \* whether a create request gives a dueAt: a set of Booleans
  Exits,      \* unfavourable decisions users take
  OrderEdits, \* statuses the purchase order service is asked to write
  Receipts,   \* statuses a goods receipt may give the order
  None

ASSUME SequencesAssumption ==
  /\ Sequences \subseteq Nat
  /\ \E s \in Sequences : \A r \in Sequences : s <= r

ASSUME InputsAssumption ==
  /\ DueDates \subseteq BOOLEAN
  /\ Exits \subseteq {"REJECTED", "RETURNED"}
  /\ OrderEdits \subseteq {"DRAFT", "PENDING", "CANCELLED"}
  /\ Receipts \subseteq {"PARTIALLY_RECEIVED", "RECEIVED"}

ASSUME NoneAssumption == None \notin Instances \cup Orders \cup Users

\* A definition whose sequence numbers have no gap.
Contiguous == \A r, s \in Sequences : \A n \in r .. s : n \in Sequences

VARIABLES
  active,      \* the WorkflowDefinition is ACTIVE
  status,      \* status[i] of the WorkflowInstance row, "NONE" before its insert
  subject,     \* subject[i], the purchase order it is about
  previous,    \* previous[i], the RETURNED instance it resubmits
  hasDue,      \* hasDue[i]: dueAt was given
  claimed,     \* claimed[i]: resubmittedAt is set
  step,        \* step[i][s], status of the WorkflowStepInstance row
  decisions,   \* WorkflowDecision rows
  events,      \* WorkflowEvent rows, unique by idempotency key
  poStatus,    \* PurchaseOrder.status
  approvedBy,  \* PurchaseOrder.approvedById
  call         \* call[c]: where the request in slot c stands

definitionVars == <<active>>
headerVars     == <<subject, previous, hasDue>>
rowVars        == <<step, decisions>>
orderVars      == <<poStatus, approvedBy>>
vars == <<active, status, subject, previous, hasDue, claimed, step, decisions,
          events, poStatus, approvedBy, call>>

NonTerminal == {"DRAFT", "SUBMITTED", "IN_PROGRESS"}
Statuses == NonTerminal \cup
  {"NONE", "APPROVED", "REJECTED", "RETURNED", "CANCELLED", "EXPIRED"}
Outcomes == {"APPROVED", "REJECTED", "RETURNED"}
StepStatuses == {"PENDING", "ACTIVE"} \cup Outcomes
OrderStatuses == {"DRAFT", "PENDING", "APPROVED", "PARTIALLY_RECEIVED",
                  "RECEIVED", "CANCELLED"}
EventTypes == {"SUBMITTED", "RESUBMITTED", "APPROVAL_REQUIRED", "STEP_APPROVED",
               "APPROVED", "REJECTED", "RETURNED", "CANCELLED", "EXPIRED"}
Positions == {"idle", "insert", "onSubmitted", "submit", "activate", "decide",
              "onApproved", "setStatus", "exitRead", "exitWrite", "cancelDraft",
              "cancel", "claim", "revalidate", "onResubmitted", "insertResubmitted",
              "orderWrite"}

FirstStep == CHOOSE s \in Sequences : \A r \in Sequences : s <= r
IsLast(s) == \A r \in Sequences : r <= s
AllApproved(i) == \A s \in Sequences : step[i][s] = "APPROVED"
ActiveSteps(i) == {s \in Sequences : step[i][s] = "ACTIVE"}

-----------------------------------------------------------------------------
(* A call in flight: its position and the values it carries.               *)

CallRecords ==
  [at : Positions, inst : Instances \cup {None}, order : Orders \cup {None},
   step : Sequences, user : Users \cup {None},
   out : Outcomes \cup OrderStatuses \cup {"NONE"}]

Request(position, i, o, s, u, outcome) ==
  [at |-> position, inst |-> i, order |-> o, step |-> s, user |-> u, out |-> outcome]

Idle == Request("idle", None, None, FirstStep, None, "NONE")
OnInstance(position, i) == Request(position, i, None, FirstStep, None, "NONE")

Goto(c, new) == call' = [call EXCEPT ![c] = new]
Return(c) == Goto(c, Idle)
At(c, position) == call[c].at = position
MoveTo(c, position) == Goto(c, [call[c] EXCEPT !.at = position])
Begin(c, position, i) == Goto(c, OnInstance(position, i))

(***************************************************************************)
(* Operators named ...Bug are faulty variants of the definition they stand *)
(* in front of.  No specification uses them: they are what a plausible     *)
(* mistake in the code would make of it, and each breaks a property below. *)
(***************************************************************************)

\* recordWorkflowEventInTx: a row with the same idempotency key is a no-op.
InstanceEvent(type, i) == [type |-> type, inst |-> i, step |-> None]
StepEventKeyedByInstanceBug(type, i, s) ==
  [type |-> type, inst |-> i, step |-> FirstStep]
StepEvent(type, i, s) == [type |-> type, inst |-> i, step |-> s]
Record(e) == events' = events \cup {e}

-----------------------------------------------------------------------------
TypeOK ==
  /\ active \in BOOLEAN
  /\ status \in [Instances -> Statuses]
  /\ subject \in [Instances -> Orders \cup {None}]
  /\ previous \in [Instances -> Instances \cup {None}]
  /\ hasDue \in [Instances -> BOOLEAN]
  /\ claimed \in [Instances -> BOOLEAN]
  /\ step \in [Instances -> [Sequences -> StepStatuses]]
  /\ decisions \subseteq [inst : Instances, step : Sequences, user : Users,
                          decision : Outcomes]
  /\ events \subseteq [type : EventTypes, inst : Instances,
                       step : Sequences \cup {None}]
  /\ poStatus \in [Orders -> OrderStatuses]
  /\ approvedBy \in [Orders -> Users \cup {None}]
  /\ call \in [Calls -> CallRecords]

Init ==
  /\ active = TRUE
  /\ status = [i \in Instances |-> "NONE"]
  /\ subject = [i \in Instances |-> None]
  /\ previous = [i \in Instances |-> None]
  /\ hasDue = [i \in Instances |-> FALSE]
  /\ claimed = [i \in Instances |-> FALSE]
  /\ step = [i \in Instances |-> [s \in Sequences |-> "PENDING"]]
  /\ decisions = {}
  /\ events = {}
  /\ poStatus = [o \in Orders |-> "DRAFT"]
  /\ approvedBy = [o \in Orders |-> None]
  /\ call = [c \in Calls |-> Idle]

-----------------------------------------------------------------------------
(* WorkflowDefinitionService.activate / deactivate.                        *)

Activate ==
  /\ active' = TRUE
  /\ UNCHANGED <<status, headerVars, claimed, rowVars, events, orderVars, call>>

Deactivate ==
  /\ active' = FALSE
  /\ UNCHANGED <<status, headerVars, claimed, rowVars, events, orderVars, call>>

-----------------------------------------------------------------------------
(* Repository transactions shared by several requests.                     *)

HasActiveInstanceIgnoringDraftsBug(o) ==
  \E i \in Instances : subject[i] = o /\ status[i] \in NonTerminal \ {"DRAFT"}
HasActiveInstance(o) ==
  \E i \in Instances : subject[i] = o /\ status[i] \in NonTerminal

\* createWithSteps: the partial unique index refuses a second active instance.
InsertInstance(i, o, st, prev, due) ==
  /\ status[i] = "NONE"
  /\ status' = [status EXCEPT ![i] = st]
  /\ subject' = [subject EXCEPT ![i] = o]
  /\ previous' = [previous EXCEPT ![i] = prev]
  /\ hasDue' = [hasDue EXCEPT ![i] = due]

\* WHERE status IN (DRAFT, SUBMITTED, IN_PROGRESS)
OpenWithoutGuardBug(i) == status[i] # "NONE"
Open(i) == status[i] \in NonTerminal

Routed(i) == IF status[i] \in {"SUBMITTED", "IN_PROGRESS"}
             THEN "IN_PROGRESS" ELSE status[i]

\* activateStep: PENDING -> ACTIVE or no-op; the instance becomes IN_PROGRESS.
ActivateStep(c) ==
  LET i == call[c].inst
      s == call[c].step
  IN /\ At(c, "activate")
     /\ IF step[i][s] = "PENDING"
        THEN /\ step' = [step EXCEPT ![i][s] = "ACTIVE"]
             /\ status' = [status EXCEPT ![i] = Routed(i)]
             /\ Record(StepEvent("APPROVAL_REQUIRED", i, s))
        ELSE UNCHANGED <<step, status, events>>
     /\ Return(c)
     /\ UNCHANGED <<active, headerVars, claimed, decisions, orderVars>>

-----------------------------------------------------------------------------
(* POST /workflows/instances                                               *)

BeginCreate(c, o) ==
  /\ At(c, "idle")
  /\ \E i \in Instances : status[i] = "NONE"  \* bound: the pool of ids
  /\ active
  /\ poStatus[o] = "DRAFT"
  /\ ~HasActiveInstance(o)
  /\ Goto(c, Request("insert", None, o, FirstStep, None, "NONE"))
  /\ UNCHANGED <<active, status, headerVars, claimed, rowVars, events, orderVars>>

Insert(c) ==
  LET o == call[c].order
  IN /\ At(c, "insert")
     /\ \/ /\ ~HasActiveInstance(o)
           /\ \E i \in Instances, due \in DueDates :
                InsertInstance(i, o, "DRAFT", None, due)
        \/ /\ HasActiveInstance(o)
           /\ UNCHANGED <<status, headerVars>>
     /\ Return(c)
     /\ UNCHANGED <<active, claimed, rowVars, events, orderVars>>

-----------------------------------------------------------------------------
(* POST /workflows/instances/:id/submit                                    *)

BeginSubmit(c, i) ==
  /\ At(c, "idle")
  /\ status[i] = "DRAFT"
  /\ Begin(c, "onSubmitted", i)
  /\ UNCHANGED <<active, status, headerVars, claimed, rowVars, events, orderVars>>

\* PurchaseOrderWorkflowHandler.onWorkflowSubmitted, whatever the order's status.
OnWorkflowSubmitted(c, from, to) ==
  /\ At(c, from)
  /\ poStatus' = [poStatus EXCEPT ![subject[call[c].inst]] = "PENDING"]
  /\ MoveTo(c, to)
  /\ UNCHANGED <<active, status, headerVars, claimed, rowVars, events, approvedBy>>

Submit(c) ==
  LET i == call[c].inst
  IN /\ At(c, "submit")
     /\ IF status[i] = "DRAFT"
        THEN /\ status' = [status EXCEPT ![i] = "SUBMITTED"]
             /\ Record(InstanceEvent("SUBMITTED", i))
             /\ Goto(c, OnInstance("activate", i))
        ELSE Return(c) /\ UNCHANGED <<status, events>>
     /\ UNCHANGED <<active, headerVars, claimed, rowVars, orderVars>>

-----------------------------------------------------------------------------
(* POST /workflows/instances/:id/approve, .../reject and .../return.  None *)
(* of them looks at the status of the instance once a step is ACTIVE.      *)

BeginDecision(c, i, u, outcome) ==
  /\ At(c, "idle")
  /\ \E s \in ActiveSteps(i) :
       /\ u \in Eligible[s]
       /\ Goto(c, Request("decide", i, None, s, u, outcome))
  /\ UNCHANGED <<active, status, headerVars, claimed, rowVars, events, orderVars>>

\* Mutant: anyone is taken for the approver.
FinalApproversAnyoneBug(i) == Users
FinalApprovers(i) ==
  {d.user : d \in {e \in decisions : /\ e.inst = i /\ IsLast(e.step)
                                     /\ e.decision = "APPROVED"}}

\* The recovery path of approve: every step APPROVED, instance IN_PROGRESS.
BeginRecovery(c, i) ==
  /\ At(c, "idle")
  /\ status[i] = "IN_PROGRESS" /\ AllApproved(i)
  /\ \E u \in FinalApprovers(i) :
       Goto(c, Request("onApproved", i, None, FirstStep, u, "APPROVED"))
  /\ UNCHANGED <<active, status, headerVars, claimed, rowVars, events, orderVars>>

\* Mutants: the next step is activated after any outcome; the status is set before the
\* domain callback; the last approval is not finalised.
AfterDecisionAnyOutcomeBug(c) ==
  IF call[c].step + 1 \in Sequences
  THEN Goto(c, [call[c] EXCEPT !.at = "activate", !.step = @ + 1])
  ELSE MoveTo(c, IF call[c].out = "APPROVED" THEN "onApproved" ELSE "setStatus")
AfterDecisionStatusFirstBug(c) ==
  IF call[c].out = "APPROVED" /\ call[c].step + 1 \in Sequences
  THEN Goto(c, [call[c] EXCEPT !.at = "activate", !.step = @ + 1])
  ELSE MoveTo(c, "setStatus")
AfterDecisionNotFinalisedBug(c) ==
  IF call[c].out # "APPROVED" THEN MoveTo(c, "setStatus")
  ELSE IF call[c].step + 1 \in Sequences
  THEN Goto(c, [call[c] EXCEPT !.at = "activate", !.step = @ + 1])
  ELSE Return(c)

\* approve looks for the step with the next sequence number; the last approval,
\* like a rejection or a return, settles the instance.
AfterDecision(c) ==
  LET s == call[c].step
  IN IF call[c].out # "APPROVED" THEN MoveTo(c, "setStatus")
     ELSE IF s + 1 \in Sequences
     THEN Goto(c, [call[c] EXCEPT !.at = "activate", !.step = s + 1])
     ELSE MoveTo(c, "onApproved")

Decidable(i, s) == step[i][s] = "ACTIVE"

DecideStep(c) ==
  LET i == call[c].inst
      s == call[c].step
      outcome == call[c].out
  IN /\ At(c, "decide")
     /\ IF Decidable(i, s)
        THEN /\ step' = [step EXCEPT ![i][s] = outcome]
             /\ decisions' = decisions \cup
                  {[inst |-> i, step |-> s, user |-> call[c].user, decision |-> outcome]}
             /\ Record(StepEvent(IF outcome = "APPROVED" THEN "STEP_APPROVED"
                                 ELSE outcome, i, s))
             /\ AfterDecision(c)
        ELSE Return(c) /\ UNCHANGED <<rowVars, events>>
     /\ UNCHANGED <<active, status, headerVars, claimed, orderVars>>

\* PurchaseOrderWorkflowHandler.onWorkflowApproved, whatever the order's status.
OnWorkflowApproved(c) ==
  LET o == subject[call[c].inst]
  IN /\ At(c, "onApproved")
     /\ poStatus' = [poStatus EXCEPT ![o] = "APPROVED"]
     /\ approvedBy' = [approvedBy EXCEPT ![o] = call[c].user]
     /\ MoveTo(c, "setStatus")
     /\ UNCHANGED <<active, status, headerVars, claimed, rowVars, events>>

\* setInstanceStatus with the outcome of the decision; a lost race is ignored.
\* Only the approval carries an event, the exits logged theirs with the step.
SetInstanceStatus(c) ==
  LET i == call[c].inst
      outcome == call[c].out
  IN /\ At(c, "setStatus")
     /\ IF Open(i)
        THEN /\ status' = [status EXCEPT ![i] = outcome]
             /\ IF outcome = "APPROVED" THEN Record(InstanceEvent("APPROVED", i))
                ELSE UNCHANGED events
        ELSE UNCHANGED <<status, events>>
     /\ IF outcome = "APPROVED" THEN Return(c) ELSE MoveTo(c, "exitRead")
     /\ UNCHANGED <<active, headerVars, claimed, rowVars, orderVars>>

\* onWorkflowExited reads the order, then writes it in another transaction.
ReadOrderForExit(c) ==
  /\ At(c, "exitRead")
  /\ IF poStatus[subject[call[c].inst]] = "PENDING"
     THEN MoveTo(c, "exitWrite") ELSE Return(c)
  /\ UNCHANGED <<active, status, headerVars, claimed, rowVars, events, orderVars>>

RevertOrder(c) ==
  /\ At(c, "exitWrite")
  /\ poStatus' = [poStatus EXCEPT ![subject[call[c].inst]] = "DRAFT"]
  /\ Return(c)
  /\ UNCHANGED <<active, status, headerVars, claimed, rowVars, events, approvedBy>>

-----------------------------------------------------------------------------
(* POST /workflows/instances/:id/cancel and .../expire                     *)

BeginCancel(c, i) ==
  /\ At(c, "idle")
  /\ Open(i)
  /\ Begin(c, IF status[i] = "DRAFT" THEN "cancelDraft" ELSE "cancel", i)
  /\ UNCHANGED <<active, status, headerVars, claimed, rowVars, events, orderVars>>

\* The subject is reverted unless the status READ before the update was DRAFT.
Cancel(c) ==
  LET i == call[c].inst
  IN /\ At(c, "cancelDraft") \/ At(c, "cancel")
     /\ IF Open(i)
        THEN /\ status' = [status EXCEPT ![i] = "CANCELLED"]
             /\ Record(InstanceEvent("CANCELLED", i))
             /\ IF At(c, "cancel") THEN MoveTo(c, "exitRead") ELSE Return(c)
        ELSE Return(c) /\ UNCHANGED <<status, events>>
     /\ UNCHANGED <<active, headerVars, claimed, rowVars, orderVars>>

\* One guarded update, possible at any time after a dueAt; no handler is called.
Expire(i) ==
  /\ Open(i)
  /\ hasDue[i]
  /\ status' = [status EXCEPT ![i] = "EXPIRED"]
  /\ Record(InstanceEvent("EXPIRED", i))
  /\ UNCHANGED <<active, headerVars, claimed, rowVars, orderVars, call>>

-----------------------------------------------------------------------------
(* POST /workflows/instances/:id/resubmit                                  *)

BeginResubmit(c, i) ==
  /\ At(c, "idle")
  /\ status[i] = "RETURNED"
  /\ Begin(c, "claim", i)
  /\ UNCHANGED <<active, status, headerVars, claimed, rowVars, events, orderVars>>

ClaimableAgainBug(i) == TRUE
Claimable(i) == ~claimed[i]

ClaimForResubmission(c) ==
  LET i == call[c].inst
  IN /\ At(c, "claim")
     /\ claimed' = [claimed EXCEPT ![i] = TRUE]
     /\ IF Claimable(i) THEN MoveTo(c, "revalidate") ELSE Return(c)
     /\ UNCHANGED <<active, status, headerVars, rowVars, events, orderVars>>

\* A refusal here leaves the claim consumed.
Revalidate(c) ==
  /\ At(c, "revalidate")
  /\ IF active /\ poStatus[subject[call[c].inst]] = "DRAFT"
     THEN MoveTo(c, "onResubmitted") ELSE Return(c)
  /\ UNCHANGED <<active, status, headerVars, claimed, rowVars, events, orderVars>>

InsertResubmitted(c) ==
  LET i == call[c].inst
      o == subject[i]
  IN /\ At(c, "insertResubmitted")
     /\ \/ /\ ~HasActiveInstance(o)
           /\ \E j \in Instances :
                /\ InsertInstance(j, o, "SUBMITTED", i, FALSE)
                /\ Record(InstanceEvent("RESUBMITTED", j))
                /\ Goto(c, OnInstance("activate", j))
        \/ /\ HasActiveInstance(o)
           /\ Return(c)
           /\ UNCHANGED <<status, headerVars, events>>
     /\ UNCHANGED <<active, claimed, rowVars, orderVars>>

-----------------------------------------------------------------------------
(* The other writers of PurchaseOrder.status: the purchase order service   *)
(* (PATCH with DRAFT or PENDING, cancel), which checks a status it read    *)
(* and then writes without a guard, and goods receipt, whose update is     *)
(* guarded.                                                                *)

BeginOrderWrite(c, o, to) ==
  /\ At(c, "idle")
  /\ poStatus[o] \notin {"CANCELLED", "PARTIALLY_RECEIVED", "RECEIVED"}
  /\ Goto(c, Request("orderWrite", None, o, FirstStep, None, to))
  /\ UNCHANGED <<active, status, headerVars, claimed, rowVars, events, orderVars>>

WriteOrder(c) ==
  /\ At(c, "orderWrite")
  /\ poStatus' = [poStatus EXCEPT ![call[c].order] = call[c].out]
  /\ Return(c)
  /\ UNCHANGED <<active, status, headerVars, claimed, rowVars, events, approvedBy>>

ReceiveGoods(o, to) ==
  /\ poStatus[o] \notin {"DRAFT", "CANCELLED"}
  /\ poStatus' = [poStatus EXCEPT ![o] = to]
  /\ UNCHANGED <<active, status, headerVars, claimed, rowVars, events, approvedBy, call>>

-----------------------------------------------------------------------------
\* The next transaction of the request in slot c.
Continue(c) ==
  \/ Insert(c)
  \/ OnWorkflowSubmitted(c, "onSubmitted", "submit")
  \/ Submit(c)
  \/ ActivateStep(c)
  \/ DecideStep(c)
  \/ OnWorkflowApproved(c)
  \/ SetInstanceStatus(c)
  \/ ReadOrderForExit(c)
  \/ RevertOrder(c)
  \/ Cancel(c)
  \/ ClaimForResubmission(c)
  \/ Revalidate(c)
  \/ OnWorkflowSubmitted(c, "onResubmitted", "insertResubmitted")
  \/ InsertResubmitted(c)
  \/ WriteOrder(c)

BeginRequest(c) ==
  \/ \E o \in Orders : BeginCreate(c, o)
  \/ \E i \in Instances :
       \/ BeginSubmit(c, i)
       \/ BeginRecovery(c, i)
       \/ BeginCancel(c, i)
       \/ BeginResubmit(c, i)
       \/ \E u \in Users, outcome \in {"APPROVED"} \cup Exits :
            BeginDecision(c, i, u, outcome)
  \/ \E o \in Orders, to \in OrderEdits :
       BeginOrderWrite(c, o, to)

\* The process dies, or the database fails, before the next transaction.
Fail(c) ==
  /\ ~At(c, "idle")
  /\ Return(c)
  /\ UNCHANGED <<active, status, headerVars, claimed, rowVars, events, orderVars>>

NextWithoutFailure ==
  \/ Activate
  \/ Deactivate
  \/ \E c \in Calls : BeginRequest(c) \/ Continue(c)
  \/ \E i \in Instances : Expire(i)
  \/ \E o \in Orders, to \in Receipts : ReceiveGoods(o, to)

Next ==
  \/ NextWithoutFailure
  \/ \E c \in Calls : Fail(c)

Spec == Init /\ [][Next]_vars

(***************************************************************************)
(* A request keeps running once it began (its promise chain is never       *)
(* parked); nobody is obliged to send one.  Failures are left out: after   *)
(* one, only another request could finish the work.                        *)
(***************************************************************************)
FairSpec ==
  /\ Init
  /\ [][NextWithoutFailure]_vars
  /\ \A c \in Calls : WF_vars(Continue(c))

-----------------------------------------------------------------------------
(* Properties                                                              *)

(* create and resubmit check for a conflicting instance and insert later;  *)
(* two of them, or one of each, never leave two non-terminal instances of  *)
(* one order: at most one approval of a record is in progress.             *)
OneActivePerSubject ==
  \A i, j \in Instances :
    /\ status[i] \in NonTerminal /\ status[j] \in NonTerminal
    /\ subject[i] = subject[j]
    => i = j

(* Steps run strictly one after another, whatever requests race on them:   *)
(* a step was activated only when all before it were approved.             *)
StepsInSequence ==
  \A i \in Instances : \A r, s \in Sequences :
    r < s /\ step[i][s] # "PENDING" => step[i][r] = "APPROVED"

(* Two approvers, or an approver and a rejecter, never both decide a step: *)
(* a decided step has exactly one decision row, with its outcome, and no   *)
(* other step has any.                                                     *)
OneDecisionPerStep ==
  /\ \A d \in decisions : step[d.inst][d.step] = d.decision
  /\ \A d, e \in decisions : d.inst = e.inst /\ d.step = e.step => d = e
  /\ \A i \in Instances : \A s \in Sequences :
       step[i][s] \in Outcomes => \E d \in decisions : d.inst = i /\ d.step = s

(* The durable events say what the rows say: each transition committed its *)
(* event, and no event was written for a transition that lost its race     *)
(* (a cancel that arrives after the approval, an approval after an expiry).*)
EventsMatchState ==
  /\ \A i \in Instances :
       /\ \A type \in {"APPROVED", "CANCELLED", "EXPIRED"} :
            InstanceEvent(type, i) \in events <=> status[i] = type
       /\ status[i] \in {"SUBMITTED", "IN_PROGRESS"} \cup Outcomes =>
            InstanceEvent(IF previous[i] = None THEN "SUBMITTED"
                          ELSE "RESUBMITTED", i) \in events
       /\ \A s \in Sequences :
            /\ StepEvent("APPROVAL_REQUIRED", i, s) \in events
                 <=> step[i][s] # "PENDING"
            /\ StepEvent("STEP_APPROVED", i, s) \in events
                 <=> step[i][s] = "APPROVED"
            /\ \A type \in {"REJECTED", "RETURNED"} :
                 StepEvent(type, i, s) \in events <=> step[i][s] = type

(* finalizeApproval runs the domain callback first: an instance is never   *)
(* APPROVED before every step was approved and the order had its approver. *)
ApprovedIsEarned ==
  \A i \in Instances :
    status[i] = "APPROVED" => AllApproved(i) /\ approvedBy[subject[i]] # None

(* The approver stamped on an order approved the last step of one of its   *)
(* workflows, also when another user's request completed the approval.     *)
ApproverDecided ==
  \A o \in Orders :
    approvedBy[o] # None =>
      \E d \in decisions : /\ subject[d.inst] = o /\ IsLast(d.step)
                           /\ d.user = approvedBy[o] /\ d.decision = "APPROVED"

(* Racing resubmissions of a returned instance have one winner: it has at  *)
(* most one successor, about the same order, and its claim is kept.        *)
ResubmittedOnce ==
  \A i, j \in Instances :
    previous[i] # None =>
      /\ previous[i] = previous[j] => i = j
      /\ claimed[previous[i]] /\ subject[i] = subject[previous[i]]
      /\ status[previous[i]] = "RETURNED"

(* The engine implements the lifecycle (WorkflowLifecycle): whatever       *)
(* requests race or fail, an instance only takes the status moves it       *)
(* promises, and APPROVED only with every step approved.  A step that is   *)
(* pending or active is open.                                              *)
verdict == [i \in Instances |-> [s \in Sequences |->
              IF step[i][s] \in Outcomes THEN step[i][s] ELSE "OPEN"]]
Lifecycle == INSTANCE WorkflowLifecycle
  WITH Instances <- Instances, Sequences <- Sequences, status <- status, verdict <- verdict
ImplementsLifecycle == Lifecycle!Spec

(* A decision that settles the request (the last approval, a rejection, a  *)
(* return) is followed by a terminal status, not left IN_PROGRESS.         *)
Settled(i) ==
  AllApproved(i) \/ \E s \in Sequences : step[i][s] \in {"REJECTED", "RETURNED"}
DecidedInstancesFinish ==
  \A i \in Instances : Settled(i) ~> status[i] \notin NonTerminal

=============================================================================
