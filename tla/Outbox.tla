-------------------------------- MODULE Outbox --------------------------------
(***************************************************************************)
(* What the delivery of e-mails promises of one message each, with no      *)
(* sweeps, no leases and no clock: at-least-once delivery on licence.  A   *)
(* message starts with one licence to be handed to the provider and gets   *)
(* another only while it is not recorded as sent; it is handed over at     *)
(* most once per licence; it is recorded as sent only after the provider   *)
(* took it, and that is final.                                             *)
(***************************************************************************)
EXTENDS Naturals

CONSTANT Deliveries

VARIABLES licence, accepted, outcome

Init ==
  /\ licence = [d \in Deliveries |-> 1]
  /\ accepted = [d \in Deliveries |-> 0]
  /\ outcome = [d \in Deliveries |-> "OPEN"]

Accept(d) ==
  /\ accepted[d] < licence[d]
  /\ accepted' = [accepted EXCEPT ![d] = @ + 1]
  /\ UNCHANGED <<licence, outcome>>

\* A second try: an administrator's, or a sweep's that takes the first for dead.
Extend(d) ==
  /\ outcome[d] # "SENT"
  /\ licence' = [licence EXCEPT ![d] = @ + 1]
  /\ outcome' = [outcome EXCEPT ![d] = "OPEN"]
  /\ UNCHANGED accepted

Settle(d) ==
  /\ outcome[d] = "OPEN"
  /\ \E to \in {"SENT", "FAILED"} :
       /\ to = "SENT" => accepted[d] > 0
       /\ outcome' = [outcome EXCEPT ![d] = to]
  /\ UNCHANGED <<licence, accepted>>

Next == \E d \in Deliveries : Accept(d) \/ Extend(d) \/ Settle(d)

Spec == Init /\ [][Next]_<<licence, accepted, outcome>>
=============================================================================
