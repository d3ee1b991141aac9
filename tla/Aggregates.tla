------------------------------- MODULE Aggregates -------------------------------
(***************************************************************************)
(* The aggregates of src/aggregates, as functions of the events of their   *)
(* stream: the code replays the stream on every load.  The command         *)
(* handlers decide on them; the read models, the what-if replay and the    *)
(* regulatory package are compared with them.                              *)
(***************************************************************************)
EXTENDS StreamVersion, FiniteSets, SequencesExt

CONSTANT None   \* no session, no model version

States == {"NONE", "SUBMITTED", "AWAITING_ANALYSIS", "ANALYSIS_COMPLETE", "COMPLIANCE_REVIEW",
           "PENDING_DECISION", "DECIDED_PENDING_HUMAN", "FINAL_VERDICT"}

NewLoan == [ok |-> TRUE, version |-> 0, state |-> "NONE",
            fraud |-> FALSE, credit |-> FALSE, human |-> "NONE"]

LoanEvents == {"ApplicationSubmitted", "CreditAnalysisRequested", "FraudScreeningCompleted",
               "CreditAnalysisCompleted", "ComplianceReviewStarted", "DecisionGenerated",
               "HumanReviewRequested", "HumanReviewCompleted", "ApplicationApproved"}

(* The states in which LoanApplicationAggregate accepts an event. *)
Accepts(type) ==
  CASE type = "ApplicationSubmitted" -> {"NONE"}
    [] type = "CreditAnalysisRequested" -> {"SUBMITTED"}
    [] type \in {"FraudScreeningCompleted", "CreditAnalysisCompleted"} -> {"AWAITING_ANALYSIS"}
    [] type = "ComplianceReviewStarted" -> {"ANALYSIS_COMPLETE"}
    [] type = "DecisionGenerated" -> {"COMPLIANCE_REVIEW"}
    [] type \in {"HumanReviewRequested", "HumanReviewCompleted"} -> {"PENDING_DECISION"}
    [] type = "ApplicationApproved" -> {"DECIDED_PENDING_HUMAN"}

(* AWAITING_ANALYSIS ends when both analyses are there, in either order. *)
AnalysisState(loan) ==
  IF loan.fraud /\ loan.credit THEN "ANALYSIS_COMPLETE" ELSE "AWAITING_ANALYSIS"

(* The effect of an accepted event. *)
Accepted(loan, event) ==
  CASE event.type = "ApplicationSubmitted" -> [loan EXCEPT !.state = "SUBMITTED"]
    [] event.type = "CreditAnalysisRequested" -> [loan EXCEPT !.state = "AWAITING_ANALYSIS"]
    [] event.type = "FraudScreeningCompleted" ->
         [loan EXCEPT !.fraud = TRUE, !.state = AnalysisState([loan EXCEPT !.fraud = TRUE])]
    [] event.type = "CreditAnalysisCompleted" ->
         [loan EXCEPT !.credit = TRUE, !.state = AnalysisState([loan EXCEPT !.credit = TRUE])]
    [] event.type = "ComplianceReviewStarted" -> [loan EXCEPT !.state = "COMPLIANCE_REVIEW"]
    [] event.type = "DecisionGenerated" -> [loan EXCEPT !.state = "PENDING_DECISION"]
    [] event.type = "HumanReviewRequested" -> loan
    [] event.type = "HumanReviewCompleted" ->
         IF event.final \in {"APPROVE", "DECLINE"}
         THEN [loan EXCEPT !.state = "DECIDED_PENDING_HUMAN", !.human = event.final]
         ELSE [loan EXCEPT !.human = "NONE"]
    [] event.type = "ApplicationApproved" -> [loan EXCEPT !.state = "FINAL_VERDICT"]

(* _apply: an event the state machine refuses raises DomainError, and every  *)
(* load of the stream raises from then on (ok is FALSE).                     *)
ApplyToLoan(loan, event) ==
  IF /\ loan.ok
     /\ loan.state \in Accepts(event.type)
     /\ event.type = "ApplicationApproved" => loan.human = "APPROVE"
  THEN [Accepted(loan, event) EXCEPT !.version = loan.version + 1]
  ELSE [loan EXCEPT !.ok = FALSE]

LoanOf(events) == FoldLeft(ApplyToLoan, NewLoan, events)

OfType(events, type) == {i \in DOMAIN events : events[i].type = type}

(* AgentSessionAggregate: ok is FALSE when the first event is not the Gas    *)
(* Town anchor; the last anchor replayed gives the model version.            *)
AgentOf(events) ==
  LET anchors == OfType(events, "AgentContextLoaded")
  IN [ok |-> events = <<>> \/ 1 \in anchors,
      version |-> Len(events),
      context |-> anchors # {},
      model |-> IF anchors = {} THEN None
                ELSE events[CHOOSE i \in anchors : \A j \in anchors : j <= i].model]

(* ComplianceRecordAggregate: a request replaces the required checks, passes *)
(* accumulate.                                                               *)
Required(events) ==
  LET requests == OfType(events, "ComplianceCheckRequested")
  IN IF requests = {} THEN {}
     ELSE events[CHOOSE i \in requests : \A j \in requests : j <= i].required

Passed(events) == {events[i].rule : i \in OfType(events, "ComplianceRulePassed")}

AllMandatoryChecksPassed(events) ==
  Required(events) # {} /\ Required(events) \subseteq Passed(events)
=============================================================================
