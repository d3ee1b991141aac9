----------------------------- MODULE MCReadModels -----------------------------
(* An instance of ReadModels for TLC: two applications, one of which has run  *)
(* through most of its life before the daemon starts.                         *)
EXTENDS ReadModels

CONSTANTS l1, l2, k1, k2

TwoApps == {l1, l2}
TwoRules == {k1, k2}
TwoTiers == {"", "HIGH"}

Credit(a, tier) ==
  [app |-> a, stream |-> "loan", type |-> "CreditAnalysisCompleted", tier |-> tier]
LoanEvent(a, type) == [app |-> a, stream |-> "loan", type |-> type]
Reviewed(a, final) ==
  [app |-> a, stream |-> "loan", type |-> "HumanReviewCompleted", final |-> final]
ComplianceEvent(a, type) == [app |-> a, stream |-> "compliance", type |-> type]
Requested(a, rules) ==
  [app |-> a, stream |-> "compliance", type |-> "ComplianceCheckRequested", required |-> rules]
Passing(a, rule) ==
  [app |-> a, stream |-> "compliance", type |-> "ComplianceRulePassed", rule |-> rule]
Completed(a, blocked) ==
  [app |-> a, stream |-> "compliance", type |-> "ComplianceCheckCompleted", blocked |-> blocked]

LoanTypes == {"ApplicationSubmitted", "CreditAnalysisRequested", "FraudScreeningCompleted",
              "ComplianceReviewStarted", "DecisionGenerated", "HumanReviewRequested",
              "ApplicationApproved"}

SmallCatalogue ==
  {LoanEvent(l1, type) : type \in LoanTypes}
    \cup {Credit(l1, tier) : tier \in TwoTiers}
    \cup {Reviewed(l1, final) : final \in {"APPROVE", "REFER"}}
    \cup {Requested(l1, {k1}), Requested(l1, {k2}), Passing(l1, k1), Passing(l2, k1)}
    \cup {ComplianceEvent(l1, "ComplianceRuleFailed"), Completed(l1, TRUE), Completed(l1, FALSE)}
    \cup {LoanEvent(l2, "ApplicationSubmitted")}

(* The rows of l1 and l2 are locked in opposite orders. *)
CrossedLog == <<LoanEvent(l1, "ApplicationSubmitted"), Requested(l2, {k1}),
                Requested(l1, {k1}), LoanEvent(l2, "ApplicationSubmitted")>>

AnalysedLog == <<LoanEvent(l1, "ApplicationSubmitted"), LoanEvent(l1, "CreditAnalysisRequested"),
                 Requested(l1, {k1}), Credit(l1, "HIGH")>>

(* The analyst reports no risk tier; the aggregate takes it all the same. *)
TierlessLog == <<LoanEvent(l1, "ApplicationSubmitted"), LoanEvent(l1, "CreditAnalysisRequested"),
                 LoanEvent(l1, "FraudScreeningCompleted"), Credit(l1, "")>>

DecidedLog == AnalysedLog \o
  <<LoanEvent(l1, "FraudScreeningCompleted"), LoanEvent(l1, "ComplianceReviewStarted"),
    LoanEvent(l1, "DecisionGenerated")>>

FourLogs == {CrossedLog, AnalysedLog, TierlessLog, DecidedLog}
=============================================================================
