---------------------------- MODULE MCLoanCommands ----------------------------
(* Instances of LoanCommands for TLC: small sets of commands, and *)
(* stores that earlier commands left, built as the handlers append.          *)
EXTENDS CausalChain

CONSTANTS c1, c2, a1, a2, m1, m2, k1, k2

OneClient == {c1}
TwoClients == {c1, c2}
Symmetry == Permutations(TwoClients)
OneSession == {a1}
TwoSessions == {a1, a2}

(* Commands *)

Submission == [kind |-> "submit"]
Start(s, m) == [kind |-> "start", session |-> s, model |-> m]
CreditBy(s, m) == [kind |-> "credit", session |-> s, model |-> m]
Fraud(s) == [kind |-> "fraud", mirror |-> s]
Check(required, passes) == [kind |-> "compliance", required |-> required, passes |-> passes]
Decide(sessions) == [kind |-> "decision", sessions |-> sessions]
AskReview == [kind |-> "request_review"]
Review(final, override, emit) ==
  [kind |-> "review", final |-> final, override |-> override, emit |-> emit]

(* The whole life of an application. *)
LifecycleCommands ==
  {Submission, Start(a1, m1), CreditBy(a1, m1), CreditBy(a2, m1), Fraud(a1), Fraud(None),
   Check({k1}, <<k1>>), Decide({a1}), AskReview,
   Review("APPROVE", FALSE, TRUE), Review("DECLINE", TRUE, FALSE), Review("REFER", FALSE, FALSE)}

(* What two callers may do at once while the application awaits analysis. *)
AnalysisCommands ==
  {Start(s, m) : s \in {a1, a2}, m \in {m1}}
    \cup {CreditBy(a1, m1), CreditBy(a1, m2), CreditBy(a2, m1)}
    \cup {Fraud(None), Fraud(a1)}

(* And while it awaits its decision. *)
VerdictCommands ==
  {Decide({a1}), Decide({a1, a2}), Review("APPROVE", FALSE, TRUE), AskReview,
   Check({k1, k2}, <<k1>>), Check({k2}, <<k2>>), Check({k1}, <<>>)}

DecisionCommands == {Decide({a1})}
OneCredit == {CreditBy(a1, m1)}
RaceCommands == AnalysisCommands \cup VerdictCommands

ApprovalCommands == {Review("APPROVE", FALSE, TRUE), Check({k2}, <<>>)}

(* Stores *)

At(type, n, cause) == [type |-> type, gp |-> n, cause |-> cause]
AnchorAt(m, n) == [type |-> "AgentContextLoaded", gp |-> n, cause |-> 0, model |-> m]
CreditAt(s, m, n, cause) ==
  [type |-> "CreditAnalysisCompleted", gp |-> n, cause |-> cause, session |-> s, model |-> m]
DecisionAt(n, cause) ==
  [type |-> "DecisionGenerated", gp |-> n, cause |-> cause, sessions |-> {a1}]

Store(loan, fraud, compliance, session) ==
  [s \in StreamIds |-> CASE s = "loan" -> loan
                         [] s = "fraud" -> fraud
                         [] s = "compliance" -> compliance
                         [] s = a1 -> session
                         [] OTHER -> <<>>]

EmptyStore == Store(<<>>, <<>>, <<>>, <<>>)

Submitted == <<At("ApplicationSubmitted", 1, 0), At("CreditAnalysisRequested", 2, 1)>>

(* submit *)
SubmittedStore == Store(Submitted, <<>>, <<>>, <<>>)

(* submit, start a1 *)
StartedStore == Store(Submitted, <<>>, <<>>, <<AnchorAt(m1, 3)>>)

(* submit, start a1, credit by a1, fraud *)
ReviewedLoan ==
  Submitted \o <<CreditAt(a1, m1, 5, 4), At("FraudScreeningCompleted", 6, 0),
                 At("ComplianceReviewStarted", 8, 6)>>
ReviewedStore ==
  Store(ReviewedLoan, <<At("FraudScreeningCompleted", 7, 6)>>, <<>>,
        <<AnchorAt(m1, 3), CreditAt(a1, m1, 4, 3)>>)

(* the same, a compliance check that passes, a decision *)
PassedChecks ==
  <<[type |-> "ComplianceCheckRequested", gp |-> 9, cause |-> 0, required |-> {k1}],
    [type |-> "ComplianceRulePassed", gp |-> 10, cause |-> 0, rule |-> k1]>>
DecidedStore ==
  Store(Append(ReviewedLoan, DecisionAt(11, 8)), <<At("FraudScreeningCompleted", 7, 6)>>, PassedChecks,
        <<AnchorAt(m1, 3), CreditAt(a1, m1, 4, 3)>>)

EmptyStores == {EmptyStore}
StartedStores == {StartedStore}
ReviewedStores == {ReviewedStore}
DecidedStores == {DecidedStore}
RaceStores == {SubmittedStore, ReviewedStore}
=============================================================================
