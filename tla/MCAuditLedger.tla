---------------------------- MODULE MCAuditLedger ----------------------------
(* Instances of AuditLedger for TLC. *)
EXTENDS AuditLedger, TLC

CONSTANTS c1, c2, loan, agent, x

TwoCheckers == {c1, c2}
OneChecker == {c1}
Symmetry == Permutations(TwoCheckers)

Sort(stream, related, correlation) ==
  [stream |-> stream, related |-> related, correlation |-> correlation]

(* A loan event, an analysis on an agent session, the session's anchor.      *)
LoanEvent == Sort(loan, TRUE, x)
AnalysisEvent == Sort(agent, TRUE, None)
AnchorEvent == Sort(agent, FALSE, None)
CorrelatedEvent == Sort(agent, FALSE, x)

AllSorts == {LoanEvent, AnalysisEvent, AnchorEvent, CorrelatedEvent}
PlainSorts == {LoanEvent, AnalysisEvent, AnchorEvent}
BothKinds == {"ledger", "tool"}
LedgerOnly == {"ledger"}
=============================================================================
