----------------------------- MODULE LoanCommands -----------------------------
(***************************************************************************)
(* The command handlers of src/commands/handlers.py for one loan           *)
(* application, run by concurrent callers over the event store.            *)
(*                                                                         *)
(* Every load_stream and every append of a handler is one step (AtomicLog, *)
(* which EventStore implements, justifies the append); between two steps   *)
(* other callers run, and a caller may crash.  Aggregates are replayed     *)
(* from the streams on every load, as the code does.  An event is known by *)
(* its global position, also where another names it as its cause; callers  *)
(* leave causation_id to the handlers.  The id of the last event is read   *)
(* in the same step as the append it is for where the expected version of  *)
(* the append makes the two agree, and in a step of its own where not.     *)
(***************************************************************************)
EXTENDS Aggregates

CONSTANTS
  Clients,          \* concurrent callers
  Sessions,         \* agent sessions: the streams agent-{agent}-{session}
  CommandSet,       \* the commands callers issue (records, see Command below)
  Disciplined,      \* do callers check the documented preconditions first?
  InitialStores,    \* what earlier commands, run one by one, may have left
  MaxCommands,      \* bound: commands issued
  MaxCrashes        \* bound: callers that crash inside a handler

VARIABLES
  streams,   \* streams[s]: the events of stream s, in stream order
  clock,     \* last global_position
  pc,        \* pc[c]: next step of caller c, or "idle"
  cmd,       \* cmd[c]: its command
  seen,      \* seen[c]: what its handler has loaded so far
  issued,    \* commands issued
  crashed    \* crashes so far

vars == <<streams, clock, pc, cmd, seen, issued, crashed>>

StreamIds == {"loan", "fraud", "compliance"} \cup Sessions

-------------------------------------------------------------------------------
Loan == LoanOf(streams["loan"])

-------------------------------------------------------------------------------
(* Steps shared by the handlers *)

(* What a handler has loaded: the loan and agent aggregates, the version of  *)
(* another stream, the last credit analysis of the session and whether a     *)
(* later override exists on the loan, the compliance passes already written, *)
(* the event that causes the next one.                                       *)
Nothing == [loan |-> NewLoan, agent |-> AgentOf(<<>>), version |-> 0,
            lastCredit |-> 0, overridden |-> FALSE, passes |-> 0, cause |-> 0]

NoCommand == [kind |-> "none"]

(* The handler returns or raises: the caller is free again. *)
Finish(c) ==
  /\ pc' = [pc EXCEPT ![c] = "idle"]
  /\ cmd' = [cmd EXCEPT ![c] = NoCommand]
  /\ seen' = [seen EXCEPT ![c] = Nothing]

Goto(c, step) == pc' = [pc EXCEPT ![c] = step] /\ UNCHANGED cmd

(* A load: remember what was read and go on, or raise. *)
Read(c, check, what, step) ==
  /\ IF check
     THEN Goto(c, step) /\ seen' = [seen EXCEPT ![c] = what]
     ELSE Finish(c)
  /\ UNCHANGED <<streams, clock, issued, crashed>>

(* LoanApplicationAggregate.load, then a check of the handler. *)
LoadLoan(c, check(_), step) ==
  Read(c, Loan.ok /\ check(Loan), [seen[c] EXCEPT !.loan = Loan], step)

Always(loan) == TRUE

(* _last_event_id *)
LastEvent(s) == IF streams[s] = <<>> THEN 0 ELSE Last(streams[s]).gp

ReadLastEvent(c, s, step) == Read(c, TRUE, [seen[c] EXCEPT !.cause = LastEvent(s)], step)

(* Mutation of AppendTo: the append draws no global position. *)
AppendToUndrawn(c, s, expected, event, step) ==
  /\ IF Matches(expected, streams[s])
     THEN /\ streams' = [streams EXCEPT ![s] = Append(@, event)]
          /\ IF step = "idle" THEN Finish(c) ELSE Goto(c, step) /\ UNCHANGED seen
     ELSE Finish(c) /\ UNCHANGED streams
  /\ UNCHANGED <<clock, issued, crashed>>

(* store.append of one event: OptimisticConcurrencyError ends the handler;   *)
(* after the append it goes on at step, or returns where step is "idle".     *)
AppendTo(c, s, expected, event, step) ==
  /\ IF Matches(expected, streams[s])
     THEN /\ streams' = [streams EXCEPT ![s] = Append(@, event)]
          /\ clock' = event.gp
          /\ IF step = "idle" THEN Finish(c) ELSE Goto(c, step) /\ UNCHANGED seen
     ELSE Finish(c) /\ UNCHANGED <<streams, clock>>
  /\ UNCHANGED <<issued, crashed>>

(* expected_version of a stream that may be new. *)
OrNew(version) == IF version = 0 THEN NewStream ELSE version

Event(type, cause) == [type |-> type, gp |-> clock + 1, cause |-> cause]

Anchor(model) ==
  [type |-> "AgentContextLoaded", gp |-> clock + 1, cause |-> 0, model |-> model]

Credit(session, model, cause) ==
  [type |-> "CreditAnalysisCompleted", gp |-> clock + 1, cause |-> cause,
   session |-> session, model |-> model]

-------------------------------------------------------------------------------
(* handle_submit_application: two appends, the first of a new stream *)

SubmitLoad(c) ==
  /\ pc[c] = "submit"
  /\ LET Empty(loan) == loan.version = 0 /\ loan.state = "NONE"
     IN LoadLoan(c, Empty, "submit_append")

SubmitAppend(c) ==
  /\ pc[c] = "submit_append"
  /\ AppendTo(c, "loan", OrNew(seen[c].loan.version), Event("ApplicationSubmitted", 0),
              "submit_reload")

SubmitReload(c) ==
  /\ pc[c] = "submit_reload"
  /\ LoadLoan(c, Always, "submit_request")

SubmitRequest(c) ==
  /\ pc[c] = "submit_request"
  /\ AppendTo(c, "loan", seen[c].loan.version,
              Event("CreditAnalysisRequested", LastEvent("loan")), "idle")

(* handle_start_agent_session *)

StartLoad(c) ==
  /\ pc[c] = "start"
  /\ LET agent == AgentOf(streams[cmd[c].session])
     IN Read(c, agent.ok /\ agent.version = 0, seen[c], "start_append")

(* Mutation of StartAppend: expected_version is not -1 but the current one. *)
StartAppendUnfenced(c) ==
  /\ pc[c] = "start_append"
  /\ AppendTo(c, cmd[c].session, OrNew(Len(streams[cmd[c].session])), Anchor(cmd[c].model), "idle")

StartAppend(c) ==
  /\ pc[c] = "start_append"
  /\ AppendTo(c, cmd[c].session, NewStream, Anchor(cmd[c].model), "idle")

(* handle_credit_analysis_completed: loan, session events, loan events and   *)
(* agent are loaded one after the other and validated together.              *)

CreditLoadLoan(c) ==
  /\ pc[c] = "credit"
  /\ LoadLoan(c, Always, "credit_load_session")

CreditLoadSession(c) ==
  LET events == streams[cmd[c].session]
      gps == {events[i].gp : i \in OfType(events, "CreditAnalysisCompleted")}
  IN /\ pc[c] = "credit_load_session"
     /\ Read(c, TRUE,
             [seen[c] EXCEPT !.lastCredit = IF gps = {} THEN 0 ELSE Max(gps)],
             "credit_load_loan_events")

CreditLoadLoanEvents(c) ==
  LET events == streams["loan"]
  IN /\ pc[c] = "credit_load_loan_events"
     /\ Read(c, TRUE,
             [seen[c] EXCEPT !.overridden =
                \E i \in OfType(events, "HumanReviewCompleted") :
                  events[i].override /\ events[i].gp > seen[c].lastCredit],
             "credit_validate")

(* Mutations of CreditValidate: CREDIT_ANALYSIS_ALREADY_COMPLETE is not      *)
(* checked; the model version is not compared with the anchor.               *)
CreditValidateTwice(c) ==
  LET agent == AgentOf(streams[cmd[c].session])
      unlocked == seen[c].lastCredit = 0 \/ seen[c].overridden
      anchored == agent.version = 0 \/ (agent.context /\ agent.model = cmd[c].model)
  IN /\ pc[c] = "credit_validate"
     /\ Read(c, agent.ok /\ seen[c].loan.state = "AWAITING_ANALYSIS" /\ unlocked /\ anchored,
             [seen[c] EXCEPT !.agent = agent],
             IF agent.version = 0 THEN "credit_anchor" ELSE "credit_append_agent")

CreditValidateAnyModel(c) ==
  LET agent == AgentOf(streams[cmd[c].session])
      ready == seen[c].loan.state = "AWAITING_ANALYSIS" /\ ~ seen[c].loan.credit
      unlocked == seen[c].lastCredit = 0 \/ seen[c].overridden
  IN /\ pc[c] = "credit_validate"
     /\ Read(c, agent.ok /\ ready /\ unlocked, [seen[c] EXCEPT !.agent = agent],
             IF agent.version = 0 THEN "credit_anchor" ELSE "credit_append_agent")

CreditValidate(c) ==
  LET agent == AgentOf(streams[cmd[c].session])
      ready == seen[c].loan.state = "AWAITING_ANALYSIS" /\ ~ seen[c].loan.credit
      unlocked == seen[c].lastCredit = 0 \/ seen[c].overridden
      anchored == agent.version = 0 \/ (agent.context /\ agent.model = cmd[c].model)
  IN /\ pc[c] = "credit_validate"
     /\ Read(c, agent.ok /\ ready /\ unlocked /\ anchored, [seen[c] EXCEPT !.agent = agent],
             IF agent.version = 0 THEN "credit_anchor" ELSE "credit_append_agent")

CreditAnchor(c) ==
  /\ pc[c] = "credit_anchor"
  /\ AppendTo(c, cmd[c].session, NewStream, Anchor(cmd[c].model), "credit_anchor_id")

CreditAnchorId(c) ==
  /\ pc[c] = "credit_anchor_id"
  /\ ReadLastEvent(c, cmd[c].session, "credit_reload_agent")

CreditReloadAgent(c) ==
  LET agent == AgentOf(streams[cmd[c].session])
  IN /\ pc[c] = "credit_reload_agent"
     /\ Read(c, agent.ok /\ agent.context /\ agent.model = cmd[c].model,
             [seen[c] EXCEPT !.agent = agent], "credit_append_agent")

(* The event that caused the analysis: the anchor, where this call appended  *)
(* it, or the last event of the session.                                     *)
CreditCause(c) == IF seen[c].cause # 0 THEN seen[c].cause ELSE LastEvent(cmd[c].session)

(* Mutation of CreditAppendAgent: a conflict is swallowed. *)
CreditAppendAgentOrNot(c) ==
  /\ pc[c] = "credit_append_agent"
  /\ IF Matches(seen[c].agent.version, streams[cmd[c].session])
     THEN AppendTo(c, cmd[c].session, seen[c].agent.version,
                   Credit(cmd[c].session, cmd[c].model, CreditCause(c)), "credit_id")
     ELSE Read(c, TRUE, seen[c], "credit_id")

CreditAppendAgent(c) ==
  /\ pc[c] = "credit_append_agent"
  /\ AppendTo(c, cmd[c].session, seen[c].agent.version,
              Credit(cmd[c].session, cmd[c].model, CreditCause(c)), "credit_id")

CreditId(c) ==
  /\ pc[c] = "credit_id"
  /\ ReadLastEvent(c, cmd[c].session, "credit_reload_loan")

(* The loan is loaded again for its version, and not validated again. *)
CreditReloadLoan(c) ==
  /\ pc[c] = "credit_reload_loan"
  /\ LoadLoan(c, Always, "credit_append_loan")

CreditAppendLoan(c) ==
  /\ pc[c] = "credit_append_loan"
  /\ AppendTo(c, "loan", seen[c].loan.version,
              Credit(cmd[c].session, cmd[c].model, seen[c].cause), "credit_check_bridge")

(* Mutation of CreditCheckBridge: the state is not looked at. *)
CreditCheckBridgeNot(c) ==
  /\ pc[c] = "credit_check_bridge"
  /\ LoadLoan(c, Always, "append_bridge")

CreditCheckBridge(c) ==
  /\ pc[c] = "credit_check_bridge"
  /\ LET Complete(loan) == loan.state = "ANALYSIS_COMPLETE"
     IN LoadLoan(c, Complete, "append_bridge")

(* Mutation of AppendBridge: the version is the current one, not the one of  *)
(* the load that found the analysis complete.                                *)
AppendBridgeUnfenced(c) ==
  /\ pc[c] = "append_bridge"
  /\ AppendTo(c, "loan", Len(streams["loan"]),
              Event("ComplianceReviewStarted", LastEvent("loan")), "idle")

(* ComplianceReviewStarted, the bridge to COMPLIANCE_REVIEW, in both handlers *)
AppendBridge(c) ==
  /\ pc[c] = "append_bridge"
  /\ AppendTo(c, "loan", seen[c].loan.version,
              Event("ComplianceReviewStarted", LastEvent("loan")), "idle")

(* handle_record_fraud_screening: loan, fraud summary, agent mirror, bridge *)

FraudLoad(c) ==
  /\ pc[c] = "fraud"
  /\ LET Awaiting(loan) == loan.state = "AWAITING_ANALYSIS"
     IN LoadLoan(c, Awaiting, "fraud_append_loan")

(* Mutation of FraudAppendLoan: a conflict is swallowed. *)
FraudAppendLoanOrNot(c) ==
  /\ pc[c] = "fraud_append_loan"
  /\ IF Matches(seen[c].loan.version, streams["loan"])
     THEN AppendTo(c, "loan", seen[c].loan.version, Event("FraudScreeningCompleted", 0),
                   "fraud_id")
     ELSE Read(c, TRUE, seen[c], "fraud_id")

FraudAppendLoan(c) ==
  /\ pc[c] = "fraud_append_loan"
  /\ AppendTo(c, "loan", seen[c].loan.version, Event("FraudScreeningCompleted", 0), "fraud_id")

FraudId(c) ==
  /\ pc[c] = "fraud_id"
  /\ ReadLastEvent(c, "loan", "fraud_summary_version")

FraudSummaryVersion(c) ==
  /\ pc[c] = "fraud_summary_version"
  /\ Read(c, TRUE, [seen[c] EXCEPT !.version = Len(streams["fraud"])], "fraud_append_summary")

FraudAppendSummary(c) ==
  /\ pc[c] = "fraud_append_summary"
  /\ AppendTo(c, "fraud", OrNew(seen[c].version),
              Event("FraudScreeningCompleted", seen[c].cause),
              IF cmd[c].mirror = None THEN "fraud_reload_loan" ELSE "fraud_load_agent")

FraudLoadAgent(c) ==
  LET agent == AgentOf(streams[cmd[c].mirror])
  IN /\ pc[c] = "fraud_load_agent"
     /\ Read(c, agent.ok /\ agent.context, [seen[c] EXCEPT !.agent = agent],
             "fraud_append_agent")

FraudAppendAgent(c) ==
  /\ pc[c] = "fraud_append_agent"
  /\ AppendTo(c, cmd[c].mirror, seen[c].agent.version,
              Event("FraudScreeningCompleted", LastEvent(cmd[c].mirror)), "fraud_reload_loan")

FraudReloadLoan(c) ==
  /\ pc[c] = "fraud_reload_loan"
  /\ LET Complete(loan) == loan.state = "ANALYSIS_COMPLETE"
     IN LoadLoan(c, Complete, "fraud_check_bridge")

FraudCheckBridge(c) ==
  /\ pc[c] = "fraud_check_bridge"
  /\ Read(c, OfType(streams["loan"], "ComplianceReviewStarted") = {}, seen[c], "append_bridge")

(* handle_record_compliance_check: a request, then one append per pass *)

ComplianceLoad(c) ==
  /\ pc[c] = "compliance"
  /\ Read(c, TRUE, [seen[c] EXCEPT !.version = Len(streams["compliance"])],
          "compliance_append_request")

ComplianceAppendRequest(c) ==
  /\ pc[c] = "compliance_append_request"
  /\ AppendTo(c, "compliance", OrNew(seen[c].version),
              [type |-> "ComplianceCheckRequested", gp |-> clock + 1, cause |-> 0,
               required |-> cmd[c].required],
              IF cmd[c].passes = <<>> THEN "idle" ELSE "compliance_reload")

ComplianceReload(c) ==
  /\ pc[c] = "compliance_reload"
  /\ Read(c, TRUE,
          [seen[c] EXCEPT !.version = Len(streams["compliance"]), !.passes = @ + 1],
          "compliance_append_pass")

ComplianceAppendPass(c) ==
  /\ pc[c] = "compliance_append_pass"
  /\ AppendTo(c, "compliance", seen[c].version,
              [type |-> "ComplianceRulePassed", gp |-> clock + 1, cause |-> 0,
               rule |-> cmd[c].passes[seen[c].passes]],
              IF seen[c].passes = Len(cmd[c].passes) THEN "idle" ELSE "compliance_reload")

(* handle_generate_decision: Rule 6, Rule 4, then the loan is loaded again   *)
(* for the version the decision is appended at.                              *)

DecisionLoad(c) ==
  /\ pc[c] = "decision"
  /\ LoadLoan(c, Always, "decision_validate")

Analysed(events) ==
  OfType(events, "CreditAnalysisCompleted") \cup OfType(events, "FraudScreeningCompleted")

(* Mutation of DecisionValidateCausalChain: one contributing session is enough. *)
DecisionValidateSomeChain(c) ==
  /\ pc[c] = "decision_validate"
  /\ Read(c, \E s \in cmd[c].sessions : Analysed(streams[s]) # {}, seen[c], "decision_reload")

DecisionValidateCausalChain(c) ==
  /\ pc[c] = "decision_validate"
  /\ Read(c, \A s \in cmd[c].sessions : Analysed(streams[s]) # {}, seen[c], "decision_reload")

DecisionReload(c) ==
  /\ pc[c] = "decision_reload"
  /\ LoadLoan(c, Always, "decision_append")

DecisionAppend(c) ==
  /\ pc[c] = "decision_append"
  /\ AppendTo(c, "loan", seen[c].loan.version,
              [type |-> "DecisionGenerated", gp |-> clock + 1, cause |-> LastEvent("loan"),
               sessions |-> cmd[c].sessions],
              "idle")

(* handle_request_human_review *)

RequestReviewLoad(c) ==
  /\ pc[c] = "request_review"
  /\ LoadLoan(c, Always, "request_review_append")

RequestReviewAppend(c) ==
  /\ pc[c] = "request_review_append"
  /\ AppendTo(c, "loan", seen[c].loan.version,
              Event("HumanReviewRequested", LastEvent("loan")), "idle")

(* handle_record_human_review: the review, then the approval behind Rule 5 *)

ReviewLoad(c) ==
  /\ pc[c] = "review"
  /\ LoadLoan(c, Always, "review_append")

ReviewAppend(c) ==
  /\ pc[c] = "review_append"
  /\ AppendTo(c, "loan", seen[c].loan.version,
              [type |-> "HumanReviewCompleted", gp |-> clock + 1, cause |-> 0,
               final |-> cmd[c].final, override |-> cmd[c].override],
              IF cmd[c].emit THEN "review_reload" ELSE "idle")

ReviewReload(c) ==
  /\ pc[c] = "review_reload"
  /\ LoadLoan(c, Always, "review_gate")

(* Mutations of ReviewGate: Rule 5 is not checked; one passed check is enough. *)
ReviewGateOpen(c) ==
  /\ pc[c] = "review_gate"
  /\ Read(c, TRUE, seen[c], "review_approve")

ReviewGateAjar(c) ==
  /\ pc[c] = "review_gate"
  /\ Read(c, Required(streams["compliance"]) \cap Passed(streams["compliance"]) # {},
          seen[c], "review_approve")

ReviewGate(c) ==
  /\ pc[c] = "review_gate"
  /\ Read(c, AllMandatoryChecksPassed(streams["compliance"]), seen[c], "review_approve")

ReviewApprove(c) ==
  /\ pc[c] = "review_approve"
  /\ AppendTo(c, "loan", seen[c].loan.version,
              Event("ApplicationApproved", LastEvent("loan")), "idle")
-------------------------------------------------------------------------------
(* What callers issue and what they find *)

Kinds == {"submit", "start", "credit", "fraud", "compliance", "decision", "request_review",
          "review"}

ASSUME CommandAssumption ==
  /\ Sessions \cap {"loan", "fraud", "compliance", None} = {}
  /\ {MaxCommands, MaxCrashes} \subseteq Nat
  /\ \A command \in CommandSet :
       /\ command.kind \in Kinds
       /\ command.kind \in {"start", "credit"} => command.session \in Sessions
       /\ command.kind = "fraud" => command.mirror \in Sessions \cup {None}
       /\ command.kind = "decision" => command.sessions \subseteq Sessions

(* The laws that hold of a store whatever commands race on it (all but       *)
(* ApprovalsCurrent, which takes a single caller); the properties of the     *)
(* same content are below.                                                   *)
AnchoredFirst(store) ==
  \A s \in Sessions : store[s] # <<>> => OfType(store[s], "AgentContextLoaded") = {1}

OneModel(store) ==
  \A s \in Sessions : \A i \in OfType(store[s], "CreditAnalysisCompleted") :
    store[s][i].model = store[s][1].model

(* The n-th credit analysis of a session on the loan comes after at least n   *)
(* of that session with its model: no two need mirror the same one.           *)
CreditsBacked(store) ==
  LET C == "CreditAnalysisCompleted"
      loan == store["loan"]
  IN \A i \in OfType(loan, C) :
       LET s == loan[i].session
       IN /\ s \in Sessions
          /\ Cardinality({k \in OfType(loan, C) : k <= i /\ loan[k].session = s})
               <= Cardinality({j \in OfType(store[s], C) : /\ store[s][j].gp < loan[i].gp
                                                          /\ store[s][j].model = loan[i].model})

DecisionsCaused(store) ==
  \A i \in OfType(store["loan"], "DecisionGenerated") :
    \A s \in store["loan"][i].sessions :
      /\ s \in Sessions
      /\ \E j \in Analysed(store[s]) : store[s][j].gp < store["loan"][i].gp

ApprovalsGated(store) ==
  \A i \in OfType(store["loan"], "ApplicationApproved") :
    \E n \in DOMAIN store["compliance"] :
      /\ store["compliance"][n].gp < store["loan"][i].gp
      /\ AllMandatoryChecksPassed(SubSeq(store["compliance"], 1, n))

(* Of a single caller: the checks that an approval rests on are all the      *)
(* compliance events before it, not just those of some earlier moment.       *)
ApprovalsCurrent(store) ==
  LET checks == store["compliance"]
  IN \A i \in OfType(store["loan"], "ApplicationApproved") :
       \E n \in DOMAIN checks :
         /\ \A k \in DOMAIN checks : k <= n <=> checks[k].gp < store["loan"][i].gp
         /\ AllMandatoryChecksPassed(SubSeq(checks, 1, n))

(* Up to any position there are at most as many screenings on the fraud       *)
(* summary, or in a session, as on the loan.                                 *)
ScreeningsFollow(store, last) ==
  LET Screenings(s, gp) == {i \in OfType(store[s], "FraudScreeningCompleted") :
                              store[s][i].gp <= gp}
  IN \A s \in {"fraud"} \cup Sessions : \A gp \in 1..last :
       Cardinality(Screenings(s, gp)) <= Cardinality(Screenings("loan", gp))

(* Every position up to the last is drawn for one event.                     *)
OnePosition(store, last) ==
  /\ \A gp \in 1..last : \E s \in StreamIds : \E i \in DOMAIN store[s] : store[s][i].gp = gp
  /\ \A s, t \in StreamIds : \A i \in DOMAIN store[s] : \A j \in DOMAIN store[t] :
       store[s][i].gp = store[t][j].gp => s = t /\ i = j

(* Streams are written in the order of the positions, and a cause is an      *)
(* earlier event; a decision names the event of the loan before it.          *)
CausesPrecede(store) ==
  LET loan == store["loan"]
  IN /\ \A s \in StreamIds : \A i \in DOMAIN store[s] :
          /\ store[s][i].cause \in 0..(store[s][i].gp - 1)
          /\ \A j \in 1..(i - 1) : store[s][j].gp < store[s][i].gp
     /\ \A i \in OfType(loan, "DecisionGenerated") : i > 1 /\ loan[i].cause = loan[i - 1].gp

(* The last global position, where commands ran one by one. *)
LastPosition(store) == MapThenSumSet(LAMBDA s : Len(store[s]), StreamIds)

ASSUME StoreAssumption ==
  \A store \in InitialStores :
    /\ store = [s \in StreamIds |-> store[s]]
    /\ LastPosition(store) \in Nat
    /\ \A s \in StreamIds :
         /\ store[s] \in Seq(Range(store[s]))
         /\ \A i \in DOMAIN store[s] : store[s][i].gp \in 1..LastPosition(store)
    /\ AnchoredFirst(store) /\ OneModel(store) /\ CreditsBacked(store)
    /\ DecisionsCaused(store) /\ ApprovalsGated(store)
    /\ ScreeningsFollow(store, LastPosition(store))
    /\ OnePosition(store, LastPosition(store)) /\ CausesPrecede(store)
    /\ \A i \in DOMAIN store["loan"] : store["loan"][i].type \in LoanEvents
    /\ LoanOf(store["loan"]).ok
-------------------------------------------------------------------------------
(* Callers *)

(* The preconditions that the tool descriptions of src/mcp/tools.py ask the  *)
(* caller to see to, at the moment of the call.                              *)
Precondition(command) ==
  LET Anchored(s) == streams[s] # <<>>
  IN CASE command.kind = "submit" -> streams["loan"] = <<>>
       [] command.kind = "start" -> ~ Anchored(command.session)
       [] command.kind = "credit" ->
            /\ Loan.state = "AWAITING_ANALYSIS"
            /\ Anchored(command.session) =>
                 AgentOf(streams[command.session]).model = command.model
       [] command.kind = "fraud" ->
            /\ Loan.state = "AWAITING_ANALYSIS"
            /\ command.mirror # None => Anchored(command.mirror)
       [] command.kind = "compliance" -> TRUE
       [] command.kind = "decision" ->
            /\ Loan.state = "COMPLIANCE_REVIEW"
            /\ \A s \in command.sessions : Analysed(streams[s]) # {}
       [] command.kind = "request_review" -> Loan.state = "PENDING_DECISION"
       [] command.kind = "review" ->
            /\ Loan.state = "PENDING_DECISION"
            /\ command.emit => command.final = "APPROVE"

Issue(c, command) ==
  /\ pc[c] = "idle"
  /\ issued < MaxCommands
  /\ Disciplined => Precondition(command)
  /\ pc' = [pc EXCEPT ![c] = command.kind]
  /\ cmd' = [cmd EXCEPT ![c] = command]
  /\ issued' = issued + 1
  /\ UNCHANGED <<streams, clock, seen, crashed>>

(* The caller dies, or loses its connection, between two steps. *)
Crash(c) ==
  /\ pc[c] # "idle"
  /\ crashed < MaxCrashes
  /\ crashed' = crashed + 1
  /\ Finish(c)
  /\ UNCHANGED <<streams, clock, issued>>

Init ==
  /\ streams \in InitialStores
  /\ clock = LastPosition(streams)
  /\ pc = [c \in Clients |-> "idle"]
  /\ cmd = [c \in Clients |-> NoCommand]
  /\ seen = [c \in Clients |-> Nothing]
  /\ issued = 0
  /\ crashed = 0

Submit(c) == SubmitLoad(c) \/ SubmitAppend(c) \/ SubmitReload(c) \/ SubmitRequest(c)

StartSession(c) == StartLoad(c) \/ StartAppend(c)

CreditAnalysis(c) ==
  \/ CreditLoadLoan(c) \/ CreditLoadSession(c) \/ CreditLoadLoanEvents(c) \/ CreditValidate(c)
  \/ CreditAnchor(c) \/ CreditAnchorId(c) \/ CreditReloadAgent(c)
  \/ CreditAppendAgent(c) \/ CreditId(c) \/ CreditReloadLoan(c) \/ CreditAppendLoan(c) \/ CreditCheckBridge(c)

FraudScreening(c) ==
  \/ FraudLoad(c) \/ FraudAppendLoan(c) \/ FraudId(c)
  \/ FraudSummaryVersion(c) \/ FraudAppendSummary(c)
  \/ FraudLoadAgent(c) \/ FraudAppendAgent(c) \/ FraudReloadLoan(c) \/ FraudCheckBridge(c)

ComplianceCheck(c) ==
  \/ ComplianceLoad(c) \/ ComplianceAppendRequest(c)
  \/ ComplianceReload(c) \/ ComplianceAppendPass(c)

GenerateDecision(c) ==
  \/ DecisionLoad(c) \/ DecisionValidateCausalChain(c) \/ DecisionReload(c) \/ DecisionAppend(c)

HumanReview(c) ==
  \/ RequestReviewLoad(c) \/ RequestReviewAppend(c)
  \/ ReviewLoad(c) \/ ReviewAppend(c) \/ ReviewReload(c) \/ ReviewGate(c) \/ ReviewApprove(c)

Next ==
  \E c \in Clients :
    \/ \E command \in CommandSet : Issue(c, command)
    \/ Submit(c)
    \/ StartSession(c)
    \/ CreditAnalysis(c)
    \/ FraudScreening(c)
    \/ AppendBridge(c)
    \/ ComplianceCheck(c)
    \/ GenerateDecision(c)
    \/ HumanReview(c)
    \/ Crash(c)

Spec == Init /\ [][Next]_vars
-------------------------------------------------------------------------------
(* Properties *)

Steps == {"idle", "submit", "submit_append", "submit_reload", "submit_request",
          "start", "start_append",
          "credit", "credit_load_session", "credit_load_loan_events", "credit_validate",
          "credit_anchor", "credit_anchor_id", "credit_reload_agent", "credit_append_agent",
          "credit_id", "credit_reload_loan", "credit_append_loan", "credit_check_bridge", "append_bridge",
          "fraud", "fraud_append_loan", "fraud_id", "fraud_summary_version",
          "fraud_append_summary",
          "fraud_load_agent", "fraud_append_agent", "fraud_reload_loan", "fraud_check_bridge",
          "compliance", "compliance_append_request", "compliance_reload",
          "compliance_append_pass",
          "decision", "decision_validate", "decision_reload", "decision_append",
          "request_review", "request_review_append",
          "review", "review_append", "review_reload", "review_gate", "review_approve"}

(* The fields of an event other than type and gp depend on its type. *)
TypeOK ==
  /\ DOMAIN streams = StreamIds
  /\ \A s \in StreamIds : \A i \in DOMAIN streams[s] : streams[s][i].gp \in 1..clock
  /\ pc \in [Clients -> Steps]
  /\ \A c \in Clients :
       /\ cmd[c] \in CommandSet \cup {NoCommand}
       /\ pc[c] = "idle" <=> cmd[c] = NoCommand
       /\ seen[c].loan.state \in States
       /\ seen[c].loan.ok
  /\ issued \in 0..MaxCommands
  /\ crashed \in 0..MaxCrashes

(* The loan as it was when the i-th event of its stream was appended. *)
LoanBefore(i) == LoanOf(SubSeq(streams["loan"], 1, i - 1))

AppendedOnlyIn(type, state) ==
  \A i \in OfType(streams["loan"], type) : LoanBefore(i).state = state

(* No handler appends an event to the loan stream that the aggregate refuses *)
(* to replay.  Once it has, every later load of the loan raises DomainError: *)
(* no command can touch the application any more.                            *)
LoanReplayable == Loan.ok

(* Gas Town: the first event of a session is its context, and it has one.    *)
GasTownFirst == AnchoredFirst(streams)

(* Every credit analysis of a session was made with the model version the    *)
(* session was anchored with, whoever anchored it.                           *)
ModelVersionLocked == OneModel(streams)

(* Every credit analysis on the loan mirrors one that the agent session it   *)
(* names recorded earlier with the same model version, and no two mirror     *)
(* the same one: a call that failed to record its analysis, or died before   *)
(* it did, shows none on the loan.                                           *)
CreditIsBackedBySession == CreditsBacked(streams)

(* The fraud summary and the agent mirrors never run ahead of the loan: each *)
(* of their screenings follows one on the loan that it copies.               *)
FraudSummaryFollowsLoan == ScreeningsFollow(streams, clock)

(* The credit and the fraud handler both append the bridge to                *)
(* COMPLIANCE_REVIEW when they find the analysis complete; one of them wins. *)
OneBridge == Cardinality(OfType(streams["loan"], "ComplianceReviewStarted")) <= 1

(* Rule 6: every session a decision names had analysed the application       *)
(* before the decision was appended.                                         *)
DecisionIsCaused == DecisionsCaused(streams)

(* Rule 5, as far as the code keeps it: before an approval there was a       *)
(* moment when every mandatory check had passed.                             *)
ApprovalHadPassed == ApprovalsGated(streams)

(* What the documentation promises *)

(* generate_decision: "Loan must be in COMPLIANCE_REVIEW" (tools.py).        *)
DecisionOnlyInComplianceReview == AppendedOnlyIn("DecisionGenerated", "COMPLIANCE_REVIEW")

(* CREDIT_ANALYSIS_ALREADY_COMPLETE: the loan stream gets one credit         *)
(* analysis (loan_application.py).                                           *)
OneCreditAnalysisOnLoan ==
  Cardinality(OfType(streams["loan"], "CreditAnalysisCompleted")) <= 1

(* Rule 3: "After one CreditAnalysisCompleted for application_id in this     *)
(* session, reject another unless a HumanReviewCompleted with override=True  *)
(* exists on the loan stream *after* that credit event" (agent_session.py).  *)
AnalysisLocked ==
  \A s \in Sessions : \A i, j \in OfType(streams[s], "CreditAnalysisCompleted") :
    i < j => \E k \in OfType(streams["loan"], "HumanReviewCompleted") :
               /\ streams["loan"][k].override
               /\ streams["loan"][k].gp > streams[s][i].gp
               /\ streams["loan"][k].gp < streams[s][j].gp

(* Rule 5: an approval is blocked while "not all mandatory                   *)
(* ComplianceRulePassed events are present" (loan_application.py).           *)
ApprovalHasPassed == ApprovalsCurrent(streams)
=============================================================================
