------------------------------- MODULE ReadModels -------------------------------
(***************************************************************************)
(* The folds of ApplicationSummary (src/projections/application_summary.py) *)
(* and ComplianceAuditView (src/projections/compliance_audit.py), and the  *)
(* batch transactions in which ProjectionDaemon runs them side by side.    *)
(*                                                                         *)
(* Both write the rows of projection_application_summary, one its          *)
(* lifecycle columns and the other compliance_status, so the two           *)
(* transactions wait for the row locks of each other and may deadlock.     *)
(* A batch belongs to the runner that holds the advisory lock of its       *)
(* projection (ProjectionDaemon); late commits are left to that module.    *)
(***************************************************************************)
EXTENDS Aggregates

CONSTANTS
  Apps,          \* loan applications
  Rules,         \* compliance rules
  Tiers,         \* what a credit analysis may report as risk_tier; "" is allowed
  Catalogue,     \* the events that are appended
  InitialLogs,   \* logs the daemon may find when it starts
  BatchSize,     \* batch_size
  MaxRetries,    \* max_retries
  MaxEvents,     \* bound: length of the log
  MaxCrashes     \* bound: batches whose process dies

VARIABLES
  log,         \* the events by global position: [app, stream, type, ...]
  summary,     \* summary[a]: row of projection_application_summary, or None
  timeline,    \* timeline[a]: rows of compliance_audit_timeline, by position
  checkpoint,  \* projection_checkpoints.last_position
  dead,        \* dead[p]: positions in projection_dead_letter
  \* one batch per projection
  pc,          \* next step of the batch, or "idle"
  upto,        \* last position of the batch
  next,        \* position of the event being applied
  attempts,    \* failed attempts at it
  seen,        \* what its SELECT returned, folded with the event
  rows,        \* rows[p][a]: uncommitted row of the summary; it is locked
  snapshots,   \* snapshots[a]: uncommitted rows of the timeline
  buried,      \* buried[p]: uncommitted dead letters
  crashes

tables == <<log, summary, timeline, checkpoint, dead>>
transaction == <<rows, snapshots, buried>>
vars == <<tables, pc, upto, next, attempts, seen, transaction, crashes>>

Projections == {"ApplicationSummary", "ComplianceAuditView"}

(* The events of one stream of application a, among the first n. *)
EventsIn(events, a, stream, n) ==
  LET chosen[i \in 0..n] ==
        IF i = 0 THEN <<>>
        ELSE IF events[i].app = a /\ events[i].stream = stream
             THEN Append(chosen[i - 1], events[i]) ELSE chosen[i - 1]
  IN chosen[n]

EventsUpTo(a, stream, n) == EventsIn(log, a, stream, n)

(* Assumptions: what the handlers append (LoanCommands), and loans that can  *)
(* be loaded at every moment.                                                *)
IsEvent(event) ==
  /\ event.app \in Apps
  /\ event.stream \in {"loan", "compliance"}
  /\ event.stream = "loan" =>
       /\ event.type \in LoanEvents
       /\ event.type = "CreditAnalysisCompleted" => event.tier \in Tiers
  /\ event.stream = "compliance" =>
       /\ event.type = "ComplianceCheckRequested" => event.required \subseteq Rules
       /\ event.type = "ComplianceRulePassed" => event.rule \in Rules
       /\ event.type = "ComplianceCheckCompleted" => event.blocked \in BOOLEAN

IsLog(events) ==
  /\ events \in Seq(Range(events))
  /\ \A i \in DOMAIN events : IsEvent(events[i])
  /\ \A a \in Apps : \A n \in 0..Len(events) : LoanOf(EventsIn(events, a, "loan", n)).ok

ASSUME LogAssumption ==
  /\ \A events \in InitialLogs : IsLog(events)
  /\ \A event \in Catalogue : IsEvent(event)

ASSUME BoundAssumption ==
  /\ BatchSize \in Nat \ {0}
  /\ MaxRetries \in Nat /\ MaxEvents \in Nat /\ MaxCrashes \in Nat

Row == [state : (States \ {"NONE", "FINAL_VERDICT"}) \cup {"FINAL_APPROVED", None},
        tier : Tiers \cup {None}, fraud : BOOLEAN,
        status : {"UNKNOWN", "IN_PROGRESS", "PASSED", "FAILED"}]

(* The value that stands for no row, and for NULL in a column, is not one. *)
ASSUME NoneAssumption == None \notin Row /\ None \notin Tiers

Rival(p) == CHOOSE q \in Projections : q # p

StreamOf(p) == IF p = "ApplicationSummary" THEN "loan" ELSE "compliance"

Current(p) == log[next[p]]

-------------------------------------------------------------------------------
(* ApplicationSummaryProjection *)

NewRow == [state |-> None, tier |-> None, fraud |-> FALSE, status |-> "UNKNOWN"]

(* A fraud score, and a risk tier that names one.                            *)
BothScores(row) == row.fraud /\ row.tier \notin {None, ""}

(* The lifecycle state the summary shows after an event, by its own rules.   *)
StateAfter(row, event) ==
  CASE event.type = "ApplicationSubmitted" -> "SUBMITTED"
    [] event.type = "CreditAnalysisRequested" -> "AWAITING_ANALYSIS"
    [] event.type \in {"FraudScreeningCompleted", "CreditAnalysisCompleted"} ->
         IF BothScores(row) THEN "ANALYSIS_COMPLETE" ELSE row.state
    [] event.type = "ComplianceReviewStarted" -> "COMPLIANCE_REVIEW"
    [] event.type = "DecisionGenerated" -> "PENDING_DECISION"
    [] event.type = "HumanReviewCompleted" ->
         IF event.final \in {"APPROVE", "DECLINE"} THEN "DECIDED_PENDING_HUMAN" ELSE row.state
    [] event.type = "ApplicationApproved" -> "FINAL_APPROVED"
    [] OTHER -> row.state

Scored(row, event) ==
  [row EXCEPT !.tier = IF event.type = "CreditAnalysisCompleted" THEN event.tier ELSE @,
              !.fraud = @ \/ event.type = "FraudScreeningCompleted"]

(* Mutation of Summarised: both scores make the analysis complete, whatever  *)
(* event is folded.                                                          *)
SummarisedByScores(row, event) ==
  LET scored == Scored(row, event)
  IN [scored EXCEPT !.state = IF BothScores(scored)
                              THEN "ANALYSIS_COMPLETE" ELSE StateAfter(scored, event)]

Summarised(row, event) ==
  LET scored == Scored(row, event)
  IN [scored EXCEPT !.state = StateAfter(scored, event)]

(* Mutation of LoanUpsert: compliance_status = EXCLUDED.compliance_status.   *)
LoanUpsertAll(stored, mine) == mine

(* INSERT .. ON CONFLICT DO UPDATE: the scores are COALESCEd, the compliance *)
(* status of the stored row is kept.                                         *)
LoanUpsert(stored, mine) ==
  IF stored = None
  THEN mine
  ELSE [mine EXCEPT !.tier = IF @ = None THEN stored.tier ELSE @,
                    !.fraud = @ \/ stored.fraud,
                    !.status = stored.status]
-------------------------------------------------------------------------------
(* ComplianceAuditProjection *)

NewSnapshot == [required |-> {}, passed |-> {}, failed |-> FALSE, blocked |-> FALSE]

(* Mutation of Audited: the first request names the checks for good. *)
AuditedOnce(state, event) ==
  CASE event.type = "ComplianceCheckRequested" ->
         IF state.required = {} THEN [state EXCEPT !.required = event.required] ELSE state
    [] event.type = "ComplianceRulePassed" -> [state EXCEPT !.passed = @ \cup {event.rule}]
    [] event.type = "ComplianceRuleFailed" -> [state EXCEPT !.failed = TRUE]
    [] event.type = "ComplianceCheckCompleted" -> [state EXCEPT !.blocked = event.blocked]
    [] OTHER -> state

(* A request replaces the required checks; passes and failures stay for      *)
(* good; the last verdict counts.                                            *)
Audited(state, event) ==
  CASE event.type = "ComplianceCheckRequested" -> [state EXCEPT !.required = event.required]
    [] event.type = "ComplianceRulePassed" -> [state EXCEPT !.passed = @ \cup {event.rule}]
    [] event.type = "ComplianceRuleFailed" -> [state EXCEPT !.failed = TRUE]
    [] event.type = "ComplianceCheckCompleted" -> [state EXCEPT !.blocked = event.blocked]
    [] OTHER -> state

OverallStatus(state) ==
  CASE state.blocked \/ state.failed -> "FAILED"
    [] state.required # {} /\ state.required \subseteq state.passed -> "PASSED"
    [] OTHER -> "IN_PROGRESS"

ComplianceUpsert(stored, state) ==
  [(IF stored = None THEN NewRow ELSE stored) EXCEPT !.status = OverallStatus(state)]

(* ORDER BY global_position DESC LIMIT 1 *)
Latest(snaps) == IF snaps = <<>> THEN NewSnapshot ELSE Last(snaps).state
-------------------------------------------------------------------------------

NoRows == [a \in Apps |-> None]
NoSnapshots == [a \in Apps |-> <<>>]

Init ==
  /\ log \in InitialLogs
  /\ summary = NoRows
  /\ timeline = NoSnapshots
  /\ checkpoint = [p \in Projections |-> 0]
  /\ dead = [p \in Projections |-> {}]
  /\ pc = [p \in Projections |-> "idle"]
  /\ upto = [p \in Projections |-> 0]
  /\ next = [p \in Projections |-> 0]
  /\ attempts = [p \in Projections |-> 0]
  /\ seen = [p \in Projections |-> None]
  /\ rows = [p \in Projections |-> NoRows]
  /\ snapshots = NoSnapshots
  /\ buried = [p \in Projections |-> {}]
  /\ crashes = 0

(* Appends: a loan event that its aggregate accepts, as the handlers see to  *)
(* it, or any compliance event.                                              *)
AppendEvent(event) ==
  /\ Len(log) < MaxEvents
  /\ event.stream = "loan" =>
       LoanOf(Append(EventsUpTo(event.app, "loan", Len(log)), event)).ok
  /\ log' = Append(log, event)
  /\ UNCHANGED <<summary, timeline, checkpoint, dead, pc, upto, next, attempts, seen,
                 transaction, crashes>>

Goto(p, step) == pc' = [pc EXCEPT ![p] = step]

(* run_once: up to batch_size events above the checkpoint, one transaction.  *)
Begin(p) ==
  /\ pc[p] = "idle"
  /\ checkpoint[p] < Len(log)
  /\ upto' = [upto EXCEPT ![p] = Min({checkpoint[p] + BatchSize, Len(log)})]
  /\ next' = [next EXCEPT ![p] = checkpoint[p] + 1]
  /\ Goto(p, "select")
  /\ UNCHANGED <<tables, attempts, seen, transaction, crashes>>

(* The event is applied or buried: the next one, or the end of the batch.    *)
Pass(p) ==
  /\ attempts' = [attempts EXCEPT ![p] = 0]
  /\ seen' = [seen EXCEPT ![p] = None]
  /\ IF next[p] = upto[p]
     THEN Goto(p, "commit") /\ UNCHANGED next
     ELSE Goto(p, "select") /\ next' = [next EXCEPT ![p] = @ + 1]

(* apply returns at once for the events of other streams. *)
Skip(p) ==
  /\ pc[p] = "select"
  /\ Current(p).stream # StreamOf(p)
  /\ Pass(p)
  /\ UNCHANGED <<tables, upto, transaction, crashes>>

(* The row as the transaction sees it: its own version, or the committed one. *)
Stored(p, a) == IF rows[p][a] # None THEN rows[p][a] ELSE summary[a]

(* SELECT, without a lock, and the fold of the event. *)
Select(p) ==
  LET a == Current(p).app
      row == Stored(p, a)
  IN /\ pc[p] = "select"
     /\ Current(p).stream = StreamOf(p)
     /\ seen' = [seen EXCEPT ![p] =
          IF p = "ApplicationSummary"
          THEN Summarised(IF row = None THEN NewRow ELSE row, Current(p))
          ELSE Audited(Latest(timeline[a] \o snapshots[a]), Current(p))]
     /\ Goto(p, "upsert")
     /\ UNCHANGED <<tables, upto, next, attempts, transaction, crashes>>

(* The upsert has to wait: the rival has written the row and not committed.  *)
Blocked(p) == pc[p] = "upsert" /\ rows[Rival(p)][Current(p).app] # None

Upsert(p) ==
  LET a == Current(p).app
  IN /\ pc[p] = "upsert"
     /\ ~ Blocked(p)
     /\ IF p = "ApplicationSummary"
        THEN /\ rows' = [rows EXCEPT ![p][a] = LoanUpsert(Stored(p, a), seen[p])]
             /\ UNCHANGED snapshots
        ELSE /\ rows' = [rows EXCEPT ![p][a] = ComplianceUpsert(Stored(p, a), seen[p])]
             /\ snapshots' = [snapshots EXCEPT ![a] =
                                Append(@, [gp |-> next[p], state |-> seen[p]])]
     /\ Pass(p)
     /\ UNCHANGED <<tables, upto, buried, crashes>>

Deadlocked == \A p \in Projections : Blocked(p)

(* Mutations of Fail: one attempt too many; the attempts are not counted.    *)
FailLate(p) ==
  /\ Deadlocked
  /\ IF attempts[p] <= MaxRetries
     THEN /\ attempts' = [attempts EXCEPT ![p] = @ + 1]
          /\ seen' = [seen EXCEPT ![p] = None]
          /\ Goto(p, "select")
          /\ UNCHANGED <<next, buried>>
     ELSE /\ buried' = [buried EXCEPT ![p] = @ \cup {next[p]}]
          /\ Pass(p)
  /\ UNCHANGED <<tables, upto, rows, snapshots, crashes>>

FailAgain(p) ==
  /\ Deadlocked
  /\ seen' = [seen EXCEPT ![p] = None]
  /\ Goto(p, "select")
  /\ UNCHANGED <<tables, upto, next, attempts, transaction, crashes>>

(* PostgreSQL ends a deadlock by failing the statement of either side.       *)
(* ROLLBACK TO SAVEPOINT keeps the locks of the events before, so the next   *)
(* attempt waits for the same row again; after the last one the event, with  *)
(* which nothing is wrong, is dead-lettered.                                 *)
Fail(p) ==
  /\ Deadlocked
  /\ IF attempts[p] < MaxRetries
     THEN /\ attempts' = [attempts EXCEPT ![p] = @ + 1]
          /\ seen' = [seen EXCEPT ![p] = None]
          /\ Goto(p, "select")
          /\ UNCHANGED <<next, buried>>
     ELSE /\ buried' = [buried EXCEPT ![p] = @ \cup {next[p]}]
          /\ Pass(p)
  /\ UNCHANGED <<tables, upto, rows, snapshots, crashes>>

EndTransaction(p) ==
  /\ Goto(p, "idle")
  /\ upto' = [upto EXCEPT ![p] = 0]
  /\ next' = [next EXCEPT ![p] = 0]
  /\ rows' = [rows EXCEPT ![p] = NoRows]
  /\ snapshots' = IF p = "ComplianceAuditView" THEN NoSnapshots ELSE snapshots
  /\ buried' = [buried EXCEPT ![p] = {}]

(* The checkpoint, the rows and the dead letters change together. *)
Commit(p) ==
  /\ pc[p] = "commit"
  /\ summary' = [a \in Apps |-> Stored(p, a)]
  /\ timeline' = IF p = "ComplianceAuditView"
                 THEN [a \in Apps |-> timeline[a] \o snapshots[a]] ELSE timeline
  /\ dead' = [dead EXCEPT ![p] = @ \cup buried[p]]
  /\ checkpoint' = [checkpoint EXCEPT ![p] = upto[p]]
  /\ EndTransaction(p)
  /\ UNCHANGED <<log, attempts, seen, crashes>>

(* The process dies: the server rolls the transaction back. *)
Crash(p) ==
  /\ pc[p] # "idle"
  /\ crashes < MaxCrashes
  /\ crashes' = crashes + 1
  /\ attempts' = [attempts EXCEPT ![p] = 0]
  /\ seen' = [seen EXCEPT ![p] = None]
  /\ EndTransaction(p)
  /\ UNCHANGED tables

Step(p) == Skip(p) \/ Select(p) \/ Upsert(p) \/ Fail(p) \/ Commit(p)

Next ==
  \/ \E event \in Catalogue : AppendEvent(event)
  \/ \E p \in Projections : Begin(p) \/ Step(p) \/ Crash(p)

(* asyncio runs a batch on; PostgreSQL wakes a waiter when the row is free   *)
(* and breaks a deadlock.                                                    *)
Spec == Init /\ [][Next]_vars /\ \A p \in Projections : WF_vars(Step(p))
-------------------------------------------------------------------------------

Snapshot == [required : SUBSET Rules, passed : SUBSET Rules, failed : BOOLEAN, blocked : BOOLEAN]

TypeOK ==
  /\ summary \in [Apps -> Row \cup {None}]
  /\ timeline \in [Apps -> Seq([gp : Nat, state : Snapshot])]
  /\ checkpoint \in [Projections -> 0..Len(log)]
  /\ \A p \in Projections :
       /\ pc[p] \in {"idle", "select", "upsert", "commit"}
       /\ pc[p] # "idle" => next[p] \in checkpoint[p] + 1 .. upto[p] /\ upto[p] <= Len(log)
       /\ attempts[p] \in 0..MaxRetries
       /\ rows[p] \in [Apps -> Row \cup {None}]
       /\ dead[p] \subseteq 1..checkpoint[p]
  /\ crashes \in 0..MaxCrashes

Untroubled(p, a) == \A g \in dead[p] : log[g].app # a

(* After every daemon batch the compliance status that the summary shows is  *)
(* that of the last snapshot of the timeline, although the loan events       *)
(* upsert the same row from a SELECT that took no lock. (A rebuild of the    *)
(* timeline, which truncates it and not the summary, is not modelled.)       *)
StatusMirrorsTimeline ==
  \A a \in Apps :
    (IF summary[a] = None THEN "UNKNOWN" ELSE summary[a].status) =
      (IF timeline[a] = <<>> THEN "UNKNOWN" ELSE OverallStatus(Latest(timeline[a])))

(* risk_tier of the last credit analysis, or None.                           *)
LastTier(events) ==
  LET credits == OfType(events, "CreditAnalysisCompleted")
  IN IF credits = {} THEN None
     ELSE events[CHOOSE i \in credits : \A j \in credits : j <= i].tier

(* The summary computes the lifecycle state by rules of its own. On the      *)
(* events up to its checkpoint it agrees with the aggregate, whoever created *)
(* the row, as long as no event of the application was dead-lettered, with   *)
(* one exception: the summary does not take a credit analysis without a risk *)
(* tier for one, so it shows AWAITING_ANALYSIS from the moment the aggregate *)
(* completes the analysis until the review starts.                           *)
SummaryFollowsLoan ==
  \A a \in Apps :
    Untroubled("ApplicationSummary", a) =>
      LET events == EventsUpTo(a, "loan", checkpoint["ApplicationSummary"])
          state == LoanOf(events).state
          shown == IF summary[a] = None THEN None ELSE summary[a].state
      IN shown = CASE state = "NONE" -> None
                   [] state = "FINAL_VERDICT" -> "FINAL_APPROVED"
                   [] state = "ANALYSIS_COMPLETE" /\ LastTier(events) = "" -> "AWAITING_ANALYSIS"
                   [] OTHER -> state

(* What the point-in-time API shows as PASSED at a position is what the      *)
(* Rule 5 gate of the command side would have let through at that position.  *)
(* (Not the other way round: the read model counts failures, the gate does   *)
(* not.)                                                                     *)
PassedMeansGateOpen ==
  \A a \in Apps : \A i \in DOMAIN timeline[a] :
    /\ Untroubled("ComplianceAuditView", a)
    /\ OverallStatus(timeline[a][i].state) = "PASSED"
    => AllMandatoryChecksPassed(EventsUpTo(a, "compliance", timeline[a][i].gp))

(* Every batch commits or is rolled back, although the transactions lock     *)
(* rows in the order of their events and deadlock.                           *)
EveryBatchEnds == \A p \in Projections : pc[p] # "idle" ~> pc[p] = "idle"
=============================================================================
