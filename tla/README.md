# The Ledger: models, checks and proofs

The Ledger is a PostgreSQL event store with optimistic concurrency for a multi-agent loan process,
with command handlers, aggregates, projections, an audit chain and some pure algorithms on top. This
directory models it in TLA+: TLC checks the models on small instances, TLAPS proves the theorems for every
value of the constants. Paths below are relative to the repository.

## 1. Inventory

| Component | State | Operations | Interacts through | Hard behaviour |
|---|---|---|---|---|
| Event store (`src/event_store.py`, `src/schema.sql`) | `events`, `event_streams`, `outbox`, the identity sequence | `append`, `archive_stream`, `load_stream`, `load_all`, `stream_version` | one transaction per append; row lock on `event_streams` | two writers with one `expected_version`, first append of a stream, archive under an append, crash mid-transaction, positions that commit out of order |
| Command handlers and aggregates (`src/commands/handlers.py`, `src/aggregates/*.py`) | none of their own: aggregates are replayed from streams on each load | eight handlers, each a chain of loads and appends | appends to the loan, fraud, compliance and agent streams | other callers between any load and append; a second load used only for its version; rules that read one stream and append to another; a crash between two appends |
| Projection daemon (`src/projections/daemon.py`), rebuild (`compliance_audit.py`) | `projection_checkpoints`, read models, `projection_dead_letter`, an advisory lock per projection | `run_once`, `run_forever`, `run_catch_up`, `rebuild_from_scratch` | polls `events` by global position | several daemons, retry and dead-letter, crash, late commits, a rebuild under a running tick |
| Read models (`application_summary.py`, `agent_performance.py`, `compliance_audit.py`) | their tables | one `apply` per event type | called by the daemon in a savepoint | counters that are not idempotent; two rules for one status |
| Audit ledger and integrity chain (`src/aggregates/audit_ledger.py`, `src/integrity/audit_chain.py`) | the audit stream of an entity | `record_integrity_check`, `run_integrity_check` (MCP tool), timeline, causal chain | reads several streams and the whole log, appends to the audit stream; `get_causal_chain` follows `causation_id` | concurrent checks, appends and edits while reading; two hash algorithms on one stream |
| Upcasting (`src/upcasting/`) | none | `upcast` on load, which may read other streams | called by the store | same stored event, different result later |
| Gas Town (`src/integrity/gas_town.py`) | none; the agents that use it (`ledger/agents`) are not in the repository | `reconstruct_agent_context` | reads the session stream that agents and command handlers append to | crashes of the agent, a node run again, foreign events after an unfinished node, the token budget |
| What-if (`src/what_if/projector.py`) | none | `run_what_if`: load, cut, prune by causes, infer the decision | reads several streams | causes that cross streams, histories a crash left half done |
| Regulatory package (`src/regulatory/package.py`) | none | one report | timeline, hash chain, read models | |
| MCP tools and resources (`src/mcp/`) | none | parse, call a handler, catch up | callers | documented preconditions nobody enforces |
| Data generation (`datagen/`) | none | a seeding script | | |

Referred to but absent from the repository: `mcp/runtime.py`, `projections/blue_green.py`,
`what_if/memory_projections.py`, `models/commands.py`, `DESIGN.md`, `scripts/`.

What makes each part correct:

* Event store: an append is indivisible and honest: it happens at the expected version or not at all; the
  positions of a stream are 1..version; the outbox lists what was committed; archived means frozen.
* Handlers: what is appended can be replayed; an agent session has one context and one model version; a
  credit analysis on the loan has a session behind it; a decision names sessions that analysed; an approval
  follows the compliance checks.
* Daemon: checkpoint and read model agree; nothing is counted twice or lost; every event is projected.
* Read models: a row says what the aggregate would say at the same position, whichever of two projections
  writes it; every batch ends.
* Gas Town: a memory accounts for every event; an unfinished step is taken up again.
* What-if and causal chain: nothing left rests on something dropped; what follows from an event is found.
* Audit: a timeline is complete; a changed payload shows; an intact log is never reported as changed.

## 2. Modules

| Module | Models |
|---|---|
| `StreamVersion` | the version gate of `append`, shared by all modules that append to a stream |
| `AtomicLog` | the abstract specification of the event store: streams, indivisible appends, `Accept`, `Refuse`, `Archive` |
| `EventStore` | `append` statement by statement (select for update, insert stream, insert events one row at a time because each draws a position, outbox, commit, abort) and `archive_stream` |
| `Aggregates` | the aggregates as functions of the events of their stream |
| `LoanCommands` | every handler for one application: each load and each append is a step |
| `WhatIf`, `CausalChain` | `run_what_if` and `get_causal_chain` as operators on the histories `LoanCommands` leaves |
| `ProjectionDaemon` | `run_once` statement by statement, its callers, and `rebuild_from_scratch` |
| `ReadModels` | the folds of `ApplicationSummary` and `ComplianceAuditView` and the row locks of their transactions |
| `AuditLedger` | both integrity checks statement by statement, with the paged scan `load_all` they rest on |
| `GasTown` | `reconstruct_agent_context` in a session that an agent, its successors and the handlers write to |
| `EventStoreProofs`, `AggregatesProofs`, `LoanCommandsProofs`, `ProjectionDaemonProofs`, `ReadModelsProofs`, `AuditLedgerProofs`, `GasTownProofs` | the theorems or lemmas about the module of that name |
| `WhatIfProofs` | the theorems about `WhatIf` and `CausalChain` |
| `MC...` | constants for TLC: small sets of processes, commands, stores, kinds of events |

Composition. `EventStore` implements `AtomicLog` (checked and proved); `LoanCommands` and `AuditLedger` use an
append as one step, with the gate of `StreamVersion`, which that refinement justifies. `ProjectionDaemon` and
`AuditLedger` read the log that `EventStore` leaves: positions are drawn in a transaction, commit in any order
across streams, or are rolled back (`Draw`, `CommitAppend`, `RollbackAppend`). `WhatIf` and `CausalChain` extend
`LoanCommands`: their input is every history the handlers can leave, not a chosen one. `ReadModels` details the
transaction that `ProjectionDaemon` has as `Apply` and `Commit`, for the two projections that write one table.

An operator whose comment begins "Mutation of" (`AbortKeepingLock`, `ReviewGateOpen`, ...) is not used by any
specification. It is a plausible bug, kept beside the definition it would replace; with it in place the property
named for it in `PROJECT.json` fails.

### EventStore

`pc[w]` walks through the statements; `rows[w]`, `sent[w]` are the uncommitted rows of a transaction, which
others do not see; `lock[s]` is the row lock that `SELECT .. FOR UPDATE` and the insert into `event_streams`
take and that commit and rollback release. `Commit` has two results: the caller is told, or its
connection is lost after the server has committed. `expected_version` comes from a set that holds right,
stale, future and new-stream values. The abstract `AtomicLog` sees `reply`: in the mapping `RefinesAtomicLog`
an append happens at `Commit` and a refusal where the gate raises. `Logs` and `Calls` are that mapping.

### LoanCommands

Streams `loan`, `fraud`, `compliance` and one per agent session hold events with their type, global position
and the fields a rule reads. `LoanOf`, `AgentOf`, `Required`, `Passed` replay aggregates; an event the state
machine refuses sets `ok` to FALSE, which is `DomainError` on every later load. `seen[c]` is what a handler
has loaded. Callers are *disciplined* when they check the preconditions that the tool descriptions in
`src/mcp/tools.py` state (at the moment of the call, which is all a caller can do), and careless otherwise.

Each event names its cause, as the handlers fill it in (`_last_event_id`): in one step with the append where the
expected version makes the two agree, in a step of its own where other callers can come between. A credit analysis
carries its session and model on both streams it is appended to, as its payload does. A caller-given
`causation_id` is left out. Abstracted: amounts, texts, the recommendation with its confidence floor
(Rule 4). `ApplicationDeclined` is appended by no handler. The override branch of Rule 3 is modelled although the
loan has by then left AWAITING_ANALYSIS.

### WhatIf and CausalChain

Both read the streams of `LoanCommands` between commands (`Between`), ordered by global position. `Branches` are
the cuts a caller can ask for; the tail keeps what does not depend on the branch (`TailKept`);
`score5_infer_decision_if_orphaned` is `DecidedBy`. `Chain` is the depth-first walk with its depth limit; it is
compared with a definition by distance (`Distances`). Events of the counterfactual are another credit analysis; the
projections it is replayed on are not in the repository.

### ProjectionDaemon

`view[p][g]` and `dead[p][g]` count how often an event is in the read model and in the dead letters;
`applied`, `buried` are those of the open transaction. A failing `apply` is a choice (`Retry`,
`DeadLetter`). A tick that does not get the advisory lock returns as one that found nothing. `Truncate` waits
for transactions that have written to the read model, as TRUNCATE does, and for nothing else.

`late` and `target` are histories: events that committed behind a higher position, and what an undisturbed
rebuild has to replay.

### ReadModels

One batch per projection (the advisory lock is left to `ProjectionDaemon`), one statement per step: `Select` takes no
lock, `Upsert` waits for the row the other batch has written. A deadlock is a state in which both wait; PostgreSQL
fails either statement, ROLLBACK TO SAVEPOINT keeps the row locks, and the attempt is repeated or the event is
dead-lettered. `EventsIn` is a load of one stream, up to a position. `StateAfter` is the lifecycle rule of the summary,
with `BothScores` its test of the scores: a risk tier counts only when it is not empty (`application_summary.py:99`), and
`Tiers` holds an empty one, which nothing on the way to the event refuses. `Audited` and `OverallStatus` are the rule of
the compliance view. Left out: columns no rule reads, late commits (`ProjectionDaemon` has them), and
`rebuild_from_scratch`, which truncates the timeline and leaves the summary its status until the first batch of
the replay. Events of the loan are those its aggregate accepts.

### AuditLedger

An event is its stream, whether its payload names the entity, and its correlation id; a read returns its
position and how often its payload was changed, and a hash is a record of what it digests (a hash never
collides, payloads of different events differ). `recorded_at` is `clock_timestamp()` at the insert and is
taken to order events like the positions drawn there. A tampering is an UPDATE outside the store, as in
`tests/test_audit_chain.py`.

### GasTown

The session is a sequence of events; `Reconstruct` returns positions instead of text, and the budget is arithmetic
on lengths (`Tokens`, `Trimmed`, `ReportedTokens`). The agent is external: it records a node when it ran and its output
when it is durable, as `tests/test_gas_town.py` does, and a new process goes on from what the memory says.

## 3. Runs

Passing runs:

| Run | Question | Instance |
|---|---|---|
| EventStore | do concurrent transactions and an archiver keep positions, outbox and locks in order; is `append` indivisible, honest and live? | 2 writers, 1 stream, batches of 0-2, 3 positions, fairness: 140,493 states |
| LoanLifecycle | does a careful single caller, crashing once anywhere, keep the application replayable and the rules; what do what-if and the causal chain make of each history? | 12 commands to choose from, 7 issued, 1 crash: 468,380 states |
| LoanRaces | what survives two careless callers? | 14 commands, 3 issued, 1 crash, two starting stores: 865,719 states |
| Daemon | do checkpoint and read model agree under competition, failure, crash, late commits and a rebuild? | 2 runners, 3 positions, 2 open appends, batch 2, 1 retry, 1 crash, 1 rebuild: 225,120 states |
| ReadModels | do two projections that write one table keep it true, deadlock or not? | 2 applications, 2 risk tiers, 4 starting logs, up to 6 events (7 in one log), batch 4, 1 retry, 1 crash, fairness: 273,833 states |
| Audit | are timelines complete and verdicts sound under concurrency? | 2 checkers, 3 checks of either kind, 2 positions, page 1, 1 tampering |
| GasTown | is a memory complete, and is an unfinished node taken up again? | 2 nodes, 1 tool, 5 events, 2 crashes |

Why the bounds are enough: a race needs two actors; batches of two show numbering and atomicity; three positions
allow a batch cut by its limit with a late commit below it; three commands allow a complete analysis (start,
credit, fraud) or a complete verdict (check, decide, review) in any interleaving; a deadlock needs two rows locked in
opposite orders, which the log `CrossedLog` has; a node that is run, written, run again after a crash and hidden by a foreign
event takes five events. Where a property is proved as well, the bound matters no further. `MaxSeq`,
`MaxCommands`, `MaxEvents`, `MaxInFlight`, `MaxCrashes`, `MaxRebuilds`, `MaxChecks`, `MaxTampers` are bounds of the model;
`MaxRetries`, `BatchSize`, `PageSize` are parameters of the code. Starting stores are built event by event as the handlers
append them, so that a run need not spend its commands on reaching them. Checkers (Audit) and callers (LoanRaces) are interchangeable in
the specification and in every property, so those runs use symmetry. Callers, checkers, agents and appends stop when
their bound is used up, so the Loan, Audit, ReadModels and GasTown runs do not check for deadlock; the
others do. Deadlocks of ReadModels' transactions are a liveness question there (`EveryBatchEnds`).

Properties that took thought:

* `RefinesAtomicLog`: all of `append` maps to one step or none; a caller told "ok" was appended, a caller
  told "conflict" was not.
* `StreamOrderIsGlobalOrder`: stream order and global order agree within a stream. Read models fold events by global
  position and aggregates by stream position; they can agree only because of it. (Rule 3 compares positions across two
  streams, `agent_session.py:130`, where commits may be out of order; the property says nothing of that.)
* `ViewMatchesCheckpoint`: what is at or below the checkpoint was counted or dead-lettered exactly once.
* `CountedAtMostOnce`: holds even for late commits and for a rebuild under a running tick.
* `EvidenceOnlyGrows`: consecutive valid ledger checks agree on every payload, so an edit cannot slip
  between two checks, nor under one.
* `CreditIsBackedBySession`: the n-th credit analysis of a session on the loan comes after at least n that the session
  recorded with its model, also when a call conflicts or dies between its two appends: none on the loan is made up, and no
  two mirror the same one.
* `ApprovalHadPassed`: what is left of Rule 5 under concurrency.
* `NothingDangles`: whatever a crash left, no event of a counterfactual names a dropped event as its cause.
* `ChainIsDownstream`: the chain of causes is the set of events at a bounded distance, each once, causes first.
* `StatusMirrorsTimeline`: the row another projection upserts from a stale SELECT still shows the last snapshot
  after every daemon batch.
* `SummaryFollowsLoan`: two rules for one state agree, with one exception that the property spells out: the aggregate
  takes a credit analysis without a risk tier (`loan_application.py:98`), the summary does not and shows
  AWAITING_ANALYSIS until the review starts.
* `PassedMeansGateOpen`: the timeline never shows PASSED where Rule 5 would have refused. The converse is false:
  the timeline counts failures, the gate does not.
* `UnfinishedNodeIsResumed`: across crashes and repeated runs of a node, until someone else's event follows it.

Violations, each a disagreement between the code and what its documentation says, met while modelling:

| Run | What happens |
|---|---|
| LoanDoubleDecision | `generate_decision` reloads the loan for its version and does not look at its state: two decisions, and the loan cannot be loaded again |
| LoanAnalysisLock | Rule 3 looks at session events loaded before the version that fences the append |
| LoanStaleApproval | a compliance request between Rule 5's read and the approval |
| DaemonLoss | an event that commits behind the checkpoint, or that a rebuild truncates under a tick, is never projected |
| AuditFalseAlarm | without concurrency or tampering: the second check loads whole streams the first one only found events of, the prefix it compares has changed, and the ledger is closed for good |

Seen as well, without a run: no document says otherwise, or the cause is that of a run above.

* A review requested or recorded twice (`handlers.py:465`, `:503`), two credit analyses by two sessions (`:183`), an
  application left in ANALYSIS_COMPLETE by a crash before the bridge (`:197`).
* Copies of a fraud screening that a failed handler leaves out (`handlers.py:295`) stay out: `FraudSummaryFollowsLoan`
  says that copies never run ahead of the loan, and no more.
* The loan's credit event may name another caller's event as its cause: the id is read back as the last of the
  session (`:181`).
* A ledger check after a tool check always reports tampering because the two use different hashes, and the tool
  appends without `assert_append_only`, which "must be called at the start of every command that writes to this
  stream" (`audit_ledger.py:98`).
* A healthy event is dead-lettered when the deadlock of two batches meets it on every attempt, since ROLLBACK TO
  SAVEPOINT keeps the locks it needs gone (`daemon.py:142`).
* An event of a command handler, or AgentSessionFailed, after an unfinished node hides it: the session counts as
  consistent (`gas_town.py:107`).
* HumanReviewCompleted names no cause, so it outlives the decision it reviewed in a counterfactual; and pruning drops an
  independent event whose handler happened to find a dropped one last on the stream, because a cause is the last
  event. `_agent_metadata_rows` looks for AgentContextLoaded, which the loader of the what-if timeline never returns.

## 4. Fairness

* EventStore: strong fairness of each call's next statement. asyncio runs a started coroutine on, and
  PostgreSQL queues those who wait for a row lock; strong, because a waiting statement is enabled and
  disabled as others take the lock. `Call`, `Archive` and `Abort` are not fair.
* ProjectionDaemon: weak fairness of a started call; strong fairness of starting a tick for each projection,
  because `run_forever` loops over all of them. Appends, crashes and rebuilds are not fair.
* ReadModels: weak fairness of each batch's next statement. asyncio runs a batch on; PostgreSQL wakes a waiter when
  the row is free and breaks a deadlock. Starting batches, appends and crashes are not fair.
* `LoanCommands`, `AuditLedger` and `GasTown` are checked for safety only, under no fairness.

## 5. Proofs

Every theorem rests on the assumptions its module makes of its constants and on nothing else; TLC evaluates those
assumptions on the instances of the runs.

`EventStoreProofs`, for any writers, streams and expected versions, any batch size and number of events:

* `IndInvariant`: `Spec => []IndInv`, and from it `TypeCorrect`, `Contiguous` (positions of a stream are
  1..version), `OrderAgrees` (stream order is global order), `NoCollision` (uncommitted rows collide with nothing:
  the unique constraint on positions never has to refuse what the gate admitted), `OutboxExact` (the outbox lists
  exactly the committed events), and `ArchiveIsFinal` (a step never adds to an archived stream or takes it out
  of the archive).

`IndInv` is the conjunction of `TypeOK`; `LockInv` (a lock is held exactly by the call that is between taking
it and its end); `CallInv` (what the phase of a call says about its request: the stream exists, is not
archived, and `base` is still the current version, because the lock is held); `BufferInv` (the uncommitted
rows are `base+1 .. base+ordinal` with rising global positions, all drawn after the committed ones of the
stream); `DrawnInv` (no global position is used twice); `TableInv` (the committed tables agree). The
properties alone are not inductive: contiguity after a commit needs to know that `base` is still the version,
which needs the lock, which needs to know who holds it. There is one lemma per action and one step per
conjunct it can disturb.

In the same module, the refinement:

* `ImplementsAtomicLog`: `Spec => RefinesAtomicLog`. `Commit` is the indivisible append, steps that end a call
  without it are refusals, archiving is archiving, and the statements in between stutter. That the rows of a
  commit extend the abstract log at its end, and that a position keeps its row, is `IndInv`.

`LoanCommandsProofs`, for any callers, sessions, commands, crashes and disciplines:

* `LoanInvariant`: `Spec => []LoanInv`, and from it `SessionsAreAnchored`, `ModelsAreLocked`, `DecisionsAreCaused`,
  `ApprovalsAreGated`: four of the seven properties of `LoanRaces`. The other three, and what holds for a single caller,
  need the replayed loan or a count: see below.

`LoanInv` is `StoreInv` (the laws of the store: `AnchoredFirst`, `OneModel`, ...) with `CallInv`: a call is at a step of
its own command (`Commanded`), and what a handler saw before its append is still so (`Knows`). Loads are stale when used;
the proof shows which are not harmed by it: streams only grow, so an anchor, an analysis, or a moment at which the
gate was open stays. Only the first append to a session needs the version gate, which lets one anchor in. What
`Knows` does not keep is what the violating runs show. The starting stores must keep the laws
(`StoreAssumption`), which include that positions are drawn once (`OnePosition`) and that a cause is an earlier event
(`CausesPrecede`); the empty store does, and the handlers keep them.

`AggregatesProofs` has no theorem of its own. It shows what `LoanOf` does with one more event (`LoanOfAppend`), by an
induction over the naturals that rests on their well-foundedness, and what a loan that can be replayed says of its stream
(`Shape`): which events precede its state, that a decision follows a credit analysis, and that a refused event stays
refused.

In `LoanCommandsProofs` again, for any callers, sessions, commands and crashes:

* `StateInvariant`: `Spec => [](StateInv /\ CopiesInv)`, and from it `CommandsTypeCorrect`, `BridgeIsUnique` (one
  ComplianceReviewStarted, however many handlers see the analysis complete), `CopiesFollow` (a screening summary on the
  fraud or session stream follows one on the loan) and `BrokenLoansAreFrozen` (nothing is appended to a loan that cannot
  be replayed).
* `OneCallerKeepsLoan`, `OneCallerAnalysesOnce`, `OneCallerApprovesRightly`, from `OrderInvariant`: the properties of
  `LoanLifecycle`, for any commands and crashes.
* `CreditsInvariant`: `Spec => []CreditsInv`, and from it `CreditsAreBacked` (`CreditIsBackedBySession`).

`StateInv` has the shape of the loan stream and what a call knows of the loan it loaded. The bridge is unique because a
handler appends it at the version of a load that shows a state no bridge precedes, and of two appends at one version the
gate admits one. `CopiesInv` counts: the screenings on a stream, and the calls that have yet to append
theirs there, are together no more than the screenings on the loan; a crash takes a call out of the count and adds nothing.
`CreditsInv` counts the other way round: the analyses of a session on the loan, and the calls that have recorded one there
and have yet to show it on the loan, are together no more than the session has recorded. The calls
are counted because a handler records its analysis in one step and shows it in a later one.
The three about one caller have a hypothesis, `OneOrderlyCaller`: at most one caller, who keeps the preconditions the tools document,
on stores with at most one credit analysis and with approvals that the checks before them support. The instance of
`LoanLifecycle` is one such. Two callers can break all three: `LoanDoubleDecision`, `LoanStaleApproval` and the two
credit analyses of section 3. `OrderInv` says at each step of the caller's handler what state the loan is in (`Ready`).

`WhatIfProofs`, about the histories of any callers, sessions, commands and crashes:

* `CausesLeadBack`: `Spec => []CauseInv`. Every event draws a position of its own, in the order of its stream, and names
  an earlier event as its cause; a decision names the event of the loan just before it. Inductive because what a call
  will name as a cause (`seen[c].cause`) was the last event of a stream when it was loaded, so it is older than the
  position the append draws.
* `CounterfactualsAreClosed` (`NothingDangles`) and `ChainsAreDownstream` (`ChainIsDownstream`).
* `DecisionsAreReplaced` (`DecisionIsReplaced`), under `OneOrderlyCaller`, which gives a loan that can be replayed and has
  at most one credit analysis: a second analysis, whose cause is on its own session, may outlive the cut of the first.

All three rest on one fact about a merged history, `Dated`: its records are in the order of their positions, each after
its cause. `HistoryFacts` shows it of the streams merged and filtered, from `CauseInv`. That the anchors are a suffix of
such a history makes dependence on them closed under effects. For the chain, a step count to an event's ancestor (`StepsFrom`)
is one more than that of its cause (`StepsFacts`), and also one more than that from the child it runs through
(`StepsDown`); siblings are apart and have no descendant in common (`ChildrenApart`, `OneParent`), so the walks behind the
children join into one sequence without repetition (`JoinTrees`), which is the claim for one more level (`BehindFacts`). The
recursive functions inside the operators (`Keep`, `DependsOnAnchor`, `Distances`, `Behind`, `Chain`) are `CHOOSE`s: a lemma
each shows that what is chosen exists (`KeptExists`, `ReachingExists`, ...).

`ProjectionDaemonProofs`, for any runners, projections, batch sizes, appends, crashes and rebuilds (the run has one
rebuild):

* `TypeCorrect`, `NothingCountedTwice`, `CheckpointAdvances`, from `TablesInv`: who holds an advisory lock, what a
  transaction has in hand lies between the checkpoint it found and the rest of its batch, and the read model counts
  nothing beyond its checkpoint.
* `ViewIsExact`, with `ViewInv`: until the first rebuild every open transaction passes the events that are not late
  without a gap (`PassesInOrder`). The property is about the tables between commits; that a commit keeps it
  depends on what the transaction did since its `SELECT`.
* `RebuildIsComplete`, with `TargetInv`: an undisturbed rebuild has projected its target up to the checkpoint, and
  nobody else holds the lock.

`ReadModelsProofs`, for any applications, rules, batch sizes, retries, crashes and lengths of the log:

* `ReadInvariant`: `Spec => []ReadInv`, and from it `ReadTypeCorrect`, `StatusMirrors`, `SummaryFollows` and
  `PassedIsGated`: all safety properties of the run.

The properties speak of committed tables, which change at a commit only; `ReadInv` says what a transaction has in hand
before it. `BatchInv` says where a batch stands (`Position`). `RowInv` says that of one row of the summary at most one
transaction holds a version, and that this version has the other's columns as they are committed: so what a SELECT
without a lock returned is out of date, when it is upserted, only in columns the upsert does not take from it
(`SeenLoan`, `SeenChecks`). `LifeInv` and `ChecksInv` say that the row and the snapshots are the folds of the events up to
`Position`, unless one was dead-lettered; the summary's rule for the lifecycle and the aggregate's agree, but for an analysis
without a risk tier, by cases on the event that is added. Assumed of the log (`IsLog`, and the guard of `AppendEvent`): a loan can be replayed at every
position, as the aggregates see to unless two callers race (`LoanDoubleDecision`); what the summary shows of a loan that
cannot be loaded is nobody's claim.

`AuditLedgerProofs`, for any checkers, streams and events, any page size and number of checks:

* `LedgerInvariant`: `Spec => []LedgerInv`, and from it `StopsAtInvalid` (once a recorded check is invalid the ledger
  records nothing more) and `EvidenceGrows` (a valid ledger check has verified every payload that the ledger check
  just before it had).
* `TimelinesAreComplete` and `TypeCorrect`, from `BookInvariant`: what a check has found so far and how far its paged scan
  is. Whatever had committed when the scan began is found or still ahead of it; later commits may fall behind it, and the
  property does not ask for them.
* `NoAccusation`, with `ClaimsInv`: while no payload has changed and only the tool runs, what any two checks digested is
  nested, one in the other, because the primary stream only grows. So equal numbers of events are the same events, and
  the hashes agree, although the tool reads events, trail and version at three moments.

`LedgerInv` says of a check between `load` and its append that it knows the trail it loaded (`KnowsTrail`: all
valid up to that version, and the last hash and count), and of each recorded ledger check that its count is
that of its contents, that all before it are valid and that it contains its predecessor (`RecordedInOrder`).
The version gate closes the gap: an append succeeds only if the trail is still the one that was loaded. The
contents must be finite, because a prefix of as many events as before says something only then. A page of
`load_all` may replace what a stream load returned, so containment is not kept while a check runs: it follows
from the comparison of hashes at the end.

`GasTownProofs`, for any nodes, tools, crashes and session lengths:

* `TypeCorrect`; `MemoryIsComplete` (a reconstruction accounts for every event once and never folds a failed or
  unfinished step into the summary).
* `UnfinishedNodeSurvives`, from `OneAtATime`: after an unfinished node only further runs of it follow, and the
  running agent is at it. Needed because what a successor is told depends on the last events alone.
* `BudgetIsKept`: arithmetic of the budget, for any lengths; no run checks it. It has a precondition: the summary must
  be long enough to give way.

Only model-checked: liveness, which is out of the prover's reach (`EveryCallReturns`, `EveryEventIsProjected`,
`EveryBatchEnds`). Every safety invariant and action property of a passing run, and the refinement, is a theorem. What the
violating runs check is false.

## 6. Not modelled

* Connection pool: `append` asks `stream_version` for a second connection while it holds one. Size and waiting
  are those of `asyncpg`, outside the repository.
* Upcasting: defaults for fields no rule reads. The one upcast that reads other streams concerns version 1 of
  `DecisionGenerated`, which no handler writes.
* Regulatory package: formatting around the timeline (`WhatIf`) and the hash chain (`AuditLedger`); the
  projections it shows are not in the repository.
* Rows of `AgentPerformanceLedger`: only how often an event is counted, in `ProjectionDaemon`.
* A rebuild of the compliance timeline in `ReadModels` (`compliance_audit.py:281`); `ProjectionDaemon` has the rebuild of
  checkpoint and view.
* The cut of a causal chain at a stream the ledger does not know (`audit_ledger.py:281`): the histories here hold none.
* Rule 4 and the recommendation: a comparison of one number in one place, with no other state involved.
* MCP argument parsing, resources, error texts and lag metrics: reads and formatting. Metadata columns.
* Data generation: appends in a loop.

## 7. Plan

Done: the event store with its abstract specification, the handlers, the daemon, the read models, the audit
ledger, Gas Town, what-if and the causal chain, with the proofs above. Left:

1. `ConnectionPool`: `append` with two connections, once the repository sets the pool's size where it is used.
2. `Upcasting` and `RegulatoryPackage`, once the modules they refer to are in the repository.
