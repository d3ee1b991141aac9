--------------------------- MODULE ProjectionDaemon ---------------------------
(***************************************************************************)
(* ProjectionDaemon.run_once, run_forever and run_catch_up                 *)
(* (src/projections/daemon.py) and ComplianceAuditView.rebuild_from_scratch *)
(* (src/projections/compliance_audit.py), run by several processes while   *)
(* transactions append to the event store.                                 *)
(*                                                                         *)
(* The log is what EventStore leaves of it: a global position is drawn     *)
(* inside a transaction, and commits or is rolled back later.  A read      *)
(* model is how often it has counted each event.                           *)
(***************************************************************************)
EXTENDS Integers, FiniteSets

CONSTANTS
  Projections,    \* projection names
  Rebuildable,    \* those rebuild_from_scratch is called for
  Runners,        \* processes that call the daemon
  None,           \* "nobody holds the advisory lock"
  Modes,          \* how runners are called: some of "tick", "catch_up", "rebuild"
  BatchSize,      \* batch_size
  MaxRetries,     \* max_retries
  MaxEvents,      \* bound: global positions drawn
  MaxInFlight,    \* bound: append transactions open at a time
  MaxCrashes,     \* bound: runners that crash
  MaxRebuilds     \* bound: rebuilds

ASSUME DaemonAssumption ==
  /\ Rebuildable \subseteq Projections
  /\ None \notin Runners
  /\ Modes \subseteq {"tick", "catch_up", "rebuild"}
  /\ BatchSize \in Nat \ {0}
  /\ {MaxRetries, MaxEvents, MaxInFlight, MaxCrashes, MaxRebuilds} \subseteq Nat

VARIABLES
  \* the log
  drawn,       \* last global position drawn
  open,        \* positions drawn by transactions that have not ended
  committed,   \* positions of the rows of events
  late,        \* history: positions that committed after a higher one
  \* tables
  lock,        \* lock[p]: the session that holds the advisory lock of p
  checkpoint,  \* projection_checkpoints.last_position
  view,        \* view[p][g]: how often event g is counted in the read model
  dead,        \* dead[p][g]: rows of projection_dead_letter
  \* one call per runner
  pc,          \* next step
  job,         \* [mode, projection]
  last,        \* the checkpoint as run_once read it, then the last event passed
  batch,       \* events fetched and not yet passed
  attempts,    \* failed attempts at the first of them
  applied,     \* events applied in the open transaction
  buried,      \* events dead-lettered in the open transaction
  target,      \* history: what a rebuild, if nobody disturbs it, has to replay
  crashes, rebuilds

log == <<drawn, open, committed, late>>
tables == <<checkpoint, view, dead>>
call == <<job, last, batch, attempts, applied, buried, target>>
bounds == <<crashes, rebuilds>>
vars == <<log, lock, tables, pc, call, bounds>>

Positions == 1..MaxEvents

NoJob == [mode |-> "none", projection |-> None]

Steps == {"idle", "try_lock", "truncate", "read_checkpoint", "fetch", "apply", "commit",
          "unlock", "unlock_idle", "rebuilt"}

TypeOK ==
  /\ drawn \in 0..MaxEvents
  /\ open \subseteq 1..drawn
  /\ committed \subseteq 1..drawn
  /\ late \subseteq committed
  /\ lock \in [Projections -> Runners \cup {None}]
  /\ checkpoint \in [Projections -> 0..MaxEvents]
  /\ view \in [Projections -> [Positions -> Nat]]
  /\ dead \in [Projections -> [Positions -> Nat]]
  /\ pc \in [Runners -> Steps]
  /\ job \in [Runners -> [mode : Modes, projection : Projections] \cup {NoJob}]
  /\ last \in [Runners -> 0..MaxEvents]
  /\ {batch, applied, buried, target} \subseteq [Runners -> SUBSET Positions]
  /\ attempts \in [Runners -> 0..MaxRetries]
  /\ crashes \in 0..MaxCrashes
  /\ rebuilds \in 0..MaxRebuilds

Nowhere == [g \in Positions |-> 0]

Init ==
  /\ drawn = 0
  /\ open = {}
  /\ committed = {}
  /\ late = {}
  /\ lock = [p \in Projections |-> None]
  /\ checkpoint = [p \in Projections |-> 0]
  /\ view = [p \in Projections |-> Nowhere]
  /\ dead = [p \in Projections |-> Nowhere]
  /\ pc = [r \in Runners |-> "idle"]
  /\ job = [r \in Runners |-> NoJob]
  /\ last = [r \in Runners |-> 0]
  /\ batch = [r \in Runners |-> {}]
  /\ attempts = [r \in Runners |-> 0]
  /\ applied = [r \in Runners |-> {}]
  /\ buried = [r \in Runners |-> {}]
  /\ target = [r \in Runners |-> {}]
  /\ crashes = 0
  /\ rebuilds = 0
-------------------------------------------------------------------------------
(* Appends *)

Draw ==
  /\ drawn < MaxEvents
  /\ Cardinality(open) < MaxInFlight
  /\ drawn' = drawn + 1
  /\ open' = open \cup {drawn + 1}
  /\ UNCHANGED <<committed, late, lock, tables, pc, call, bounds>>

CommitAppend(g) ==
  /\ open' = open \ {g}
  /\ committed' = committed \cup {g}
  /\ late' = IF \E h \in committed : h > g THEN late \cup {g} ELSE late
  /\ UNCHANGED <<drawn, lock, tables, pc, call, bounds>>

RollbackAppend(g) ==
  /\ open' = open \ {g}
  /\ UNCHANGED <<drawn, committed, late, lock, tables, pc, call, bounds>>
-------------------------------------------------------------------------------
(* run_once *)

Goto(r, step) == pc' = [pc EXCEPT ![r] = step]

Projection(r) == job[r].projection

(* A call for projection p: one tick of run_forever, run_catch_up, or a      *)
(* rebuild, which truncates the read model before it catches up.             *)
Start(r, p, mode) ==
  /\ pc[r] = "idle"
  /\ IF mode = "rebuild"
     THEN /\ p \in Rebuildable
          /\ rebuilds < MaxRebuilds
          /\ rebuilds' = rebuilds + 1
          /\ Goto(r, "truncate")
     ELSE Goto(r, "try_lock") /\ UNCHANGED rebuilds
  /\ job' = [job EXCEPT ![r] = [mode |-> mode, projection |-> p]]
  /\ UNCHANGED <<log, lock, tables, last, batch, attempts, applied, buried, target, crashes>>

EndJob(r) ==
  /\ Goto(r, "idle")
  /\ job' = [job EXCEPT ![r] = NoJob]

(* run_once returns the number of events it passed; run_catch_up calls it    *)
(* again until that is 0.                                                    *)
Return(r, processed) ==
  IF processed /\ job[r].mode # "tick"
  THEN Goto(r, "try_lock") /\ UNCHANGED job
  ELSE IF job[r].mode = "rebuild"
       THEN Goto(r, "rebuilt") /\ UNCHANGED job
       ELSE EndJob(r)

(* Mutation of TryLock: the result of pg_try_advisory_lock is ignored. *)
TryLockIgnored(r) ==
  /\ pc[r] = "try_lock"
  /\ lock' = [lock EXCEPT ![Projection(r)] = r]
  /\ Goto(r, "read_checkpoint")
  /\ UNCHANGED <<log, tables, job, last, batch, attempts, applied, buried, target, bounds>>

(* pg_try_advisory_lock: it does not wait; without the lock the tick is      *)
(* skipped, and counts as one that found no events.                          *)
TryLock(r) ==
  LET p == Projection(r)
  IN /\ pc[r] = "try_lock"
     /\ IF lock[p] = None
        THEN /\ lock' = [lock EXCEPT ![p] = r]
             /\ target' = [q \in Runners |-> IF q # r /\ Projection(q) = p THEN {} ELSE target[q]]
             /\ Goto(r, "read_checkpoint")
             /\ UNCHANGED job
        ELSE Return(r, FALSE) /\ UNCHANGED <<lock, target>>
     /\ UNCHANGED <<log, tables, last, batch, attempts, applied, buried, bounds>>

ReadCheckpoint(r) ==
  /\ pc[r] = "read_checkpoint"
  /\ last' = [last EXCEPT ![r] = checkpoint[Projection(r)]]
  /\ Goto(r, "fetch")
  /\ UNCHANGED <<log, lock, tables, job, batch, attempts, applied, buried, target, bounds>>

(* WHERE global_position > last ORDER BY global_position ASC LIMIT batch_size *)
Window(from) ==
  {g \in committed : g > from /\ Cardinality({h \in committed : h > from /\ h <= g}) <= BatchSize}

Fetch(r) ==
  /\ pc[r] = "fetch"
  /\ batch' = [batch EXCEPT ![r] = Window(last[r])]
  /\ Goto(r, IF Window(last[r]) = {} THEN "unlock_idle" ELSE "apply")
  /\ UNCHANGED <<log, lock, tables, job, last, attempts, applied, buried, target, bounds>>

Current(r, g) == g \in batch[r] /\ \A h \in batch[r] : g <= h

(* The event is done with: the loop takes the next one, or ends. *)
Pass(r, g) ==
  /\ last' = [last EXCEPT ![r] = g]
  /\ batch' = [batch EXCEPT ![r] = @ \ {g}]
  /\ attempts' = [attempts EXCEPT ![r] = 0]
  /\ IF batch[r] = {g} THEN Goto(r, "commit") ELSE UNCHANGED pc

(* SAVEPOINT, handler.apply, RELEASE SAVEPOINT *)
Apply(r, g) ==
  /\ pc[r] = "apply"
  /\ Current(r, g)
  /\ applied' = [applied EXCEPT ![r] = @ \cup {g}]
  /\ Pass(r, g)
  /\ UNCHANGED <<log, lock, tables, job, buried, target, bounds>>

(* Mutation of Retry: one attempt too many. *)
RetryOnceMore(r, g) ==
  /\ pc[r] = "apply"
  /\ Current(r, g)
  /\ attempts[r] <= MaxRetries
  /\ attempts' = [attempts EXCEPT ![r] = @ + 1]
  /\ UNCHANGED <<log, lock, tables, pc, job, last, batch, applied, buried, target, bounds>>

(* handler.apply raises: ROLLBACK TO SAVEPOINT and try again. *)
Retry(r, g) ==
  /\ pc[r] = "apply"
  /\ Current(r, g)
  /\ attempts[r] < MaxRetries
  /\ attempts' = [attempts EXCEPT ![r] = @ + 1]
  /\ UNCHANGED <<log, lock, tables, pc, job, last, batch, applied, buried, target, bounds>>

(* The last attempt failed too: the event goes to the dead letters. *)
DeadLetter(r, g) ==
  /\ pc[r] = "apply"
  /\ Current(r, g)
  /\ attempts[r] = MaxRetries
  /\ buried' = [buried EXCEPT ![r] = @ \cup {g}]
  /\ Pass(r, g)
  /\ UNCHANGED <<log, lock, tables, job, applied, target, bounds>>

Count(counts, set) == [g \in Positions |-> counts[g] + (IF g \in set THEN 1 ELSE 0)]

DropTransaction(r) ==
  /\ batch' = [batch EXCEPT ![r] = {}]
  /\ attempts' = [attempts EXCEPT ![r] = 0]
  /\ applied' = [applied EXCEPT ![r] = {}]
  /\ buried' = [buried EXCEPT ![r] = {}]

(* Mutation of Commit: the checkpoint is set to the head of the log. *)
CommitToHead(r) ==
  LET p == Projection(r)
  IN /\ pc[r] = "commit"
     /\ view' = [view EXCEPT ![p] = Count(@, applied[r])]
     /\ dead' = [dead EXCEPT ![p] = Count(@, buried[r])]
     /\ checkpoint' = [checkpoint EXCEPT ![p] = drawn]
     /\ DropTransaction(r)
     /\ Goto(r, "unlock")
     /\ UNCHANGED <<log, lock, job, last, target, bounds>>

(* UPDATE projection_checkpoints, then COMMIT: the read model, the dead      *)
(* letters and the checkpoint change together.                               *)
Commit(r) ==
  LET p == Projection(r)
  IN /\ pc[r] = "commit"
     /\ view' = [view EXCEPT ![p] = Count(@, applied[r])]
     /\ dead' = [dead EXCEPT ![p] = Count(@, buried[r])]
     /\ checkpoint' = [checkpoint EXCEPT ![p] = last[r]]
     /\ DropTransaction(r)
     /\ Goto(r, "unlock")
     /\ UNCHANGED <<log, lock, job, last, target, bounds>>

(* finally: pg_advisory_unlock, after a batch or when there was none. *)
Unlock(r) ==
  /\ pc[r] \in {"unlock", "unlock_idle"}
  /\ lock' = [lock EXCEPT ![Projection(r)] = None]
  /\ Return(r, pc[r] = "unlock")
  /\ last' = [last EXCEPT ![r] = 0]
  /\ UNCHANGED <<log, tables, batch, attempts, applied, buried, target, bounds>>

(* Mutation of Crash: the advisory lock survives the session. *)
CrashKeepingLock(r) ==
  /\ pc[r] # "idle"
  /\ crashes < MaxCrashes
  /\ crashes' = crashes + 1
  /\ DropTransaction(r)
  /\ last' = [last EXCEPT ![r] = 0]
  /\ target' = [target EXCEPT ![r] = {}]
  /\ EndJob(r)
  /\ UNCHANGED <<log, lock, tables, rebuilds>>

(* The process dies or loses its connection: the server rolls the            *)
(* transaction back and drops the session's advisory lock.                   *)
Crash(r) ==
  /\ pc[r] # "idle"
  /\ crashes < MaxCrashes
  /\ crashes' = crashes + 1
  /\ lock' = [p \in Projections |-> IF lock[p] = r THEN None ELSE lock[p]]
  /\ DropTransaction(r)
  /\ last' = [last EXCEPT ![r] = 0]
  /\ target' = [target EXCEPT ![r] = {}]
  /\ EndJob(r)
  /\ UNCHANGED <<log, tables, rebuilds>>
-------------------------------------------------------------------------------
(* rebuild_from_scratch *)

(* History: another rebuild of p, or a tick that runs, disturbs this one. *)
StartTarget(r, p) ==
  target' = [q \in Runners |->
               IF q = r THEN (IF lock[p] = None THEN committed ELSE {})
               ELSE IF Projection(q) = p THEN {} ELSE target[q]]

(* Mutation of Truncate: the checkpoint is not reset. *)
TruncateOnly(r) ==
  LET p == Projection(r)
  IN /\ pc[r] = "truncate"
     /\ view' = [view EXCEPT ![p] = Nowhere]
     /\ StartTarget(r, p)
     /\ Goto(r, "try_lock")
     /\ UNCHANGED <<log, lock, checkpoint, dead, job, last, batch, attempts, applied, buried, bounds>>

(* TRUNCATE and the checkpoint reset, one transaction.  TRUNCATE waits for   *)
(* transactions that have written to the read model; it takes no advisory    *)
(* lock.                                                                     *)
Truncate(r) ==
  LET p == Projection(r)
  IN /\ pc[r] = "truncate"
     /\ \A q \in Runners : Projection(q) = p => applied[q] = {}
     /\ view' = [view EXCEPT ![p] = Nowhere]
     /\ checkpoint' = [checkpoint EXCEPT ![p] = 0]
     /\ StartTarget(r, p)
     /\ Goto(r, "try_lock")
     /\ UNCHANGED <<log, lock, dead, job, last, batch, attempts, applied, buried, bounds>>

EndRebuild(r) ==
  /\ pc[r] = "rebuilt"
  /\ EndJob(r)
  /\ target' = [target EXCEPT ![r] = {}]
  /\ UNCHANGED <<log, lock, tables, last, batch, attempts, applied, buried, bounds>>
-------------------------------------------------------------------------------

Step(r) ==
  \/ Truncate(r)
  \/ TryLock(r)
  \/ ReadCheckpoint(r)
  \/ Fetch(r)
  \/ \E g \in batch[r] : Apply(r, g) \/ Retry(r, g) \/ DeadLetter(r, g)
  \/ Commit(r)
  \/ Unlock(r)
  \/ EndRebuild(r)

Append == Draw \/ \E g \in open : CommitAppend(g) \/ RollbackAppend(g)

Next ==
  \/ Append
  \/ \E r \in Runners :
       \/ \E p \in Projections, mode \in Modes : Start(r, p, mode)
       \/ Step(r)
       \/ Crash(r)

Spec == Init /\ [][Next]_vars

(* A started call is run on by asyncio; run_forever comes back to every      *)
(* projection, so some runner keeps starting ticks for it.                   *)
Fairness ==
  /\ \A r \in Runners : WF_vars(Step(r))
  /\ \A p \in Projections : SF_vars(\E r \in Runners : Start(r, p, "tick"))

FairSpec == Spec /\ Fairness
-------------------------------------------------------------------------------

Projected(p, g) == view[p][g] > 0 \/ dead[p][g] > 0

(* The checkpoint says exactly what the read model contains: every event up  *)
(* to it was counted or dead-lettered once, and none beyond it, although     *)
(* runners compete, retry and crash between their statements.  This is what  *)
(* a restart relies on when it resumes from the checkpoint.  It holds of the *)
(* events that commit in the order of their positions, until a rebuild.      *)
ViewMatchesCheckpoint ==
  rebuilds = 0 =>
    \A p \in Projections, g \in Positions \ late :
      view[p][g] + dead[p][g] = (IF g \in committed /\ g <= checkpoint[p] THEN 1 ELSE 0)

(* No event is counted twice in a read model, even where appends commit out  *)
(* of the order of their positions and a rebuild truncates under a running   *)
(* tick: the counters of AgentPerformanceLedger are not idempotent.          *)
CountedAtMostOnce ==
  \A p \in Projections, g \in Positions : view[p][g] <= 1

(* Only a rebuild moves a checkpoint back; a tick that stalls and finishes   *)
(* late does not undo what later ticks recorded.                             *)
CheckpointNeverGoesBack ==
  [][\A p \in Projections :
       checkpoint'[p] < checkpoint[p] =>
         \E r \in Runners : Projection(r) = p /\ pc[r] = "truncate" /\ pc'[r] # "truncate"]_vars

(* When a rebuild returns, every event that had committed when it truncated  *)
(* the read model has been replayed or dead-lettered, if no other runner     *)
(* held the advisory lock or truncated the read model meanwhile.             *)
RebuildReplaysEverything ==
  \A r \in Runners :
    pc[r] = "rebuilt" => \A g \in target[r] : Projected(Projection(r), g)

(* No event is lost: a committed event at or below the checkpoint, which no  *)
(* later tick reads, is in the read model or among the dead letters.  The    *)
(* README promises reads that "stay fresh without replay-on-read".           *)
NothingSkipped ==
  \A p \in Projections, g \in committed : g <= checkpoint[p] => Projected(p, g)

(* Every event that commits in order is projected or dead-lettered in the    *)
(* end, unless rebuilds interfere.                                           *)
EveryEventIsProjected ==
  \A p \in Projections, g \in Positions :
    g \in committed \ late ~> Projected(p, g) \/ rebuilds > 0
=============================================================================
