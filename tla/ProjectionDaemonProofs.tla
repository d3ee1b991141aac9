------------------------ MODULE ProjectionDaemonProofs ------------------------
(***************************************************************************)
(* Proofs about ProjectionDaemon, for any projections, runners, batch      *)
(* size, retries, and number of crashes and rebuilds: what the checkpoint  *)
(* and the read model have to do with each other.                          *)
(***************************************************************************)
EXTENDS ProjectionDaemon, FiniteSetTheorems, WellFoundedInduction, TLAPS

(* Steps at which a runner holds the advisory lock of its projection. *)
Holding == {"read_checkpoint", "fetch", "apply", "commit", "unlock", "unlock_idle"}

(* Steps at which its transaction is open. *)
Passing == {"apply", "commit"}

HolderInv ==
  \A r \in Runners, p \in Projections :
    lock[p] = r <=> pc[r] \in Holding /\ Projection(r) = p

JobInv ==
  \A r \in Runners :
    /\ pc[r] # "idle" => job[r] \in [mode : Modes, projection : Projections]
    /\ pc[r] = "truncate" => rebuilds > 0 /\ job[r].mode = "rebuild"

(* What a runner has in hand lies between the checkpoint it found and the    *)
(* events of its batch it has not come to.                                   *)
BatchOf(r) ==
  /\ pc[r] \notin Passing => batch[r] = {} /\ applied[r] = {} /\ buried[r] = {}
  /\ pc[r] = "commit" => batch[r] = {}
  /\ pc[r] \in {"fetch"} \cup Passing => checkpoint[Projection(r)] <= last[r]
  /\ last[r] = 0 \/ last[r] \in committed
  /\ \A g \in batch[r] : last[r] < g /\ g \in committed
  /\ \A g \in applied[r] \cup buried[r] :
       checkpoint[Projection(r)] < g /\ g <= last[r] /\ g \in committed
  /\ applied[r] \cap buried[r] = {}

BatchInv == \A r \in Runners : BatchOf(r)

(* The read model counts nothing beyond its checkpoint, and nothing twice. *)
CountInv ==
  \A p \in Projections :
    /\ checkpoint[p] = 0 \/ checkpoint[p] \in committed
    /\ \A g \in Positions : view[p][g] <= 1 /\ (view[p][g] > 0 => g <= checkpoint[p])

TablesInv == TypeOK /\ HolderInv /\ JobInv /\ BatchInv /\ CountInv

(* The transaction of r has passed the events of S in order. *)
PassesInOrder(r, S) ==
  LET p == Projection(r)
  IN /\ pc[r] = "fetch" => last[r] = checkpoint[p]
     /\ pc[r] \in Passing =>
          \A g \in S : checkpoint[p] < g /\ g <= last[r] => g \in applied[r] \cup buried[r]
     /\ \A b \in batch[r], g \in S : last[r] < g /\ g <= b => g \in batch[r]

(* Up to the first rebuild: so it does with all events that are not late. *)
ViewInv ==
  rebuilds = 0 =>
    /\ \A r \in Runners : PassesInOrder(r, committed \ late)
    /\ ViewMatchesCheckpoint

(* What a rebuild that nobody disturbs has done of its target. *)
TargetOf(r) ==
  LET p == Projection(r)
  IN target[r] # {} =>
       /\ job[r].mode = "rebuild" /\ pc[r] \notin {"idle", "truncate"}
       /\ lock[p] \in {None, r}
       /\ target[r] \subseteq committed
       /\ \A g \in target[r] : g <= checkpoint[p] => Projected(p, g)
       /\ PassesInOrder(r, target[r])
       /\ pc[r] \in {"unlock_idle", "rebuilt"} => \A g \in target[r] : g <= checkpoint[p]

TargetInv == \A r \in Runners : TargetOf(r)

-------------------------------------------------------------------------------
(* The query of the batch *)

LEMMA CommittedFinite ==
  ASSUME TypeOK
  PROVE  IsFiniteSet(committed) /\ committed \subseteq Nat /\ committed \subseteq Positions
<1>1. drawn \in Nat /\ drawn <= MaxEvents /\ committed \subseteq 1..drawn /\ MaxEvents \in Nat
  BY DaemonAssumption DEF TypeOK
<1>2. IsFiniteSet(1..drawn)
  BY <1>1, FS_Interval
<1>3. committed \subseteq Nat /\ committed \subseteq Positions
  BY <1>1 DEF Positions
<1> QED
  BY <1>1, <1>2, <1>3, FS_Subset

LEMMA WindowSubset ==
  ASSUME TypeOK, NEW from \in Nat
  PROVE  Window(from) \subseteq {g \in committed : g > from}
BY DEF Window

(* A batch leaves out no committed event before one it has. *)
LEMMA WindowClosed ==
  ASSUME TypeOK, NEW from \in Nat, NEW b \in Window(from),
         NEW g \in committed, from < g, g <= b
  PROVE  g \in Window(from)
<1> DEFINE upTo(k) == {h \in committed : h > from /\ h <= k}
<1>1. upTo(g) \subseteq upTo(b)
  BY CommittedFinite DEF Window
<1>2. IsFiniteSet(upTo(b)) /\ IsFiniteSet(upTo(g))
  BY CommittedFinite, FS_Subset
<1>3. /\ Cardinality(upTo(g)) <= Cardinality(upTo(b))
      /\ Cardinality(upTo(g)) \in Nat /\ Cardinality(upTo(b)) \in Nat
  BY <1>1, <1>2, FS_Subset, FS_CardinalityType
<1>4. Cardinality(upTo(b)) <= BatchSize
  BY DEF Window
<1>5. Cardinality(upTo(g)) <= BatchSize
  BY <1>3, <1>4, DaemonAssumption
<1> QED
  BY <1>5 DEF Window

LEMMA LeastNatural ==
  ASSUME NEW S \in SUBSET Nat, S # {}
  PROVE  \E m \in S : \A k \in S : m <= k
<1> DEFINE less == OpToRel(<, Nat)
<1>1. \A j, k \in Nat : <<j, k>> \in less <=> j < k
  <2>1. less = {ss \in Nat \X Nat : ss[1] < ss[2]}
    BY Zenon DEF OpToRel
  <2> HIDE DEF less
  <2> QED
    BY <2>1
<1>2. IsWellFoundedOn(less, Nat)
  BY NatLessThanWellFounded
<1> HIDE DEF less
<1>3. PICK m \in S : \A k \in S : ~ (<<k, m>> \in less)
  BY <1>2, WFMin
<1>4. \A k \in S : ~ (k < m)
  BY ONLY <1>1, <1>3, S \in SUBSET Nat, Zenon
<1> QED
  BY <1>3, <1>4

(* An empty batch means that nothing is committed after the checkpoint. *)
LEMMA WindowEmpty ==
  ASSUME TypeOK, NEW from \in Nat, Window(from) = {}
  PROVE  \A g \in committed : g <= from
<1> DEFINE After == {g \in committed : g > from}
<1> SUFFICES ASSUME After # {} PROVE FALSE
  BY CommittedFinite
<1>1. PICK m \in After : \A k \in After : m <= k
  BY CommittedFinite, LeastNatural
<1>2. {h \in committed : h > from /\ h <= m} = {m}
  BY <1>1, CommittedFinite
<1>3. Cardinality({m}) = 1
  BY FS_Singleton
<1>4. Cardinality({h \in committed : h > from /\ h <= m}) <= BatchSize
  BY <1>2, <1>3, DaemonAssumption
<1> QED
  BY <1>1, <1>4 DEF Window

-------------------------------------------------------------------------------
(* Types and locks *)

LEMMA Bounds ==
  /\ MaxEvents \in Nat /\ MaxRetries \in Nat /\ MaxCrashes \in Nat /\ MaxRebuilds \in Nat
  /\ None \notin Runners
BY DaemonAssumption

LEMMA ProjectionType ==
  ASSUME TypeOK, JobInv, NEW r \in Runners, pc[r] # "idle"
  PROVE  /\ Projection(r) \in Projections
         /\ job[r] \in [mode : Modes, projection : Projections]
BY DEF JobInv, Projection

LEMMA InitTables == Init => TablesInv
<1> SUFFICES ASSUME Init PROVE TablesInv
  OBVIOUS
<1> USE DaemonAssumption DEF Init
<1>1. TypeOK
  BY DEF TypeOK, Steps, Positions, Nowhere, NoJob
<1>2. HolderInv
  BY DEF HolderInv, Holding
<1>3. JobInv /\ BatchInv
  BY DEF JobInv, BatchInv, BatchOf, Passing
<1>4. CountInv
  BY DEF CountInv, Nowhere
<1> QED
  BY <1>1, <1>2, <1>3, <1>4 DEF TablesInv

LEMMA TypeNext == TypeOK /\ JobInv /\ [Next]_vars => TypeOK'
<1> SUFFICES ASSUME TypeOK, JobInv, [Next]_vars PROVE TypeOK'
  OBVIOUS
<1> USE Bounds DEF log, tables, call, bounds
<1>1. CASE Append
  <2>1. CASE Draw
    BY <2>1 DEF Draw, TypeOK
  <2>2. ASSUME NEW g \in open, CommitAppend(g) PROVE TypeOK'
    <3>1. late' \subseteq committed'
      BY <2>2 DEF CommitAppend, TypeOK
    <3> QED
      BY <3>1, <2>2 DEF CommitAppend, TypeOK
  <2>3. ASSUME NEW g \in open, RollbackAppend(g) PROVE TypeOK'
    BY <2>3 DEF RollbackAppend, TypeOK
  <2> QED
    BY <1>1, <2>1, <2>2, <2>3 DEF Append
<1>2. ASSUME NEW r \in Runners, NEW p \in Projections, NEW mode \in Modes, Start(r, p, mode)
      PROVE  TypeOK'
  <2>1. rebuilds' \in 0..MaxRebuilds
    BY <1>2 DEF Start, TypeOK
  <2>2. job' \in [Runners -> [mode : Modes, projection : Projections] \cup {NoJob}]
    BY <1>2 DEF Start, TypeOK
  <2>3. pc' \in {[pc EXCEPT ![r] = step] : step \in {"truncate", "try_lock"}}
    BY <1>2 DEF Start, Goto
  <2>4. pc' \in [Runners -> Steps]
    BY <2>3 DEF TypeOK, Steps
  <2> QED
    BY <2>1, <2>2, <2>4, <1>2 DEF Start, TypeOK
<1>3. ASSUME NEW r \in Runners, Step(r) PROVE TypeOK'
  <2>1. CASE Truncate(r)
    <3>1. target' \in [Runners -> SUBSET Positions]
      BY <2>1, CommittedFinite DEF Truncate, StartTarget, TypeOK
    <3>2. Nowhere \in [Positions -> Nat]
      BY DEF Nowhere
    <3>3. view' \in [Projections -> [Positions -> Nat]]
      BY <2>1, <3>2 DEF Truncate, TypeOK
    <3>4. checkpoint' \in [Projections -> 0..MaxEvents]
      <4>1. /\ checkpoint' = [checkpoint EXCEPT ![Projection(r)] = 0] /\ 0 \in 0..MaxEvents
            /\ checkpoint \in [Projections -> 0..MaxEvents]
        BY <2>1 DEF Truncate, TypeOK
      <4> QED
        BY <4>1
    <3> QED
      BY <3>1, <3>3, <3>4, <2>1 DEF Truncate, Goto, TypeOK, Steps
  <2>2. CASE TryLock(r)
    <3>1. job' \in [Runners -> [mode : Modes, projection : Projections] \cup {NoJob}]
      BY <2>2 DEF TryLock, Return, EndJob, TypeOK
    <3>2. pc' \in [Runners -> Steps]
      <4>1. pc' \in {[pc EXCEPT ![r] = step] : step \in {"read_checkpoint", "rebuilt", "idle"}}
        BY <2>2 DEF TryLock, Return, EndJob, Goto
      <4> QED
        BY <4>1 DEF TypeOK, Steps
    <3>3. /\ lock' \in [Projections -> Runners \cup {None}]
          /\ target' \in [Runners -> SUBSET Positions]
      BY <2>2 DEF TryLock, TypeOK
    <3> QED
      BY <3>1, <3>2, <3>3, <2>2 DEF TryLock, TypeOK
  <2>3. CASE ReadCheckpoint(r)
    <3>1. checkpoint[Projection(r)] \in 0..MaxEvents
      BY <2>3, ProjectionType DEF ReadCheckpoint, TypeOK
    <3> QED
      BY <3>1, <2>3 DEF ReadCheckpoint, Goto, TypeOK, Steps
  <2>4. CASE Fetch(r)
    <3>1. Window(last[r]) \subseteq Positions
      BY CommittedFinite DEF Window
    <3> QED
      BY <3>1, <2>4 DEF Fetch, Goto, TypeOK, Steps
  <2>5. ASSUME NEW g \in batch[r], Apply(r, g) \/ DeadLetter(r, g) PROVE TypeOK'
    <3>1. g \in Positions /\ g \in 0..MaxEvents
      BY DEF TypeOK, Positions
    <3>2. Pass(r, g)
      BY <2>5 DEF Apply, DeadLetter
    <3>3. /\ batch' \in [Runners -> SUBSET Positions] /\ last' \in [Runners -> 0..MaxEvents]
          /\ attempts' \in [Runners -> 0..MaxRetries]
      BY <3>1, <3>2 DEF Pass, TypeOK
    <3>4. pc' \in [Runners -> Steps]
      BY <3>2 DEF Pass, Goto, TypeOK, Steps
    <3>5. CASE Apply(r, g)
      <4>1. applied' \in [Runners -> SUBSET Positions]
        BY <3>1, <3>5 DEF Apply, TypeOK
      <4> QED
        BY <4>1, <3>3, <3>4, <3>5 DEF Apply, TypeOK
    <3>6. CASE DeadLetter(r, g)
      <4>1. buried' \in [Runners -> SUBSET Positions]
        BY <3>1, <3>6 DEF DeadLetter, TypeOK
      <4> QED
        BY <4>1, <3>3, <3>4, <3>6 DEF DeadLetter, TypeOK
    <3> QED
      BY <2>5, <3>5, <3>6
  <2>6. ASSUME NEW g \in batch[r], Retry(r, g) PROVE TypeOK'
    BY <2>6 DEF Retry, TypeOK
  <2>7. CASE Commit(r)
    <3>1. Projection(r) \in Projections
      BY <2>7, ProjectionType DEF Commit
    <3>2. /\ view' \in [Projections -> [Positions -> Nat]]
          /\ dead' \in [Projections -> [Positions -> Nat]]
      BY <3>1, <2>7 DEF Commit, Count, TypeOK
    <3>3. /\ batch' \in [Runners -> SUBSET Positions]
          /\ applied' \in [Runners -> SUBSET Positions]
          /\ buried' \in [Runners -> SUBSET Positions]
          /\ attempts' \in [Runners -> 0..MaxRetries]
      BY <2>7 DEF Commit, DropTransaction, TypeOK
    <3>4. checkpoint' \in [Projections -> 0..MaxEvents] /\ pc' \in [Runners -> Steps]
      BY <2>7 DEF Commit, Goto, TypeOK, Steps
    <3> QED
      BY <3>2, <3>3, <3>4, <2>7 DEF Commit, TypeOK
  <2>8. CASE Unlock(r)
    <3>1. job' \in [Runners -> [mode : Modes, projection : Projections] \cup {NoJob}]
      BY <2>8 DEF Unlock, Return, EndJob, TypeOK
    <3>2. pc' \in [Runners -> Steps]
      <4>1. pc' \in {[pc EXCEPT ![r] = step] : step \in {"try_lock", "rebuilt", "idle"}}
        BY <2>8 DEF Unlock, Return, EndJob, Goto
      <4> QED
        BY <4>1 DEF TypeOK, Steps
    <3>3. lock' \in [Projections -> Runners \cup {None}]
      BY <2>8 DEF Unlock, TypeOK
    <3>4. last' \in [Runners -> 0..MaxEvents]
      BY <2>8 DEF Unlock, TypeOK
    <3> QED
      BY <3>1, <3>2, <3>3, <3>4, <2>8 DEF Unlock, TypeOK
  <2>9. CASE EndRebuild(r)
    BY <2>9 DEF EndRebuild, EndJob, Goto, TypeOK, Steps
  <2> QED
    BY <1>3, <2>1, <2>2, <2>3, <2>4, <2>5, <2>6, <2>7, <2>8, <2>9 DEF Step
<1>4. ASSUME NEW r \in Runners, Crash(r) PROVE TypeOK'
  <2>1. /\ batch' \in [Runners -> SUBSET Positions]
        /\ applied' \in [Runners -> SUBSET Positions]
        /\ buried' \in [Runners -> SUBSET Positions]
        /\ target' \in [Runners -> SUBSET Positions]
        /\ attempts' \in [Runners -> 0..MaxRetries]
        /\ last' \in [Runners -> 0..MaxEvents]
    BY <1>4 DEF Crash, DropTransaction, TypeOK
  <2>2. /\ pc' \in [Runners -> Steps] /\ crashes' \in 0..MaxCrashes
        /\ job' \in [Runners -> [mode : Modes, projection : Projections] \cup {NoJob}]
        /\ lock' \in [Projections -> Runners \cup {None}]
    BY <1>4 DEF Crash, EndJob, Goto, TypeOK, Steps
  <2> QED
    BY <2>1, <2>2, <1>4 DEF Crash, TypeOK
<1>5. CASE UNCHANGED vars
  BY <1>5 DEF vars, TypeOK
<1> QED
  BY <1>1, <1>2, <1>3, <1>4, <1>5 DEF Next

LEMMA HolderNext == TypeOK /\ HolderInv /\ JobInv /\ [Next]_vars => HolderInv' /\ JobInv'
<1> SUFFICES ASSUME TypeOK, HolderInv, JobInv, [Next]_vars PROVE HolderInv' /\ JobInv'
  OBVIOUS
<1> USE DaemonAssumption DEF log, tables, call, bounds, Goto, Projection, TypeOK
<1>1. CASE Append
  BY <1>1 DEF Append, Draw, CommitAppend, RollbackAppend, HolderInv, JobInv
<1>2. ASSUME NEW r \in Runners, NEW p \in Projections, NEW mode \in Modes, Start(r, p, mode)
      PROVE  HolderInv' /\ JobInv'
  <2>1. HolderInv'
    BY <1>2 DEF Start, HolderInv, Holding
  <2>2. JobInv'
    BY <1>2 DEF Start, JobInv
  <2> QED
    BY <2>1, <2>2
<1>3. ASSUME NEW r \in Runners, Step(r) PROVE HolderInv' /\ JobInv'
  <2>1. CASE Truncate(r) \/ ReadCheckpoint(r) \/ Fetch(r)
    BY <2>1 DEF Truncate, ReadCheckpoint, Fetch, HolderInv, Holding, JobInv
  <2>2. CASE TryLock(r)
    <3>1. pc[r] = "try_lock" /\ job[r].projection \in Projections
      BY <2>2 DEF TryLock, JobInv
    <3>2. HolderInv'
      <4>1. CASE lock[job[r].projection] = None
        BY <3>1, <4>1, <2>2 DEF TryLock, HolderInv, Holding
      <4>2. CASE lock[job[r].projection] # None
        BY <3>1, <4>2, <2>2 DEF TryLock, Return, EndJob, HolderInv, Holding
      <4> QED
        BY <4>1, <4>2
    <3>3. JobInv'
      BY <2>2 DEF TryLock, Return, EndJob, JobInv
    <3> QED
      BY <3>2, <3>3
  <2>3. ASSUME NEW g \in batch[r], Apply(r, g) \/ DeadLetter(r, g) \/ Retry(r, g)
        PROVE  HolderInv' /\ JobInv'
    BY <2>3 DEF Apply, DeadLetter, Retry, Pass, HolderInv, Holding, JobInv
  <2>4. CASE Commit(r)
    BY <2>4 DEF Commit, HolderInv, Holding, JobInv
  <2>5. CASE Unlock(r)
    <3>1. HolderInv'
      BY <2>5 DEF Unlock, Return, EndJob, HolderInv, Holding, JobInv
    <3>2. JobInv'
      BY <2>5 DEF Unlock, Return, EndJob, JobInv
    <3> QED
      BY <3>1, <3>2
  <2>6. CASE EndRebuild(r)
    BY <2>6 DEF EndRebuild, EndJob, HolderInv, Holding, JobInv
  <2> QED
    BY <1>3, <2>1, <2>2, <2>3, <2>4, <2>5, <2>6 DEF Step
<1>4. ASSUME NEW r \in Runners, Crash(r) PROVE HolderInv' /\ JobInv'
  BY <1>4 DEF Crash, EndJob, HolderInv, Holding, JobInv
<1>5. CASE UNCHANGED vars
  BY <1>5 DEF vars, HolderInv, JobInv
<1> QED
  BY <1>1, <1>2, <1>3, <1>4, <1>5 DEF Next

-------------------------------------------------------------------------------
(* Batches *)

(* A step of others leaves what a runner has in hand as it was, if the       *)
(* checkpoint of its projection does not move forward.                       *)
LEMMA BatchFrame ==
  ASSUME TypeOK, TypeOK', JobInv, NEW q \in Runners, BatchOf(q),
         pc'[q] = pc[q], job'[q] = job[q], last'[q] = last[q], batch'[q] = batch[q],
         applied'[q] = applied[q], buried'[q] = buried[q],
         committed \subseteq committed',
         \/ pc[q] \notin {"fetch"} \cup Passing
         \/ checkpoint'[Projection(q)] <= checkpoint[Projection(q)]
  PROVE  BatchOf(q)'
<1> DEFINE p == Projection(q)
<1>1. Projection(q)' = p
  BY DEF Projection
<1>2. last[q] \in Nat
  BY Bounds DEF TypeOK
<1>3. CASE pc[q] \notin {"fetch"} \cup Passing
  BY <1>3 DEF BatchOf
<1>4. CASE pc[q] \in {"fetch"} \cup Passing /\ checkpoint'[p] <= checkpoint[p]
  <2>1. p \in Projections
    BY <1>4, ProjectionType DEF Passing
  <2>2. checkpoint[p] \in Nat /\ checkpoint'[p] \in Nat
    BY <2>1, Bounds DEF TypeOK
  <2>3. checkpoint'[p] <= last[q]
    BY <1>2, <1>4, <2>2 DEF BatchOf
  <2>4. \A g \in applied[q] \cup buried[q] : checkpoint[p] < g /\ g \in Nat
    BY DEF BatchOf, TypeOK, Positions
  <2>5. \A g \in applied[q] \cup buried[q] : checkpoint'[p] < g
    BY <2>2, <2>4, <1>4
  <2> HIDE DEF p
  <2> QED
    BY <1>1, <2>3, <2>5 DEF BatchOf, p
<1> QED
  BY <1>3, <1>4

LEMMA StepBatch ==
  ASSUME TablesInv, TypeOK', NEW r \in Runners, Step(r)
  PROVE  BatchOf(r)'
<1> USE Bounds DEF TablesInv, BatchInv
<1> DEFINE p == Projection(r)
<1>1. BatchOf(r) /\ last[r] \in Nat /\ batch[r] \subseteq Positions
  BY DEF TypeOK
<1>2. CASE Truncate(r)
  BY <1>2, <1>1 DEF Truncate, Goto, BatchOf, Passing, TypeOK, tables, log
<1>3. CASE TryLock(r)
  <2>1. pc'[r] \notin {"fetch"} \cup Passing /\ pc[r] \notin Passing
    BY <1>3 DEF TryLock, Return, EndJob, Goto, Passing, TypeOK
  <2> QED
    BY <2>1, <1>3, <1>1 DEF TryLock, BatchOf, log
<1>4. CASE ReadCheckpoint(r)
  <2>1. /\ p \in Projections /\ p' = p
        /\ checkpoint[p] \in Nat /\ (checkpoint[p] = 0 \/ checkpoint[p] \in committed)
    BY <1>4, ProjectionType DEF ReadCheckpoint, CountInv, TypeOK, Projection
  <2>2. /\ pc[r] \notin Passing /\ pc'[r] = "fetch" /\ last'[r] = checkpoint[p]
        /\ checkpoint' = checkpoint /\ committed' = committed
    BY <1>4 DEF ReadCheckpoint, Goto, TypeOK, Passing, log, tables
  <2> HIDE DEF p
  <2> QED
    BY <2>1, <2>2, <1>1, <1>4 DEF ReadCheckpoint, BatchOf, Passing, p
<1>5. CASE Fetch(r)
  <2>1. Window(last[r]) \subseteq {g \in committed : g > last[r]}
    BY <1>1, WindowSubset
  <2>2. /\ pc[r] = "fetch" /\ p' = p /\ last' = last /\ batch'[r] = Window(last[r])
        /\ checkpoint' = checkpoint /\ committed' = committed
        /\ applied'[r] = {} /\ buried'[r] = {}
        /\ pc'[r] = (IF Window(last[r]) = {} THEN "unlock_idle" ELSE "apply")
    BY <1>1, <1>5 DEF Fetch, Goto, TypeOK, BatchOf, Projection, Passing, log, tables
  <2>3. \A g \in Window(last[r]) : last[r] < g /\ g \in committed
    BY <2>1, <1>1, CommittedFinite
  <2> HIDE DEF p
  <2> QED
    BY <2>2, <2>3, <1>1 DEF BatchOf, Passing, p
<1>6. ASSUME NEW g \in batch[r], Apply(r, g) \/ DeadLetter(r, g) PROVE BatchOf(r)'
  <2>1. /\ pc[r] = "apply" /\ Current(r, g) /\ Pass(r, g) /\ p' = p
        /\ checkpoint' = checkpoint /\ committed' = committed
    BY <1>6 DEF Apply, DeadLetter, Projection, log, tables
  <2>2. p \in Projections /\ checkpoint[p] \in Nat /\ g \in Nat
    <3>1. p \in Projections
      BY <2>1, ProjectionType
    <3> QED
      BY <3>1, <1>1 DEF TypeOK, Positions
  <2>3. last'[r] = g /\ batch'[r] = batch[r] \ {g}
        /\ pc'[r] = (IF batch[r] = {g} THEN "commit" ELSE "apply")
    BY <2>1 DEF Pass, Goto, TypeOK
  <2>4. last[r] < g /\ g \in committed /\ checkpoint[p] <= last[r] /\ checkpoint[p] < g
    BY <1>1, <2>1, <2>2 DEF BatchOf, Passing
  <2>5. \A h \in batch'[r] : g < h /\ h \in committed
    BY <1>1, <2>1, <2>2, <2>3 DEF Current, BatchOf, Positions
  <2>6. \/ applied'[r] = applied[r] \cup {g} /\ buried'[r] = buried[r]
        \/ applied'[r] = applied[r] /\ buried'[r] = buried[r] \cup {g}
    BY <1>6 DEF Apply, DeadLetter, TypeOK
  <2>7. \A h \in applied[r] \cup buried[r] : h \in Nat /\ h <= last[r] /\ checkpoint[p] < h /\ h \in committed
    BY <1>1 DEF BatchOf, TypeOK, Positions
  <2>8. \A h \in applied'[r] \cup buried'[r] : h <= g /\ checkpoint[p] < h /\ h \in committed
    BY <1>1, <2>2, <2>4, <2>6, <2>7
  <2>9. applied'[r] \cap buried'[r] = {}
    BY <1>1, <2>2, <2>4, <2>6, <2>7 DEF BatchOf
  <2> HIDE DEF p
  <2> QED
    BY <2>1, <2>2, <2>3, <2>4, <2>5, <2>8, <2>9 DEF BatchOf, Passing, p
<1>7. ASSUME NEW g \in batch[r], Retry(r, g) PROVE BatchOf(r)'
  BY <1>7, <1>1 DEF Retry, BatchOf, Projection, log, tables
<1>8. CASE Commit(r)
  <2>1. pc'[r] = "unlock" /\ batch'[r] = {} /\ applied'[r] = {} /\ buried'[r] = {}
        /\ last' = last /\ committed' = committed
    BY <1>8 DEF Commit, Goto, DropTransaction, TypeOK, log
  <2> QED
    BY <2>1, <1>1 DEF BatchOf, Passing
<1>9. CASE Unlock(r)
  <2>1. pc'[r] \notin {"fetch"} \cup Passing /\ pc[r] \notin Passing /\ last'[r] = 0
    BY <1>9 DEF Unlock, Return, EndJob, Goto, Passing, TypeOK
  <2> QED
    BY <2>1, <1>9, <1>1 DEF Unlock, BatchOf, log, Passing
<1>10. CASE EndRebuild(r)
  BY <1>10, <1>1 DEF EndRebuild, EndJob, Goto, BatchOf, Passing, TypeOK, log
<1> QED
  BY <1>2, <1>3, <1>4, <1>5, <1>6, <1>7, <1>8, <1>9, <1>10 DEF Step

(* What a step of r leaves alone of the other runners. *)
LEMMA OthersUntouched ==
  ASSUME TablesInv, NEW r \in Runners, NEW q \in Runners \ {r}, Step(r) \/ Crash(r)
  PROVE  /\ pc'[q] = pc[q] /\ job'[q] = job[q] /\ last'[q] = last[q] /\ batch'[q] = batch[q]
         /\ applied'[q] = applied[q] /\ buried'[q] = buried[q] /\ committed' = committed
<1> USE DEF TablesInv, TypeOK, Goto, EndJob, log, call
<1>1. CASE Truncate(r) \/ ReadCheckpoint(r) \/ Fetch(r)
  BY <1>1 DEF Truncate, ReadCheckpoint, Fetch
<1>2. CASE TryLock(r)
  BY <1>2 DEF TryLock, Return
<1>3. ASSUME NEW g \in batch[r], Apply(r, g) \/ DeadLetter(r, g) \/ Retry(r, g)
      PROVE  /\ pc'[q] = pc[q] /\ job'[q] = job[q] /\ last'[q] = last[q] /\ batch'[q] = batch[q]
             /\ applied'[q] = applied[q] /\ buried'[q] = buried[q] /\ committed' = committed
  BY <1>3 DEF Apply, DeadLetter, Retry, Pass
<1>4. CASE Commit(r) \/ Crash(r)
  BY <1>4 DEF Commit, Crash, DropTransaction
<1>5. CASE Unlock(r)
  BY <1>5 DEF Unlock, Return
<1>6. CASE EndRebuild(r)
  BY <1>6 DEF EndRebuild
<1> QED
  BY <1>1, <1>2, <1>3, <1>4, <1>5, <1>6 DEF Step

(* Only Commit and Truncate write a read model or a checkpoint. *)
LEMMA TablesUntouched ==
  ASSUME TablesInv, NEW r \in Runners, Step(r) \/ Crash(r), ~ Commit(r), ~ Truncate(r)
  PROVE  UNCHANGED tables
BY DEF Step, Crash, TryLock, ReadCheckpoint, Fetch, Apply, DeadLetter, Retry, Unlock, EndRebuild

LEMMA BatchNext == TablesInv /\ TypeOK' /\ [Next]_vars => BatchInv'
<1> SUFFICES ASSUME TablesInv, TypeOK', [Next]_vars PROVE BatchInv'
  OBVIOUS
<1>1. CASE Append \/ UNCHANGED vars
  <2> SUFFICES ASSUME NEW q \in Runners PROVE BatchOf(q)'
    BY DEF BatchInv
  <2>1. committed \subseteq committed' /\ UNCHANGED <<tables, pc, call>>
    BY <1>1 DEF Append, Draw, CommitAppend, RollbackAppend, vars, log
  <2>2. Projection(q) \in Projections => checkpoint[Projection(q)] <= checkpoint[Projection(q)]
    BY Bounds DEF TablesInv, TypeOK
  <2>3. pc[q] \in {"fetch"} \cup Passing => Projection(q) \in Projections
    BY ProjectionType DEF Passing, TablesInv
  <2> QED
    BY <2>1, <2>2, <2>3, BatchFrame DEF tables, call, TablesInv, BatchInv
<1>2. ASSUME NEW r \in Runners, NEW p \in Projections, NEW mode \in Modes, Start(r, p, mode)
      PROVE  BatchInv'
  <2> SUFFICES ASSUME NEW q \in Runners PROVE BatchOf(q)'
    BY DEF BatchInv
  <2>1. CASE q = r
    <3>1. pc[r] = "idle" /\ pc'[r] \in {"truncate", "try_lock"}
      BY <1>2 DEF Start, Goto, TablesInv, TypeOK
    <3> QED
      BY <2>1, <3>1, <1>2 DEF Start, BatchOf, BatchInv, TablesInv, Passing, log
  <2>2. CASE q # r
    <3>1. pc'[q] = pc[q] /\ job'[q] = job[q]
      BY <2>2, <1>2 DEF Start, Goto, TablesInv, TypeOK
    <3>2. Projection(q) \in Projections => checkpoint[Projection(q)] <= checkpoint[Projection(q)]
      BY Bounds DEF TablesInv, TypeOK
    <3>3. pc[q] \in {"fetch"} \cup Passing => Projection(q) \in Projections
      BY ProjectionType DEF Passing, TablesInv
    <3> QED
      BY <3>1, <3>2, <3>3, <1>2, BatchFrame DEF Start, log, tables, TablesInv, BatchInv
  <2> QED
    BY <2>1, <2>2
<1>3. ASSUME NEW r \in Runners, Step(r) \/ Crash(r) PROVE BatchInv'
  <2> SUFFICES ASSUME NEW q \in Runners PROVE BatchOf(q)'
    BY DEF BatchInv
  <2>1. CASE q = r
    <3>1. CASE Crash(r)
      <4>1. /\ pc'[r] = "idle" /\ batch'[r] = {} /\ applied'[r] = {} /\ buried'[r] = {}
            /\ last'[r] = 0
        BY <3>1 DEF Crash, EndJob, Goto, DropTransaction, TablesInv, TypeOK
      <4> QED
        BY <4>1, <2>1 DEF BatchOf, Passing
    <3> QED
      BY <1>3, <2>1, <3>1, StepBatch
  <2>2. CASE q # r
    <3> DEFINE p == Projection(q)
    <3>1. CASE pc[q] \notin {"fetch"} \cup Passing
      BY <2>2, <3>1, <1>3, OthersUntouched, BatchFrame DEF TablesInv, BatchInv
    <3>2. CASE pc[q] \in {"fetch"} \cup Passing
      <4>1. p \in Projections /\ checkpoint[p] \in Nat
        BY <3>2, ProjectionType, Bounds DEF Passing, TablesInv, TypeOK
      <4>2. checkpoint'[p] <= checkpoint[p]
        <5>1. CASE Commit(r)
          <6>1. lock[p] = q
            BY <3>2, <4>1 DEF HolderInv, TablesInv, Holding, Passing
          <6>2. pc[r] = "commit" /\ Projection(r) \in Projections
            BY <5>1, ProjectionType DEF Commit, TablesInv
          <6>3. Projection(r) # p
            BY <2>2, <6>1, <6>2 DEF HolderInv, TablesInv, Holding
          <6> QED
            BY <4>1, <5>1, <6>3 DEF Commit, TablesInv, TypeOK
        <5>2. CASE Truncate(r)
          BY <4>1, <5>2 DEF Truncate, TablesInv, TypeOK
        <5>3. CASE ~ Commit(r) /\ ~ Truncate(r)
          BY <4>1, <5>3, <1>3, TablesUntouched DEF tables
        <5> QED
          BY <5>1, <5>2, <5>3
      <4> QED
        BY <2>2, <4>2, <1>3, OthersUntouched, BatchFrame DEF TablesInv, BatchInv
    <3> QED
      BY <3>1, <3>2
  <2> QED
    BY <2>1, <2>2
<1> QED
  BY <1>1, <1>2, <1>3 DEF Next

-------------------------------------------------------------------------------
(* The read model and its checkpoint *)

(* What a commit writes lies between the old checkpoint and the new one. *)
LEMMA CommitFacts ==
  ASSUME TablesInv, NEW r \in Runners, Commit(r), NEW p \in Projections, p = Projection(r)
  PROVE  /\ pc[r] = "commit" /\ last[r] \in Nat /\ checkpoint[p] \in Nat
         /\ checkpoint[p] <= last[r]
         /\ last[r] = 0 \/ last[r] \in committed
         /\ \A g \in applied[r] \cup buried[r] :
              checkpoint[p] < g /\ g <= last[r] /\ g \in committed /\ g \in Positions
         /\ applied[r] \cap buried[r] = {}
         /\ checkpoint' = [checkpoint EXCEPT ![p] = last[r]]
         /\ checkpoint'[p] = last[r]
         /\ \A g \in Positions :
              /\ view'[p][g] = view[p][g] + (IF g \in applied[r] THEN 1 ELSE 0)
              /\ dead'[p][g] = dead[p][g] + (IF g \in buried[r] THEN 1 ELSE 0)
              /\ view[p][g] \in Nat /\ dead[p][g] \in Nat
         /\ \A q \in Projections \ {p} :
              view'[q] = view[q] /\ dead'[q] = dead[q] /\ checkpoint'[q] = checkpoint[q]
<1>1. pc[r] = "commit" /\ last[r] \in Nat /\ checkpoint[p] \in Nat
  BY Bounds DEF TablesInv, TypeOK, Commit
<1>2. BatchOf(r) /\ applied[r] \subseteq Positions /\ buried[r] \subseteq Positions
  BY DEF TablesInv, BatchInv, TypeOK
<1>3. /\ view' = [view EXCEPT ![p] = Count(view[p], applied[r])]
      /\ dead' = [dead EXCEPT ![p] = Count(dead[p], buried[r])]
      /\ checkpoint' = [checkpoint EXCEPT ![p] = last[r]]
      /\ view \in [Projections -> [Positions -> Nat]]
      /\ dead \in [Projections -> [Positions -> Nat]]
      /\ checkpoint \in [Projections -> 0..MaxEvents]
  BY DEF Commit, TablesInv, TypeOK
<1>4. /\ view'[p] = Count(view[p], applied[r]) /\ dead'[p] = Count(dead[p], buried[r])
      /\ checkpoint'[p] = last[r]
      /\ \A q \in Projections \ {p} :
           view'[q] = view[q] /\ dead'[q] = dead[q] /\ checkpoint'[q] = checkpoint[q]
  BY <1>3
<1>5. /\ checkpoint[p] <= last[r] /\ (last[r] = 0 \/ last[r] \in committed)
      /\ \A g \in applied[r] \cup buried[r] :
           checkpoint[p] < g /\ g <= last[r] /\ g \in committed /\ g \in Positions
      /\ applied[r] \cap buried[r] = {}
  BY <1>1, <1>2 DEF BatchOf, Passing
<1>6. \A g \in Positions :
        /\ view'[p][g] = view[p][g] + (IF g \in applied[r] THEN 1 ELSE 0)
        /\ dead'[p][g] = dead[p][g] + (IF g \in buried[r] THEN 1 ELSE 0)
        /\ view[p][g] \in Nat /\ dead[p][g] \in Nat
  BY <1>3, <1>4 DEF Count
<1> QED
  BY <1>1, <1>3, <1>4, <1>5, <1>6

LEMMA TruncateFacts ==
  ASSUME TablesInv, NEW r \in Runners, Truncate(r), NEW p \in Projections, p = Projection(r)
  PROVE  /\ pc[r] = "truncate" /\ pc'[r] = "try_lock" /\ rebuilds > 0
         /\ \A g \in Positions : view'[p][g] = 0
         /\ checkpoint'[p] = 0
         /\ dead' = dead /\ committed' = committed
         /\ \A q \in Projections \ {p} : view'[q] = view[q] /\ checkpoint'[q] = checkpoint[q]
BY DEF Truncate, Goto, Nowhere, TablesInv, TypeOK, JobInv, log

LEMMA WritesOwnTables ==
  ASSUME TablesInv, NEW r \in Runners, Commit(r) \/ Truncate(r)
  PROVE  Projection(r) \in Projections
BY ProjectionType DEF Commit, Truncate, TablesInv

(* Every step writes the tables as one of these does, or not at all. *)
LEMMA Writes ==
  ASSUME TablesInv, [Next]_vars
  PROVE  \/ UNCHANGED tables
         \/ \E r \in Runners : Commit(r) \/ Truncate(r)
<1>1. ASSUME NEW r \in Runners, Step(r) \/ Crash(r), ~ Commit(r), ~ Truncate(r)
      PROVE  UNCHANGED tables
  BY <1>1, TablesUntouched
<1>2. CASE Append
  BY <1>2 DEF Append, Draw, CommitAppend, RollbackAppend
<1>3. ASSUME NEW r \in Runners, NEW p \in Projections, NEW mode \in Modes, Start(r, p, mode)
      PROVE  UNCHANGED tables
  BY <1>3 DEF Start
<1>4. CASE UNCHANGED vars
  BY <1>4 DEF vars
<1> QED
  BY <1>1, <1>2, <1>3, <1>4 DEF Next

LEMMA CommittedGrows ==
  ASSUME TablesInv, [Next]_vars
  PROVE  committed \subseteq committed' /\ late \subseteq late'
BY DEF Next, Append, Draw, CommitAppend, RollbackAppend, Start, Step, Truncate, TryLock,
       ReadCheckpoint, Fetch, Apply, Retry, DeadLetter, Commit, Unlock, EndRebuild, Crash,
       log, vars

LEMMA CountNext == TablesInv /\ [Next]_vars => CountInv'
<1> SUFFICES ASSUME TablesInv, [Next]_vars PROVE CountInv'
  OBVIOUS
<1>1. committed \subseteq committed'
  BY CommittedGrows
<1>2. CountInv
  BY DEF TablesInv
<1>3. CASE UNCHANGED tables
  BY <1>1, <1>2, <1>3 DEF CountInv, tables
<1>4. ASSUME NEW r \in Runners, Commit(r) PROVE CountInv'
  <2>1. Projection(r) \in Projections
    BY <1>4, WritesOwnTables
  <2> SUFFICES ASSUME NEW p \in Projections
               PROVE  /\ checkpoint'[p] = 0 \/ checkpoint'[p] \in committed'
                      /\ \A g \in Positions :
                           view'[p][g] <= 1 /\ (view'[p][g] > 0 => g <= checkpoint'[p])
    BY DEF CountInv
  <2>2. CASE p # Projection(r)
    BY <2>1, <2>2, <1>1, <1>2, <1>4, CommitFacts DEF CountInv
  <2>3. CASE p = Projection(r)
    <3>1. checkpoint'[p] = 0 \/ checkpoint'[p] \in committed'
      BY <2>3, <1>1, <1>4, CommitFacts
    <3>2. ASSUME NEW g \in Positions
          PROVE  view'[p][g] <= 1 /\ (view'[p][g] > 0 => g <= checkpoint'[p])
      <4>1. /\ view[p][g] \in Nat /\ view[p][g] <= 1 /\ (view[p][g] > 0 => g <= checkpoint[p])
            /\ view'[p][g] = view[p][g] + (IF g \in applied[r] THEN 1 ELSE 0)
            /\ checkpoint[p] \in Nat /\ last[r] \in Nat /\ checkpoint[p] <= last[r]
            /\ checkpoint'[p] = last[r]
            /\ g \in applied[r] => checkpoint[p] < g /\ g <= last[r]
        BY <2>3, <1>2, <1>4, CommitFacts DEF CountInv
      <4>2. g \in Nat
        BY DEF Positions
      <4> QED
        BY <4>1, <4>2
    <3> QED
      BY <3>1, <3>2
  <2> QED
    BY <2>2, <2>3
<1>5. ASSUME NEW r \in Runners, Truncate(r) PROVE CountInv'
  BY <1>1, <1>2, <1>5, WritesOwnTables, TruncateFacts DEF CountInv
<1> QED
  BY <1>3, <1>4, <1>5, Writes

LEMMA TablesNext == TablesInv /\ [Next]_vars => TablesInv'
BY TypeNext, HolderNext, BatchNext, CountNext DEF TablesInv

LEMMA TablesInvariant == Spec => []TablesInv
BY InitTables, TablesNext, PTL DEF Spec

(* Every variable of the daemon keeps its type. *)
THEOREM TypeCorrect == Spec => []TypeOK
<1>1. TablesInv => TypeOK
  BY DEF TablesInv
<1> QED
  BY <1>1, TablesInvariant, PTL

(* However many runners tick, crash, retry and truncate, and in whatever     *)
(* order appends commit, no event is counted twice.                          *)
THEOREM NothingCountedTwice == Spec => []CountedAtMostOnce
<1>1. TablesInv => CountedAtMostOnce
  BY DEF TablesInv, CountInv, CountedAtMostOnce
<1> QED
  BY <1>1, TablesInvariant, PTL

(* A tick that stalls cannot undo what later ticks recorded: only a rebuild  *)
(* moves a checkpoint back.                                                  *)
THEOREM CheckpointAdvances == Spec => CheckpointNeverGoesBack
<1>1. ASSUME TablesInv, [Next]_vars, NEW p \in Projections, checkpoint'[p] < checkpoint[p]
      PROVE  \E r \in Runners : Projection(r) = p /\ pc[r] = "truncate" /\ pc'[r] # "truncate"
  <2>1. checkpoint[p] \in Nat
    BY <1>1, Bounds DEF TablesInv, TypeOK
  <2>2. ~ UNCHANGED tables
    BY <1>1, <2>1 DEF tables
  <2>3. ASSUME NEW r \in Runners, Commit(r) PROVE FALSE
    <3>1. checkpoint'[p] >= checkpoint[p]
      BY <2>1, <2>3, <1>1, WritesOwnTables, CommitFacts
    <3> QED
      BY <1>1, <2>1, <3>1, <2>3, WritesOwnTables, CommitFacts
  <2>4. PICK r \in Runners : Truncate(r)
    BY <1>1, <2>2, <2>3, Writes
  <2>5. Projection(r) = p
    BY <1>1, <2>1, <2>4, WritesOwnTables, TruncateFacts
  <2> QED
    BY <1>1, <2>4, <2>5, TruncateFacts
<1>2. TablesInv /\ [Next]_vars =>
        [\A p \in Projections :
           checkpoint'[p] < checkpoint[p] =>
             \E r \in Runners : Projection(r) = p /\ pc[r] = "truncate" /\ pc'[r] # "truncate"]_vars
  BY <1>1
<1> QED
  BY <1>2, TablesInvariant, PTL DEF Spec, CheckpointNeverGoesBack

-------------------------------------------------------------------------------
(* The events a transaction passes *)

LEMMA StepPasses ==
  ASSUME TablesInv, TablesInv', NEW r \in Runners, Step(r), NEW S \in SUBSET committed,
         ~ Truncate(r), PassesInOrder(r, S)
  PROVE  PassesInOrder(r, S)'
<1> DEFINE p == Projection(r)
<1>1. CASE pc'[r] \notin {"fetch"} \cup Passing
  <2>1. batch'[r] = {}
    BY <1>1 DEF TablesInv, BatchInv, BatchOf
  <2> QED
    BY <1>1, <2>1 DEF PassesInOrder
<1>2. CASE pc'[r] \in {"fetch"} \cup Passing
  <2>1. \/ ReadCheckpoint(r) \/ Fetch(r)
        \/ \E g \in batch[r] : Apply(r, g) \/ DeadLetter(r, g) \/ Retry(r, g)
    BY <1>2 DEF Step, TryLock, Commit, Unlock, EndRebuild, Return, EndJob, Goto, Passing,
                TablesInv, TypeOK
  <2>2. /\ last[r] \in Nat /\ batch[r] \subseteq Positions /\ S \subseteq Nat
        /\ pc[r] # "idle" /\ p \in Projections /\ p' = p
        /\ checkpoint' = checkpoint /\ checkpoint[p] \in Nat
    <3>1. pc[r] # "idle" /\ p' = p /\ checkpoint' = checkpoint
      BY <2>1 DEF ReadCheckpoint, Fetch, Apply, DeadLetter, Retry, Projection, tables
    <3>2. p \in Projections
      BY <3>1, ProjectionType DEF TablesInv
    <3> QED
      BY <3>1, <3>2, Bounds, CommittedFinite DEF TablesInv, TypeOK
  <2>3. CASE ReadCheckpoint(r)
    <3>1. /\ pc'[r] = "fetch" /\ last'[r] = checkpoint[p] /\ batch'[r] = batch[r]
          /\ batch[r] = {}
      BY <2>3 DEF ReadCheckpoint, Goto, TablesInv, TypeOK, BatchInv, BatchOf, Passing
    <3> QED
      BY <2>2, <3>1 DEF PassesInOrder, Passing
  <2>4. CASE Fetch(r)
    <3>1. /\ pc[r] = "fetch" /\ pc'[r] # "fetch" /\ last'[r] = last[r]
          /\ batch'[r] = Window(last[r])
      BY <2>4 DEF Fetch, Goto, TablesInv, TypeOK
    <3>2. last[r] = checkpoint[p]
      BY <3>1 DEF PassesInOrder
    <3>3. \A b \in Window(last[r]), g \in S : last[r] < g /\ g <= b => g \in Window(last[r])
      BY <2>2, WindowClosed DEF TablesInv
    <3>4. \A g \in S : ~ (checkpoint[p] < g /\ g <= last[r])
      BY <2>2, <3>2
    <3> HIDE DEF p
    <3> QED
      BY <2>2, <3>1, <3>3, <3>4 DEF PassesInOrder, p
  <2>5. ASSUME NEW g \in batch[r], Apply(r, g) \/ DeadLetter(r, g)
        PROVE  PassesInOrder(r, S)'
    <3>1. /\ pc[r] = "apply" /\ pc'[r] \in Passing
          /\ last'[r] = g /\ batch'[r] = batch[r] \ {g} /\ Current(r, g)
      BY <2>5 DEF Apply, DeadLetter, Pass, Goto, Passing, TablesInv, TypeOK
    <3>2. applied'[r] \cup buried'[r] = applied[r] \cup buried[r] \cup {g}
      BY <2>5 DEF Apply, DeadLetter, TablesInv, TypeOK
    <3>3. g \in Nat /\ \A h \in batch[r] : h \in Nat /\ g <= h /\ last[r] < h
      BY <2>2, <3>1 DEF Current, Positions, TablesInv, BatchInv, BatchOf
    <3>4. ASSUME NEW h \in S, checkpoint[p] < h, h <= g
          PROVE  h \in applied'[r] \cup buried'[r]
      <4>1. CASE h <= last[r]
        BY <3>1, <3>2, <3>4, <4>1 DEF PassesInOrder, Passing
      <4>2. CASE ~ (h <= last[r])
        <5>1. h \in batch[r]
          BY <2>2, <3>4, <4>2 DEF PassesInOrder
        <5>2. h = g
          BY <2>2, <3>3, <3>4, <5>1
        <5> QED
          BY <3>2, <5>2
      <4> QED
        BY <4>1, <4>2
    <3>5. ASSUME NEW b \in batch'[r], NEW h \in S, g < h, h <= b
          PROVE  h \in batch'[r]
      <4>1. b \in batch[r] /\ last[r] < h /\ h # g
        BY <2>2, <3>1, <3>3, <3>5
      <4>2. h \in batch[r]
        BY <3>5, <4>1 DEF PassesInOrder
      <4> QED
        BY <3>1, <4>1, <4>2
    <3> HIDE DEF p
    <3> QED
      BY <2>2, <3>1, <3>4, <3>5 DEF PassesInOrder, Passing, p
  <2>6. ASSUME NEW g \in batch[r], Retry(r, g) PROVE PassesInOrder(r, S)'
    BY <2>6, <2>2 DEF Retry, PassesInOrder
  <2> QED
    BY <2>1, <2>3, <2>4, <2>5, <2>6
<1> QED
  BY <1>1, <1>2

(* A step of r leaves alone what q passes, whatever it is. *)
LEMMA OthersPass ==
  ASSUME TablesInv, NEW r \in Runners, NEW q \in Runners \ {r}, Step(r) \/ Crash(r), NEW S,
         ~ (Truncate(r) /\ Projection(r) = Projection(q)), PassesInOrder(q, S)
  PROVE  PassesInOrder(q, S)'
<1> DEFINE p == Projection(q)
<1>1. /\ pc'[q] = pc[q] /\ last'[q] = last[q] /\ batch'[q] = batch[q] /\ p' = p
      /\ applied'[q] = applied[q] /\ buried'[q] = buried[q]
  BY OthersUntouched DEF Projection
<1>2. CASE pc[q] \notin {"fetch"} \cup Passing
  BY <1>1, <1>2 DEF PassesInOrder
<1>3. CASE pc[q] \in {"fetch"} \cup Passing
  <2>1. p \in Projections
    BY <1>3, ProjectionType DEF Passing, TablesInv
  <2>2. ASSUME Commit(r) PROVE Projection(r) # p
    <3>1. lock[p] = q /\ pc[r] \in Holding
      BY <1>3, <2>1, <2>2 DEF HolderInv, TablesInv, Holding, Passing, Commit
    <3> QED
      BY <2>1, <3>1 DEF HolderInv, TablesInv
  <2>3. checkpoint'[p] = checkpoint[p]
    <3>1. CASE Commit(r)
      BY <2>1, <2>2, <3>1, WritesOwnTables, CommitFacts
    <3>2. CASE Truncate(r)
      BY <2>1, <3>2, WritesOwnTables, TruncateFacts
    <3>3. CASE ~ Commit(r) /\ ~ Truncate(r)
      BY <3>3, TablesUntouched DEF tables
    <3> QED
      BY <3>1, <3>2, <3>3
  <2> HIDE DEF p
  <2> QED
    BY <1>1, <2>3 DEF PassesInOrder, p
<1> QED
  BY <1>2, <1>3

LEMMA CrashPasses ==
  ASSUME TablesInv, NEW r \in Runners, Crash(r), NEW S
  PROVE  PassesInOrder(r, S)'
BY DEF Crash, EndJob, Goto, DropTransaction, TablesInv, TypeOK, PassesInOrder, Passing

-------------------------------------------------------------------------------
(* The read model before any rebuild *)

(* A commit that is not late comes after everything committed. *)
LEMMA InOrder ==
  ASSUME TablesInv, [Next]_vars, NEW h \in committed' \ late'
  PROVE  \/ h \in committed \ late
         \/ h \notin committed /\ UNCHANGED <<tables, pc, call, bounds>>
            /\ \A k \in committed : k < h
<1>1. ASSUME NEW g \in open, CommitAppend(g)
      PROVE  \/ h \in committed \ late
             \/ h \notin committed /\ \A k \in committed : k < h
  <2>1. h \in committed \cup {g} /\ late \subseteq late'
    BY <1>1 DEF CommitAppend
  <2>2. CASE h \in committed
    BY <2>1, <2>2
  <2>3. CASE h \notin committed
    <3>1. h = g /\ ~ \E k \in committed : k > g
      BY <2>1, <2>3, <1>1 DEF CommitAppend
    <3>2. committed \subseteq Nat /\ g \in Nat
      BY CommittedFinite DEF TablesInv, TypeOK
    <3> QED
      BY <2>3, <3>1, <3>2
  <2> QED
    BY <2>2, <2>3
<1>2. CASE \E g \in open : CommitAppend(g)
  <2>1. UNCHANGED <<tables, pc, call, bounds>>
    BY <1>2 DEF CommitAppend
  <2> QED
    BY <1>1, <1>2, <2>1
<1>3. CASE ~ \E g \in open : CommitAppend(g)
  <2>1. committed' = committed /\ late' = late
    BY <1>3 DEF Next, Append, Draw, RollbackAppend, Start, Step, Truncate, TryLock,
                ReadCheckpoint, Fetch, Apply, Retry, DeadLetter, Commit, Unlock, EndRebuild,
                Crash, log, vars
  <2> QED
    BY <2>1
<1> QED
  BY <1>2, <1>3

LEMMA InitViews == Init => ViewInv /\ TargetInv
<1> SUFFICES ASSUME Init PROVE ViewInv /\ TargetInv
  OBVIOUS
<1> USE DEF Init
<1>1. \A r \in Runners : PassesInOrder(r, committed \ late)
  BY DEF PassesInOrder, Passing
<1>2. ViewMatchesCheckpoint
  BY DEF ViewMatchesCheckpoint, Nowhere
<1>3. TargetInv
  BY DEF TargetInv, TargetOf
<1> QED
  BY <1>1, <1>2, <1>3 DEF ViewInv

(* Appends, calls and stuttering leave every transaction as it is. *)
LEMMA Outside ==
  ASSUME TablesInv, [Next]_vars, ~ \E r \in Runners : Step(r) \/ Crash(r)
  PROVE  /\ UNCHANGED <<tables, lock, last, batch, applied, buried, target>>
         /\ \A r \in Runners :
              \/ pc'[r] = pc[r] /\ job'[r] = job[r]
              \/ pc[r] = "idle" /\ pc'[r] \in {"truncate", "try_lock"}
BY DEF Next, Append, Draw, CommitAppend, RollbackAppend, Start, Goto, log, call, vars,
       TablesInv, TypeOK

LEMMA OutsidePasses ==
  ASSUME TablesInv, [Next]_vars, ~ \E r \in Runners : Step(r) \/ Crash(r),
         NEW r \in Runners, NEW S, PassesInOrder(r, S)
  PROVE  PassesInOrder(r, S)'
<1>1. CASE pc'[r] = pc[r] /\ job'[r] = job[r]
  BY <1>1, Outside DEF PassesInOrder, Projection, tables
<1>2. CASE pc[r] = "idle" /\ pc'[r] \in {"truncate", "try_lock"}
  BY <1>2, Outside DEF PassesInOrder, Passing, TablesInv, BatchInv, BatchOf
<1> QED
  BY <1>1, <1>2, Outside

LEMMA RebuildsCount ==
  ASSUME TablesInv, [Next]_vars, rebuilds' = 0
  PROVE  rebuilds = 0 /\ ~ \E r \in Runners : Truncate(r)
<1>1. rebuilds' = rebuilds \/ rebuilds' = rebuilds + 1
  <2>1. CASE \E r \in Runners : Step(r)
    BY <2>1 DEF Step, Truncate, TryLock, ReadCheckpoint, Fetch, Apply, Retry, DeadLetter,
                Commit, Unlock, EndRebuild, bounds
  <2>2. CASE \E r \in Runners, p \in Projections, mode \in Modes : Start(r, p, mode)
    BY <2>2 DEF Start
  <2>3. CASE Append \/ (\E r \in Runners : Crash(r)) \/ UNCHANGED vars
    BY <2>3 DEF Append, Draw, CommitAppend, RollbackAppend, Crash, vars, bounds
  <2> QED
    BY <2>1, <2>2, <2>3 DEF Next
<1>2. rebuilds = 0
  BY <1>1, Bounds DEF TablesInv, TypeOK
<1> QED
  BY <1>2, WritesOwnTables, TruncateFacts

LEMMA ViewNext == TablesInv /\ TablesInv' /\ ViewInv /\ [Next]_vars => ViewInv'
<1> SUFFICES ASSUME TablesInv, TablesInv', ViewInv, [Next]_vars, rebuilds' = 0
             PROVE  /\ \A r \in Runners : PassesInOrder(r, committed \ late)'
                    /\ ViewMatchesCheckpoint'
  BY DEF ViewInv
<1>1. /\ rebuilds = 0 /\ ~ \E r \in Runners : Truncate(r)
      /\ \A r \in Runners : PassesInOrder(r, committed \ late)
      /\ ViewMatchesCheckpoint
  BY RebuildsCount DEF ViewInv
<1>2. committed \subseteq Nat /\ committed \subseteq Positions /\ committed \subseteq committed'
      /\ late \subseteq late'
  BY CommittedFinite, CommittedGrows DEF TablesInv
<1>3. ASSUME NEW r \in Runners PROVE PassesInOrder(r, committed \ late)'
  <2> SUFFICES ASSUME NEW S, S = committed \ late PROVE PassesInOrder(r, committed \ late)'
    OBVIOUS
  <2>1. PassesInOrder(r, S)
    BY <1>1
  <2>2. PassesInOrder(r, S)'
    <3>1. CASE Step(r)
      BY <1>1, <2>1, <3>1, StepPasses
    <3>2. CASE Crash(r)
      BY <3>2, CrashPasses
    <3>3. ASSUME NEW q \in Runners \ {r}, Step(q) \/ Crash(q) PROVE PassesInOrder(r, S)'
      BY <1>1, <2>1, <3>3, OthersPass
    <3>4. CASE ~ \E q \in Runners : Step(q) \/ Crash(q)
      BY <2>1, <3>4, OutsidePasses
    <3> QED
      BY <3>1, <3>2, <3>3, <3>4
  <2>3. ASSUME NEW h \in committed' \ late', h \notin S
        PROVE  /\ UNCHANGED <<tables, pc, call, bounds>>
               /\ \A k \in committed : k < h
    BY <2>3, InOrder
  <2>4. CASE committed' \ late' \subseteq S
    BY <2>2, <2>4 DEF PassesInOrder
  <2>5. CASE ~ (committed' \ late' \subseteq S)
    <3>1. /\ UNCHANGED <<tables, pc, call, bounds>>
          /\ last[r] = 0 \/ last[r] \in committed
          /\ last[r] \in Nat /\ batch[r] \subseteq committed
      BY <2>3, <2>5, Bounds DEF TablesInv, TypeOK, BatchInv, BatchOf
    <3>2. committed' \subseteq Nat /\ \A h \in committed' : h > 0
      BY CommittedFinite DEF TablesInv, TypeOK
    <3>3. \A h \in committed' \ late' : h \notin S => last[r] < h /\ \A b \in batch[r] : b < h
      BY <2>3, <3>1, <3>2
    <3>4. \A h \in committed' \ late' : h \notin S => ~ (h <= last[r]) /\ \A b \in batch[r] : ~ (h <= b)
      <4>1. \A j, k \in Nat : j < k => ~ (k <= j)
        OBVIOUS
      <4>2. batch[r] \subseteq Nat
        BY <1>2, <3>1
      <4> QED
        BY <3>1, <3>2, <3>3, <4>1, <4>2
    <3>5. last' = last /\ batch' = batch
      BY <3>1 DEF call
    <3> QED
      BY <2>2, <3>4, <3>5 DEF PassesInOrder
  <2> QED
    BY <2>4, <2>5
<1>4. ViewMatchesCheckpoint'
  <2> SUFFICES ASSUME NEW p \in Projections, NEW g \in Positions, g \notin late'
               PROVE  view'[p][g] + dead'[p][g]
                        = (IF g \in committed' /\ g <= checkpoint'[p] THEN 1 ELSE 0)
    BY DEF ViewMatchesCheckpoint
  <2>1. /\ g \notin late /\ g \in Nat /\ view[p][g] \in Nat /\ dead[p][g] \in Nat
        /\ checkpoint[p] \in Nat
        /\ view[p][g] + dead[p][g] = (IF g \in committed /\ g <= checkpoint[p] THEN 1 ELSE 0)
    BY <1>1, <1>2, Bounds DEF ViewMatchesCheckpoint, TablesInv, TypeOK, Positions
  <2>2. CASE g \in committed' /\ g \notin committed
    <3>1. UNCHANGED tables /\ \A k \in committed : k < g
      BY <2>2, InOrder
    <3>2. checkpoint[p] = 0 \/ checkpoint[p] \in committed
      BY DEF TablesInv, CountInv
    <3>3. ~ (g <= checkpoint[p])
      BY <2>1, <3>1, <3>2 DEF Positions
    <3> QED
      BY <2>1, <2>2, <3>1, <3>3 DEF tables
  <2>3. CASE UNCHANGED tables /\ (g \in committed' <=> g \in committed)
    BY <2>1, <2>3 DEF tables
  <2>4. ASSUME NEW r \in Runners, Commit(r)
        PROVE  view'[p][g] + dead'[p][g]
                 = (IF g \in committed' /\ g <= checkpoint'[p] THEN 1 ELSE 0)
    <3>1. committed' = committed
      BY <2>4 DEF Commit, log
    <3>2. CASE p # Projection(r)
      BY <2>1, <2>4, <3>1, <3>2, WritesOwnTables, CommitFacts
    <3>3. CASE p = Projection(r)
      <4>1. /\ pc[r] = "commit" /\ last[r] \in Nat /\ checkpoint[p] <= last[r]
            /\ \A h \in applied[r] \cup buried[r] :
                 checkpoint[p] < h /\ h <= last[r] /\ h \in committed
            /\ applied[r] \cap buried[r] = {} /\ checkpoint'[p] = last[r]
            /\ view'[p][g] = view[p][g] + (IF g \in applied[r] THEN 1 ELSE 0)
            /\ dead'[p][g] = dead[p][g] + (IF g \in buried[r] THEN 1 ELSE 0)
        BY <2>4, <3>3, CommitFacts
      <4>2. g \in committed /\ checkpoint[p] < g /\ g <= last[r] => g \in applied[r] \cup buried[r]
        BY <1>1, <2>1, <3>3, <4>1 DEF PassesInOrder, Passing
      <4>3. CASE g \in applied[r]
        BY <2>1, <3>1, <4>1, <4>3
      <4>4. CASE g \in buried[r]
        BY <2>1, <3>1, <4>1, <4>4
      <4>5. CASE g \notin applied[r] \cup buried[r]
        BY <2>1, <3>1, <4>1, <4>2, <4>5
      <4> QED
        BY <4>3, <4>4, <4>5
    <3> QED
      BY <3>2, <3>3
  <2> QED
    BY <1>1, <1>2, <2>2, <2>3, <2>4, Writes
<1> QED
  BY <1>3, <1>4

(* The checkpoint says what the read model contains, for all events that     *)
(* commit in the order of their positions, until a rebuild: competing        *)
(* runners, failed attempts and crashes leave no gap and no double count.    *)
THEOREM ViewIsExact == Spec => []ViewMatchesCheckpoint
<1>1. Init => ViewInv
  BY InitViews
<1>2. TablesInv /\ TablesInv' /\ ViewInv /\ [Next]_vars => ViewInv'
  BY ViewNext
<1>3. ViewInv => ViewMatchesCheckpoint
  BY DEF ViewInv, ViewMatchesCheckpoint
<1> QED
  BY <1>1, <1>2, <1>3, TablesInvariant, PTL DEF Spec

-------------------------------------------------------------------------------
(* What a rebuild replays *)

LEMMA TargetOther ==
  ASSUME TablesInv, TargetInv, NEW r \in Runners, NEW q \in Runners \ {r},
         Step(q) \/ Crash(q), target'[r] # {}
  PROVE  /\ target'[r] = target[r]
         /\ ~ (Truncate(q) /\ Projection(q) = Projection(r))
         /\ Projection(r) \in Projections
         /\ lock'[Projection(r)] \in {None, r}
         /\ UNCHANGED <<view[Projection(r)], dead[Projection(r)], checkpoint[Projection(r)]>>
<1> DEFINE p == Projection(r)
<1>1. target'[r] = target[r] /\ ~ (Truncate(q) /\ Projection(q) = p)
      /\ ~ (TryLock(q) /\ Projection(q) = p /\ lock[p] = None)
  <2>1. /\ target \in [Runners -> SUBSET Positions]
        /\ pc \in [Runners -> Steps]
    BY DEF TablesInv, TypeOK
  <2>2. CASE Truncate(q)
    <3>1. target'[r] = (IF Projection(r) = Projection(q) THEN {} ELSE target[r])
      BY <2>2 DEF Truncate, StartTarget
    <3>2. ~ TryLock(q)
      BY <2>2 DEF Truncate, TryLock
    <3> QED
      BY <3>1, <3>2
  <2>3. CASE TryLock(q)
    <3>1. ~ Truncate(q)
      BY <2>3 DEF Truncate, TryLock
    <3>2. CASE lock[Projection(q)] = None
      <4>1. target'[r] = (IF Projection(r) = Projection(q) THEN {} ELSE target[r])
        BY <2>3, <3>2 DEF TryLock
      <4> QED
        BY <3>1, <4>1
    <3>3. CASE lock[Projection(q)] # None
      <4>1. target' = target
        BY <2>3, <3>3 DEF TryLock
      <4> QED
        BY <3>1, <3>3, <4>1
    <3> QED
      BY <3>2, <3>3
  <2>4. CASE EndRebuild(q) \/ Crash(q)
    <3>1. target' = [target EXCEPT ![q] = {}]
      BY <2>4 DEF EndRebuild, Crash
    <3>2. target'[r] = target[r]
      BY <2>1, <3>1
    <3>3. CASE EndRebuild(q)
      BY <3>2, <3>3 DEF EndRebuild, Truncate, TryLock
    <3>4. CASE Crash(q)
      <4>1. crashes' = crashes + 1 /\ crashes \in Nat
        BY <3>4, Bounds DEF Crash, TablesInv, TypeOK
      <4>2. crashes' # crashes
        BY <4>1
      <4>3. ASSUME Truncate(q) \/ TryLock(q) PROVE crashes' = crashes
        BY <4>3 DEF Truncate, TryLock, bounds
      <4> QED
        BY <3>2, <4>2, <4>3
    <3> QED
      BY <2>4, <3>3, <3>4
  <2>5. CASE Step(q) /\ ~ Truncate(q) /\ ~ TryLock(q) /\ ~ EndRebuild(q)
    <3>1. target' = target
      BY <2>5 DEF Step, ReadCheckpoint, Fetch, Apply, Retry, DeadLetter, Commit, Unlock
    <3> QED
      BY <2>5, <3>1
  <2> QED
    BY <2>2, <2>3, <2>4, <2>5
<1>2. /\ pc[r] # "idle" /\ lock[p] \in {None, r}
      /\ p \in Projections
  <2>1. pc[r] # "idle" /\ lock[p] \in {None, r}
    BY <1>1 DEF TargetInv, TargetOf
  <2> QED
    BY <2>1, ProjectionType DEF TablesInv
<1>3. ~ (Commit(q) /\ Projection(q) = p)
  <2>1. ASSUME Commit(q), Projection(q) = p PROVE lock[p] = q
    BY <1>2, <2>1 DEF Commit, TablesInv, HolderInv, Holding
  <2> QED
    BY <1>2, <2>1, Bounds
<1>4. UNCHANGED <<view[p], dead[p], checkpoint[p]>>
  <2>1. p' = p
    BY OthersUntouched DEF Projection
  <2>2. CASE Commit(q)
    BY <1>2, <1>3, <2>1, <2>2, WritesOwnTables, CommitFacts
  <2>3. CASE Truncate(q)
    BY <1>1, <1>2, <2>1, <2>3, WritesOwnTables, TruncateFacts
  <2>4. CASE ~ Commit(q) /\ ~ Truncate(q)
    BY <2>1, <2>4, TablesUntouched DEF tables
  <2> QED
    BY <2>2, <2>3, <2>4
<1>5. lock'[p] \in {None, r}
  <2>1. CASE TryLock(q)
    BY <1>1, <1>2, <2>1 DEF TryLock, TablesInv, TypeOK, Return
  <2>2. CASE Unlock(q)
    BY <1>2, <2>2 DEF Unlock, TablesInv, TypeOK
  <2>3. CASE Crash(q)
    BY <1>2, <2>3 DEF Crash
  <2>4. CASE Step(q) /\ ~ TryLock(q) /\ ~ Unlock(q)
    BY <1>2, <2>4 DEF Step, Truncate, ReadCheckpoint, Fetch, Apply, Retry, DeadLetter,
                      Commit, EndRebuild
  <2> QED
    BY <2>1, <2>2, <2>3, <2>4
<1> QED
  BY <1>1, <1>2, <1>4, <1>5

LEMMA TargetOwn ==
  ASSUME TablesInv, TablesInv', TargetInv, NEW r \in Runners, Step(r)
  PROVE  TargetOf(r)'
<1> DEFINE p == Projection(r)
<1>1. pc[r] # "idle" /\ p \in Projections /\ TargetOf(r)
  <2>1. pc[r] # "idle"
    BY DEF Step, Truncate, TryLock, ReadCheckpoint, Fetch, Apply, Retry, DeadLetter, Commit,
           Unlock, EndRebuild
  <2> QED
    BY <2>1, ProjectionType DEF TargetInv, TablesInv
<1>2. SUFFICES ASSUME target'[r] # {} PROVE TargetOf(r)'
  BY DEF TargetOf
<1>3. committed \subseteq Positions /\ committed' = committed
      /\ target \in [Runners -> SUBSET Positions]
  BY CommittedFinite DEF TablesInv, TypeOK, Step, Truncate, TryLock, ReadCheckpoint, Fetch,
     Apply, Retry, DeadLetter, Commit, Unlock, EndRebuild, log
<1>4. CASE Truncate(r)
  <2>1. /\ target'[r] = committed /\ lock[p] = None /\ lock' = lock /\ job' = job
        /\ pc[r] = "truncate" /\ pc'[r] = "try_lock" /\ checkpoint'[p] = 0
        /\ batch'[r] = batch[r] /\ p' = p
    BY <1>1, <1>2, <1>4, TruncateFacts DEF Truncate, StartTarget, Projection
  <2>2. job[r].mode = "rebuild" /\ batch[r] = {}
    BY <2>1 DEF TablesInv, JobInv, BatchInv, BatchOf, Passing
  <2>3. \A g \in committed : ~ (g <= 0)
    BY <1>3 DEF Positions
  <2>4. PassesInOrder(r, target[r])'
    BY <2>1, <2>2 DEF PassesInOrder, Passing
  <2> HIDE DEF p
  <2> QED
    BY <1>3, <2>1, <2>2, <2>3, <2>4 DEF TargetOf, p
<1>5. CASE ~ Truncate(r)
  <2>1. target'[r] = target[r] /\ p' = p /\ job'[r] = job[r]
        /\ (TryLock(r) => lock[p] = None)
    <3>1. CASE TryLock(r)
      <4>1. target'[r] = target[r]
        BY <3>1, <1>3 DEF TryLock
      <4>2. lock[p] # r /\ lock[p] \in {None, r}
        BY <1>1, <1>2, <3>1, <4>1 DEF TryLock, TablesInv, HolderInv, Holding, TargetOf
      <4> QED
        BY <3>1, <4>1, <4>2 DEF TryLock, Projection
    <3>2. CASE Unlock(r)
      <4>1. target'[r] = target[r]
        BY <3>2 DEF Unlock
      <4>2. job[r].mode = "rebuild"
        BY <1>1, <1>2, <4>1 DEF TargetOf
      <4> QED
        BY <3>2, <4>1, <4>2 DEF Unlock, Return, Projection, TryLock
    <3>3. CASE EndRebuild(r)
      BY <1>2, <1>3, <3>3 DEF EndRebuild
    <3>4. CASE ~ TryLock(r) /\ ~ Unlock(r) /\ ~ EndRebuild(r)
      BY <1>5, <3>4 DEF Step, ReadCheckpoint, Fetch, Apply, Retry, DeadLetter, Commit,
                        Projection, call
    <3> QED
      BY <3>1, <3>2, <3>3, <3>4
  <2>2. /\ target[r] # {} /\ job[r].mode = "rebuild" /\ lock[p] \in {None, r}
        /\ target[r] \subseteq committed
        /\ \A g \in target[r] : g <= checkpoint[p] => Projected(p, g)
        /\ PassesInOrder(r, target[r])
        /\ pc[r] \in {"unlock_idle", "rebuilt"} => \A g \in target[r] : g <= checkpoint[p]
    BY <1>1, <1>2, <2>1 DEF TargetOf
  <2>3. PassesInOrder(r, target[r])'
    <3> SUFFICES ASSUME NEW S, S = target[r] PROVE PassesInOrder(r, target[r])'
      OBVIOUS
    <3>1. PassesInOrder(r, S)'
      BY <2>2, <1>5, StepPasses
    <3> QED
      BY <2>1, <3>1 DEF PassesInOrder
  <2>4. lock'[p] \in {None, r}
    BY <1>1, <2>1, <2>2 DEF Step, Truncate, TryLock, ReadCheckpoint, Fetch, Apply, Retry,
       DeadLetter, Commit, Unlock, EndRebuild, TablesInv, TypeOK
  <2>5. \A g \in target[r] : g <= checkpoint'[p] => view'[p][g] > 0 \/ dead'[p][g] > 0
    <3>1. CASE Commit(r)
      <4> SUFFICES ASSUME NEW g \in target[r], g <= checkpoint'[p]
                   PROVE  view'[p][g] > 0 \/ dead'[p][g] > 0
        OBVIOUS
      <4>1. g \in Positions /\ g \in Nat
        BY <1>3, <2>2 DEF Positions
      <4>2. /\ pc[r] = "commit" /\ last[r] \in Nat /\ checkpoint[p] \in Nat
            /\ checkpoint'[p] = last[r]
            /\ view'[p][g] = view[p][g] + (IF g \in applied[r] THEN 1 ELSE 0)
            /\ dead'[p][g] = dead[p][g] + (IF g \in buried[r] THEN 1 ELSE 0)
            /\ view[p][g] \in Nat /\ dead[p][g] \in Nat
        BY <1>1, <3>1, <4>1, CommitFacts
      <4>3. CASE g <= checkpoint[p]
        BY <2>2, <4>2, <4>3 DEF Projected
      <4>4. CASE ~ (g <= checkpoint[p])
        <5>1. checkpoint[p] < g /\ g <= last[r]
          BY <4>1, <4>2, <4>4
        <5>2. g \in applied[r] \cup buried[r]
          BY <2>2, <4>2, <5>1 DEF PassesInOrder, Passing
        <5> QED
          BY <4>2, <5>2
      <4> QED
        BY <4>3, <4>4
    <3>2. CASE ~ Commit(r)
      BY <1>5, <2>2, <3>2, TablesUntouched DEF Projected, tables
    <3> QED
      BY <3>1, <3>2
  <2>6. /\ pc'[r] \notin {"idle", "truncate"}
        /\ pc'[r] \in {"unlock_idle", "rebuilt"} => \A g \in target[r] : g <= checkpoint'[p]
    <3>1. CASE Fetch(r)
      <4>1. /\ pc[r] = "fetch" /\ checkpoint' = checkpoint /\ last[r] \in Nat
            /\ pc'[r] = (IF Window(last[r]) = {} THEN "unlock_idle" ELSE "apply")
        BY <3>1, Bounds DEF Fetch, Goto, TablesInv, TypeOK, tables
      <4>2. last[r] = checkpoint[p]
        BY <2>2, <4>1 DEF PassesInOrder
      <4>3. Window(last[r]) = {} => \A g \in committed : g <= last[r]
        BY <4>1, WindowEmpty DEF TablesInv
      <4> QED
        BY <2>2, <4>1, <4>2, <4>3
    <3>2. CASE Unlock(r)
      BY <2>2, <3>2 DEF Unlock, Return, Goto, TablesInv, TypeOK, tables
    <3>3. CASE TryLock(r)
      BY <2>1, <3>3 DEF TryLock, Goto, TablesInv, TypeOK
    <3>4. CASE EndRebuild(r)
      BY <1>2, <1>3, <3>4 DEF EndRebuild
    <3>5. CASE ReadCheckpoint(r) \/ Commit(r)
      BY <3>5 DEF ReadCheckpoint, Commit, Goto, TablesInv, TypeOK
    <3>6. ASSUME NEW g \in batch[r], Apply(r, g) \/ Retry(r, g) \/ DeadLetter(r, g)
          PROVE  pc'[r] \in Passing
      BY <3>6 DEF Apply, Retry, DeadLetter, Pass, Goto, Passing, TablesInv, TypeOK
    <3> QED
      BY <1>5, <3>1, <3>2, <3>3, <3>4, <3>5, <3>6 DEF Step, Passing
  <2> HIDE DEF p
  <2>7. \A g \in target'[r] : g <= checkpoint'[p] => Projected(p, g)'
    BY <2>1, <2>5 DEF Projected
  <2> QED
    BY <1>3, <2>1, <2>2, <2>3, <2>4, <2>5, <2>6 DEF TargetOf, Projected, p
<1> QED
  BY <1>4, <1>5

LEMMA TargetNext == TablesInv /\ TablesInv' /\ TargetInv /\ [Next]_vars => TargetInv'
<1> SUFFICES ASSUME TablesInv, TablesInv', TargetInv, [Next]_vars, NEW r \in Runners,
                    target'[r] # {}
             PROVE  TargetOf(r)'
  BY DEF TargetInv, TargetOf
<1> DEFINE p == Projection(r)
<1>1. TargetOf(r) /\ committed \subseteq committed'
  BY CommittedGrows DEF TargetInv
<1>2. CASE Step(r)
  BY <1>2, TargetOwn
<1>3. CASE Crash(r)
  <2>1. target'[r] = {}
    BY <1>3 DEF Crash, TablesInv, TypeOK
  <2> QED
    BY <2>1
<1>4. ASSUME NEW q \in Runners \ {r}, Step(q) \/ Crash(q) PROVE TargetOf(r)'
  <2>1. /\ target'[r] = target[r] /\ ~ (Truncate(q) /\ Projection(q) = p)
        /\ lock'[p] \in {None, r}
        /\ UNCHANGED <<view[p], dead[p], checkpoint[p]>>
    BY <1>4, TargetOther
  <2>2. /\ pc'[r] = pc[r] /\ job'[r] = job[r] /\ p' = p
    BY <1>4, OthersUntouched DEF Projection
  <2>3. PassesInOrder(r, target[r])'
    <3> SUFFICES ASSUME NEW S, S = target[r] PROVE PassesInOrder(r, target[r])'
      OBVIOUS
    <3>1. PassesInOrder(r, S)
      BY <1>1, <2>1 DEF TargetOf
    <3>2. PassesInOrder(r, S)'
      BY <1>4, <2>1, <3>1, OthersPass
    <3> QED
      BY <2>1, <3>2 DEF PassesInOrder
  <2> HIDE DEF p
  <2> QED
    BY <1>1, <2>1, <2>2, <2>3 DEF TargetOf, Projected, p
<1>5. CASE ~ \E q \in Runners : Step(q) \/ Crash(q)
  <2>1. UNCHANGED <<tables, lock, last, batch, applied, buried, target>>
    BY <1>5, Outside
  <2>2. pc[r] # "idle"
    BY <1>1, <2>1 DEF TargetOf
  <2>3. pc'[r] = pc[r] /\ job'[r] = job[r] /\ p' = p
    BY <1>5, <2>2, Outside DEF Projection
  <2> HIDE DEF p
  <2> QED
    BY <1>1, <2>1, <2>3 DEF TargetOf, PassesInOrder, Projected, tables, p
<1> QED
  BY <1>2, <1>3, <1>4, <1>5

(* When a rebuild returns, it has replayed or dead-lettered every event that *)
(* had committed when it truncated the read model, unless another runner     *)
(* took the advisory lock or truncated again: the advisory lock it does not  *)
(* take itself is not needed for that.                                       *)
THEOREM RebuildIsComplete == Spec => []RebuildReplaysEverything
<1>1. Init => TargetInv
  BY InitViews
<1>2. TablesInv /\ TablesInv' /\ TargetInv /\ [Next]_vars => TargetInv'
  BY TargetNext
<1>3. TargetInv => RebuildReplaysEverything
  BY DEF TargetInv, TargetOf, RebuildReplaysEverything
<1> QED
  BY <1>1, <1>2, <1>3, TablesInvariant, PTL DEF Spec
=============================================================================
