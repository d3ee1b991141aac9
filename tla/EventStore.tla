------------------------------ MODULE EventStore ------------------------------
(***************************************************************************)
(* EventStore.append and archive_stream (src/event_store.py) as the        *)
(* PostgreSQL transactions they run, over the tables of src/schema.sql, at *)
(* READ COMMITTED, the isolation level conn.transaction() asks for.        *)
(*                                                                         *)
(* One statement of the transaction is one step, so that writers           *)
(* interleave between statements; a crash or a lost connection may end a   *)
(* transaction after any of them.  A row lock (SELECT .. FOR UPDATE) and   *)
(* the unique-index wait of an INSERT of the same stream_id are one lock   *)
(* per stream.                                                             *)
(***************************************************************************)
EXTENDS Integers

CONSTANTS
  Streams,            \* stream ids
  Writers,            \* concurrent callers of append()
  None,               \* "nobody holds the lock"
  ExpectedVersions,   \* values callers pass as expected_version
  MaxBatch,           \* bound: events per append
  MaxSeq              \* bound: once this many positions are drawn no batch is appended

ASSUME ConstantsAssumption ==
  /\ None \notin Writers
  /\ ExpectedVersions \subseteq Nat \cup {-1}
  /\ MaxBatch \in Nat
  /\ MaxSeq \in Nat

VARIABLES
  \* committed tables
  events,     \* rows of events: [stream, pos, gp, by]; by is the writer (payload)
  known,      \* streams that have an event_streams row
  version,    \* event_streams.current_version (0 where there is no row)
  archived,   \* streams whose archived_at is set
  outbox,     \* global positions of the events that have an outbox row
  \* server state outside the tables
  seq,        \* last value drawn from the identity of events.global_position;
              \* sequences are not transactional
  lock,       \* lock[s]: the writer that holds the event_streams row of s
  \* one append() call per writer
  pc,         \* next statement of the call
  req,        \* its arguments: [stream, expected, size]
  base,       \* current_version as the call read it
  ordinal,    \* how many events of the batch are inserted
  rows,       \* events rows inserted and not yet committed
  sent,       \* global positions of the outbox rows not yet committed
  reply       \* how the call ends

tables == <<events, known, version, archived, outbox>>
vars == <<tables, seq, lock,
          pc, req, base, ordinal, rows, sent, reply>>

NewStream == -1

Row == [stream : Streams, pos : Nat, gp : Nat, by : Writers]

NoRequest == [stream |-> None, expected |-> NewStream, size |-> 0]

Request == [stream : Streams, expected : Nat \cup {NewStream}, size : Nat]

(* Phases in which the transaction holds the row lock of its stream. *)
Locking == {"insert_events", "insert_outbox", "commit"}

Unfinished == {"select", "insert_stream", "unique_violation"} \cup Locking

Phases == Unfinished \cup {"idle", "return"}

Replies == {"ok", "conflict", "archived", "empty", "failed"}

TypeOK ==
  /\ events \subseteq Row
  /\ known \subseteq Streams
  /\ version \in [Streams -> Nat]
  /\ archived \subseteq Streams
  /\ outbox \subseteq Nat
  /\ seq \in Nat
  /\ lock \in [Streams -> Writers \cup {None}]
  /\ pc \in [Writers -> Phases]
  /\ req \in [Writers -> Request \cup {NoRequest}]
  /\ base \in [Writers -> Nat]
  /\ ordinal \in [Writers -> Nat]
  /\ rows \in [Writers -> SUBSET Row]
  /\ sent \in [Writers -> SUBSET Nat]
  /\ reply \in [Writers -> Replies]

-------------------------------------------------------------------------------

Init ==
  /\ events = {}
  /\ known = {}
  /\ version = [s \in Streams |-> 0]
  /\ archived = {}
  /\ outbox = {}
  /\ seq = 0
  /\ lock = [s \in Streams |-> None]
  /\ pc = [w \in Writers |-> "idle"]
  /\ req = [w \in Writers |-> NoRequest]
  /\ base = [w \in Writers |-> 0]
  /\ ordinal = [w \in Writers |-> 0]
  /\ rows = [w \in Writers |-> {}]
  /\ sent = [w \in Writers |-> {}]
  /\ reply = [w \in Writers |-> "failed"]

Goto(w, phase) == pc' = [pc EXCEPT ![w] = phase]

Finish(w, result) ==
  /\ Goto(w, "return")
  /\ reply' = [reply EXCEPT ![w] = result]

Acquire(w, s) == lock' = [lock EXCEPT ![s] = w]

ReleaseLocks(w) == lock' = [s \in Streams |-> IF lock[s] = w THEN None ELSE lock[s]]

DiscardUncommitted(w) ==
  /\ ordinal' = [ordinal EXCEPT ![w] = 0]
  /\ rows' = [rows EXCEPT ![w] = {}]
  /\ sent' = [sent EXCEPT ![w] = {}]

(* append(stream_id, events, expected_version) is called; the transaction    *)
(* begins, or an empty batch is refused before any connection is taken.      *)
Call(w, s, expected, n) ==
  /\ pc[w] = "idle"
  /\ n > 0 => seq < MaxSeq
  /\ req' = [req EXCEPT ![w] = [stream |-> s, expected |-> expected, size |-> n]]
  /\ Goto(w, "select")
  /\ UNCHANGED <<tables, seq, lock, base, ordinal, rows, sent, reply>>

EmptyBatch(w) ==
  /\ pc[w] = "select"
  /\ req[w].size = 0
  /\ Finish(w, "empty")
  /\ UNCHANGED <<tables, seq, lock, req, base, ordinal, rows, sent>>

(* Mutation of SelectMissing: the version of a new stream is taken from the  *)
(* caller.                                                                   *)
SelectMissingTrusting(w) ==
  /\ pc[w] = "select"
  /\ req[w].size > 0
  /\ req[w].stream \notin known
  /\ Goto(w, "insert_stream")
  /\ base' = [base EXCEPT ![w] = req[w].expected]
  /\ UNCHANGED <<tables, seq, lock, req, ordinal, rows, sent, reply>>

(* SELECT .. FOR UPDATE finds no row: nothing is locked. *)
SelectMissing(w) ==
  LET s == req[w].stream
  IN /\ pc[w] = "select"
     /\ req[w].size > 0
     /\ s \notin known
     /\ IF req[w].expected # NewStream
        THEN Finish(w, "conflict") /\ UNCHANGED base
        ELSE /\ Goto(w, "insert_stream")
             /\ base' = [base EXCEPT ![w] = 0]
             /\ UNCHANGED reply
     /\ UNCHANGED <<tables, seq, lock, req, ordinal, rows, sent>>

(* Mutations of SelectExisting: without FOR UPDATE the statement does not    *)
(* wait; without the version gate any expected_version is accepted.          *)
Admit(w, s) ==
  /\ Acquire(w, s)
  /\ base' = [base EXCEPT ![w] = version[s]]
  /\ Goto(w, "insert_events")
  /\ UNCHANGED <<tables, seq, req, ordinal, rows, sent, reply>>

SelectExistingUnlocked(w) ==
  /\ pc[w] = "select"
  /\ req[w].size > 0
  /\ req[w].stream \in known \ archived
  /\ req[w].expected = version[req[w].stream]
  /\ Admit(w, req[w].stream)

SelectExistingUngated(w) ==
  /\ pc[w] = "select"
  /\ req[w].size > 0
  /\ req[w].stream \in known \ archived
  /\ lock[req[w].stream] = None
  /\ Admit(w, req[w].stream)

(* SELECT .. FOR UPDATE waits for the row lock and reads the committed row;  *)
(* a refusal rolls the transaction back at once, so the lock is never seen.  *)
SelectExisting(w) ==
  LET s == req[w].stream
  IN /\ pc[w] = "select"
     /\ req[w].size > 0
     /\ s \in known
     /\ lock[s] = None
     /\ IF s \in archived
        THEN Finish(w, "archived") /\ UNCHANGED <<lock, base>>
        ELSE IF req[w].expected = NewStream \/ req[w].expected # version[s]
             THEN Finish(w, "conflict") /\ UNCHANGED <<lock, base>>
             ELSE /\ Acquire(w, s)
                  /\ base' = [base EXCEPT ![w] = version[s]]
                  /\ Goto(w, "insert_events")
                  /\ UNCHANGED reply
     /\ UNCHANGED <<tables, seq, req, ordinal, rows, sent>>

(* Mutation of InsertStream: ON CONFLICT DO NOTHING in place of an error. *)
InsertStreamLenient(w) ==
  /\ pc[w] = "insert_stream"
  /\ Goto(w, "insert_events")
  /\ Acquire(w, req[w].stream)
  /\ UNCHANGED <<tables, seq, req, base, ordinal, rows, sent, reply>>

(* INSERT INTO event_streams waits for a concurrent insert of the same key;  *)
(* if that one committed, the statement fails with UniqueViolationError.     *)
InsertStream(w) ==
  LET s == req[w].stream
  IN /\ pc[w] = "insert_stream"
     /\ lock[s] = None
     /\ IF s \in known
        THEN Goto(w, "unique_violation") /\ UNCHANGED lock
        ELSE Goto(w, "insert_events") /\ Acquire(w, s)
     /\ UNCHANGED <<tables, seq, req, base, ordinal, rows, sent, reply>>

(* Mutation of InsertEvent: ROW_NUMBER() numbers the batch backwards. *)
InsertEventBackwards(w) ==
  LET i == ordinal[w] + 1
      row == [stream |-> req[w].stream, pos |-> base[w] + req[w].size - ordinal[w],
              gp |-> seq + 1, by |-> w]
  IN /\ pc[w] = "insert_events"
     /\ rows' = [rows EXCEPT ![w] = @ \cup {row}]
     /\ ordinal' = [ordinal EXCEPT ![w] = i]
     /\ seq' = seq + 1
     /\ IF i = req[w].size THEN Goto(w, "insert_outbox") ELSE UNCHANGED pc
     /\ UNCHANGED <<events, known, version, archived, outbox, lock, req, base, sent, reply>>

(* INSERT .. SELECT of the batch: every row takes the next stream position   *)
(* and draws a global position as it is inserted.                            *)
InsertEvent(w) ==
  LET i == ordinal[w] + 1
      row == [stream |-> req[w].stream, pos |-> base[w] + i, gp |-> seq + 1, by |-> w]
  IN /\ pc[w] = "insert_events"
     /\ rows' = [rows EXCEPT ![w] = @ \cup {row}]
     /\ ordinal' = [ordinal EXCEPT ![w] = i]
     /\ seq' = seq + 1
     /\ IF i = req[w].size THEN Goto(w, "insert_outbox") ELSE UNCHANGED pc
     /\ UNCHANGED <<events, known, version, archived, outbox, lock, req, base, sent, reply>>

(* Mutation of InsertOutbox: the outbox is written outside the transaction. *)
InsertOutboxAtOnce(w) ==
  /\ pc[w] = "insert_outbox"
  /\ outbox' = outbox \cup {r.gp : r \in rows[w]}
  /\ sent' = [sent EXCEPT ![w] = {r.gp : r \in rows[w]}]
  /\ Goto(w, "commit")
  /\ UNCHANGED <<events, known, version, archived, seq, lock, req, base, ordinal, rows, reply>>

(* for r in inserted: INSERT INTO outbox *)
InsertOutbox(w) ==
  /\ pc[w] = "insert_outbox"
  /\ \E r \in rows[w] :
       /\ r.gp \notin sent[w]
       /\ \A q \in rows[w] : q.pos < r.pos => q.gp \in sent[w]
       /\ sent' = [sent EXCEPT ![w] = @ \cup {r.gp}]
       /\ IF \A q \in rows[w] : q.gp \in sent[w] \cup {r.gp}
          THEN Goto(w, "commit")
          ELSE UNCHANGED pc
  /\ UNCHANGED <<tables, seq, lock, req, base, ordinal, rows, reply>>

(* UPDATE event_streams SET current_version, then COMMIT.  The connection    *)
(* may break after the server has committed: the caller then sees a failure. *)
Commit(w, result) ==
  LET s == req[w].stream
  IN /\ pc[w] = "commit"
     /\ events' = events \cup rows[w]
     /\ outbox' = outbox \cup sent[w]
     /\ known' = known \cup {s}
     /\ version' = [version EXCEPT ![s] = base[w] + req[w].size]
     /\ ReleaseLocks(w)
     /\ DiscardUncommitted(w)
     /\ Finish(w, result)
     /\ UNCHANGED <<archived, seq, req, base>>

(* Mutation of Abort: the lock of a lost connection is not released. *)
AbortKeepingLock(w) ==
  /\ pc[w] \in Unfinished
  /\ req[w].size > 0
  /\ DiscardUncommitted(w)
  /\ Finish(w, "failed")
  /\ UNCHANGED <<tables, seq, lock, req, base>>

(* A crash of the caller or of its connection: the server rolls back.        *)
Abort(w) ==
  /\ pc[w] \in Unfinished
  /\ req[w].size > 0
  /\ ReleaseLocks(w)
  /\ DiscardUncommitted(w)
  /\ Finish(w, "failed")
  /\ UNCHANGED <<tables, seq, req, base>>

(* except UniqueViolationError: read the actual version, report a conflict.  *)
UniqueViolation(w) ==
  /\ pc[w] = "unique_violation"
  /\ Finish(w, "conflict")
  /\ UNCHANGED <<tables, seq, lock, req, base, ordinal, rows, sent>>

Return(w) ==
  /\ pc[w] = "return"
  /\ Goto(w, "idle")
  /\ req' = [req EXCEPT ![w] = NoRequest]
  /\ base' = [base EXCEPT ![w] = 0]
  /\ reply' = [reply EXCEPT ![w] = "failed"]
  /\ UNCHANGED <<tables, seq, lock, ordinal, rows, sent>>

(* Mutation of Archive: the UPDATE does not wait for a running append. *)
ArchiveAtOnce(s) ==
  /\ s \in known
  /\ archived' = archived \cup {s}
  /\ UNCHANGED <<events, known, version, outbox, seq, lock, pc, req, base, ordinal, rows, sent, reply>>

(* archive_stream: one UPDATE, which waits for the row lock; it touches no   *)
(* row when the stream does not exist.                                       *)
Archive(s) ==
  /\ s \in known
  /\ lock[s] = None
  /\ archived' = archived \cup {s}
  /\ UNCHANGED <<events, known, version, outbox, seq, lock, pc, req, base, ordinal, rows, sent, reply>>

-------------------------------------------------------------------------------

Execute(w) ==
  \/ EmptyBatch(w)
  \/ SelectMissing(w)
  \/ SelectExisting(w)
  \/ InsertStream(w)
  \/ InsertEvent(w)
  \/ InsertOutbox(w)
  \/ \E result \in {"ok", "failed"} : Commit(w, result)
  \/ UniqueViolation(w)
  \/ Return(w)

Next ==
  \/ \E w \in Writers :
       \/ \E s \in Streams, expected \in ExpectedVersions, n \in 0..MaxBatch :
            Call(w, s, expected, n)
       \/ Execute(w)
       \/ Abort(w)
  \/ \E s \in Streams : Archive(s)

Spec == Init /\ [][Next]_vars

(* asyncio runs every started call on; PostgreSQL queues the waiters of a    *)
(* row lock, so one that waits is served although others come and go.        *)
Fairness == \A w \in Writers : SF_vars(Execute(w))

FairSpec == Spec /\ Fairness
-------------------------------------------------------------------------------
(* Safety *)

RowsOf(s) == {r \in events : r.stream = s}

(* The positions of a stream are exactly 1 .. current_version, without gap   *)
(* or duplicate, whatever writers interleave and wherever they crash: what   *)
(* every reader of a stream and every expected_version relies on.            *)
PositionsAreContiguous ==
  \A s \in Streams :
    /\ {r.pos : r \in RowsOf(s)} = 1..version[s]
    /\ \A q, r \in RowsOf(s) : q.pos = r.pos => q = r
    /\ s \in known <=> version[s] > 0

(* Positions of one stream and global positions agree on the order of its    *)
(* events: append draws global positions only while it holds the row lock.   *)
(* Rule 3 and the audit timeline compare events of a stream by the latter.   *)
StreamOrderIsGlobalOrder ==
  \A s \in Streams : \A q, r \in RowsOf(s) : q.pos < r.pos => q.gp < r.gp

(* Rows a transaction has inserted and not yet committed collide with no     *)
(* committed row and with no row of another transaction: the version gate    *)
(* alone keeps uq_stream_position, so the constraint never refuses an insert *)
(* of events; a UniqueViolationError can only come from event_streams.       *)
NoPositionCollision ==
  \A w \in Writers : \A r \in rows[w] :
    /\ \A q \in events : q.stream = r.stream => q.pos # r.pos
    /\ \A v \in Writers \ {w} : \A q \in rows[v] : q.stream = r.stream => q.pos # r.pos

(* The outbox lists every committed event once and no event that was rolled  *)
(* back (one row per stored event, same transaction).                        *)
OutboxMatchesEvents ==
  /\ outbox = {r.gp : r \in events}
  /\ \A q, r \in events : q.gp = r.gp => q = r

(* An archived stream gets no more events, not even from an append that was  *)
(* past its STREAM_ARCHIVED check when archive_stream ran.                   *)
ArchivedStreamsAreFrozen ==
  [][\A s \in archived : version'[s] = version[s] /\ s \in archived']_vars

(* Liveness *)

(* Every append returns: no call waits forever on a lock another one left.   *)
EveryCallReturns ==
  \A w \in Writers : pc[w] \in Unfinished ~> pc[w] = "idle"

(* Refinement *)

(* The call of a writer as AtomicLog sees it. *)
CallOf(w) ==
  CASE pc[w] = "idle" -> [phase |-> "idle"]
    [] pc[w] = "return" -> [phase |-> "decided", reply |-> reply[w]]
    [] OTHER -> [phase |-> "pending", stream |-> req[w].stream,
                 expected |-> req[w].expected, size |-> req[w].size]

WriterAt(s, p) == (CHOOSE r \in events : r.stream = s /\ r.pos = p).by

StreamLog(s) == [p \in 1..version[s] |-> WriterAt(s, p)]

Logs == [s \in Streams |-> StreamLog(s)]

Calls == [w \in Writers |-> CallOf(w)]

Abstract == INSTANCE AtomicLog WITH log <- Logs, call <- Calls

(* The transactions implement the indivisible append of AtomicLog: at most   *)
(* one of the calls that name a version adds its batch, and a conflict is    *)
(* reported only to a caller whose version really was out of date.           *)
RefinesAtomicLog == Abstract!ASpec
-------------------------------------------------------------------------------
(* The inductive invariant behind the safety properties. *)

(* A stream is locked by exactly the transaction that is writing to it. *)
LockInv ==
  \A w \in Writers, s \in Streams :
    lock[s] = w <=> pc[w] \in Locking /\ req[w].stream = s

(* What a call knows in each phase.  While it holds the lock, the version it *)
(* read is the current one and the stream is not archived.                   *)
CallInv ==
  \A w \in Writers :
    LET s == req[w].stream
    IN /\ pc[w] # "idle" => req[w] \in Request
       /\ pc[w] \in {"insert_stream", "unique_violation"} => req[w].expected = NewStream
       /\ pc[w] = "insert_stream" => base[w] = 0
       /\ pc[w] = "unique_violation" => s \in known
       /\ pc[w] \in Unfinished \ {"select"} => req[w].size > 0
       /\ pc[w] \in Locking =>
            /\ base[w] = version[s]
            /\ s \notin archived
            /\ req[w].expected = (IF version[s] = 0 THEN NewStream ELSE version[s])

(* Rows that are inserted and not committed are the caller's own and         *)
(* continue the stream from the version that was read, in the order of their *)
(* global positions.                                                         *)
BufferOf(w) ==
  /\ pc[w] \notin Locking => rows[w] = {} /\ sent[w] = {} /\ ordinal[w] = 0
  /\ \A r \in rows[w] :
       /\ r.stream = req[w].stream /\ r.by = w
       /\ r.pos \in base[w] + 1 .. base[w] + ordinal[w]
       /\ r.gp <= seq
  /\ \A p \in base[w] + 1 .. base[w] + ordinal[w] : \E r \in rows[w] : r.pos = p
  /\ \A q, r \in rows[w] : q.pos = r.pos => q = r
  /\ \A q, r \in rows[w] : q.pos < r.pos => q.gp < r.gp
  /\ \A g \in sent[w] : \E r \in rows[w] : r.gp = g
  /\ pc[w] = "insert_events" => ordinal[w] < req[w].size /\ sent[w] = {}
  /\ pc[w] \in {"insert_outbox", "commit"} => ordinal[w] = req[w].size
  /\ pc[w] = "commit" => \A r \in rows[w] : r.gp \in sent[w]

BufferInv == \A w \in Writers : BufferOf(w)

(* Global positions are drawn once: committed and uncommitted rows differ,   *)
(* and in one stream the committed rows come before the uncommitted ones.    *)
DrawnInv ==
  /\ \A r \in events : r.gp <= seq
  /\ \A q, r \in events : q.gp = r.gp => q = r
  /\ \A w \in Writers : \A r \in rows[w] : \A q \in events :
       q.gp # r.gp /\ (q.stream = r.stream => q.gp < r.gp)
  /\ \A v, w \in Writers : \A q \in rows[v], r \in rows[w] :
       q.gp = r.gp => v = w /\ q = r

(* The committed tables. *)
TableInv ==
  /\ archived \subseteq known
  /\ \A s \in Streams : s \in known <=> version[s] > 0
  /\ \A r \in events : r.pos \in 1..version[r.stream]
  /\ \A s \in Streams : \A p \in 1..version[s] : \E r \in events : r.stream = s /\ r.pos = p
  /\ \A q, r \in events : q.stream = r.stream /\ q.pos = r.pos => q = r
  /\ \A q, r \in events : q.stream = r.stream /\ q.pos < r.pos => q.gp < r.gp
  /\ \A g \in outbox : \E r \in events : r.gp = g
  /\ \A r \in events : r.gp \in outbox

IndInv == TypeOK /\ LockInv /\ CallInv /\ BufferInv /\ DrawnInv /\ TableInv
=============================================================================
