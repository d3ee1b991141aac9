------------------------------ MODULE AuditLedger ------------------------------
(***************************************************************************)
(* The audit trail of one entity: AuditLedgerAggregate.record_integrity_check *)
(* (src/aggregates/audit_ledger.py) and the tool run_integrity_check        *)
(* (src/integrity/audit_chain.py), which append to the same stream, beside  *)
(* transactions that append business events.                               *)
(*                                                                         *)
(* The log is what EventStore leaves of it: a global position is drawn     *)
(* inside a transaction, and commits or is rolled back later; the          *)
(* transactions of one stream take turns.  A hash is the record of what it *)
(* digests.  recorded_at, the clock at the insert, orders events like      *)
(* their global positions.                                                 *)
(***************************************************************************)
EXTENDS StreamVersion, FiniteSets

CONSTANTS
  Checkers,     \* processes that check the entity
  Kinds,        \* how: some of "ledger" (the aggregate), "tool" (the MCP tool)
  Primary,      \* the business stream of the entity
  None,         \* no correlation id
  EventSorts,   \* what may be appended: records [stream, related, correlation];
                \* related: payload["application_id"] is the entity
  PageSize,     \* batch_size of load_all
  MaxEvents,    \* bound: global positions drawn
  MaxInFlight,  \* bound: append transactions open at a time
  MaxChecks,    \* bound: checks started
  MaxTampers    \* bound: payloads changed behind the store's back

ASSUME AuditAssumption ==
  /\ Kinds \subseteq {"ledger", "tool"}
  /\ PageSize \in Nat \ {0}
  /\ {MaxEvents, MaxInFlight, MaxChecks, MaxTampers} \subseteq Nat

VARIABLES
  rows,       \* rows[g]: the sort of the event at global position g
  open,       \* positions drawn by transactions that have not ended
  committed,  \* positions of the rows of events
  edits,      \* edits[g]: how often the payload of g was changed
  trail,      \* the events of stream audit-{entity_type}-{entity_id}
  pc,         \* pc[c]: next step of checker c
  ledger,     \* ledger[c]: the audit stream, replayed
  todo,       \* todo[c]: streams still to load
  found,      \* found[c]: the timeline so far, a set of contents
  shared,     \* shared[c]: correlation ids of the streams loaded
  last,       \* last[c]: how far load_all has come
  before,     \* history: what had committed when load_all began
  checks, tampers

log == <<rows, open, committed, edits>>
call == <<ledger, todo, found, shared, last, before>>
vars == <<log, trail, pc, call, checks, tampers>>

-------------------------------------------------------------------------------
(* The audit stream *)

(* A hash: the algorithm, the hash it starts from, the contents digested in  *)
(* the order of their positions.                                             *)
Hash(algorithm, anchor, contents) ==
  [algorithm |-> algorithm, anchor |-> anchor, contents |-> contents]

NoHash == [algorithm |-> "none", anchor |-> <<>>, contents |-> {}]

(* AuditLedgerAggregate.load: the last check counts, chain_valid is the      *)
(* conjunction of all, the audited streams accumulate.                       *)
LedgerOf(events) ==
  LET latest == events[Len(events)]
  IN [version |-> Len(events),
      count |-> IF events = <<>> THEN 0 ELSE latest.count,
      hash |-> IF events = <<>> THEN NoHash ELSE latest.hash,
      anchor |-> IF events = <<>> THEN NoHash ELSE latest.previous,
      valid |-> \A i \in DOMAIN events : events[i].valid,
      refs |-> UNION {events[i].audited : i \in DOMAIN events}]

NewLedger == LedgerOf(<<>>)

TypeOK ==
  /\ open \cup committed \subseteq DOMAIN rows
  /\ \A g \in DOMAIN rows : rows[g] \in EventSorts /\ edits[g] \in 0..MaxTampers
  /\ Len(trail) <= checks
  /\ checks \in 0..MaxChecks
  /\ \A c \in Checkers :
       /\ pc[c] \in {"idle", "load_ledger", "load_stream", "scan", "record",
                     "tool_load", "tool_load_trail", "tool_version", "tool_append"}
       /\ ledger[c].version \in 0..Len(trail)
       /\ \A e \in found[c] : e.gp \in committed /\ e.edit <= edits[e.gp]
       /\ pc[c] = "idle" => found[c] = {}

Init ==
  /\ rows = <<>>
  /\ open = {}
  /\ committed = {}
  /\ edits = <<>>
  /\ trail = <<>>
  /\ pc = [c \in Checkers |-> "idle"]
  /\ ledger = [c \in Checkers |-> NewLedger]
  /\ todo = [c \in Checkers |-> {}]
  /\ found = [c \in Checkers |-> {}]
  /\ shared = [c \in Checkers |-> {}]
  /\ last = [c \in Checkers |-> 0]
  /\ before = [c \in Checkers |-> {}]
  /\ checks = 0
  /\ tampers = 0
-------------------------------------------------------------------------------
(* Business events *)

Draw(sort) ==
  /\ Len(rows) < MaxEvents
  /\ Cardinality(open) < MaxInFlight
  /\ \A g \in open : rows[g].stream # sort.stream
  /\ rows' = Append(rows, sort)
  /\ edits' = Append(edits, 0)
  /\ open' = open \cup {Len(rows) + 1}
  /\ UNCHANGED <<committed, trail, pc, call, checks, tampers>>

CommitAppend(g) ==
  /\ open' = open \ {g}
  /\ committed' = committed \cup {g}
  /\ UNCHANGED <<rows, edits, trail, pc, call, checks, tampers>>

RollbackAppend(g) ==
  /\ open' = open \ {g}
  /\ UNCHANGED <<rows, committed, edits, trail, pc, call, checks, tampers>>

(* UPDATE events SET payload = ..: what the checks are there to find. *)
Tamper(g) ==
  /\ tampers < MaxTampers
  /\ tampers' = tampers + 1
  /\ edits' = [edits EXCEPT ![g] = @ + 1]
  /\ UNCHANGED <<rows, open, committed, trail, pc, call, checks>>

(* What a read of the event at g returns. *)
Content(g) == [gp |-> g, edit |-> edits[g]]

(* Mutation of EventsOf: rows of open transactions are read too. *)
EventsOfDirty(stream) == {g \in DOMAIN rows : rows[g].stream = stream}

EventsOf(stream) == {g \in committed : rows[g].stream = stream}
-------------------------------------------------------------------------------
(* Checks *)

Goto(c, step) == pc' = [pc EXCEPT ![c] = step]

(* The check returns or raises. *)
Finish(c) ==
  /\ Goto(c, "idle")
  /\ ledger' = [ledger EXCEPT ![c] = NewLedger]
  /\ todo' = [todo EXCEPT ![c] = {}]
  /\ found' = [found EXCEPT ![c] = {}]
  /\ shared' = [shared EXCEPT ![c] = {}]
  /\ last' = [last EXCEPT ![c] = 0]
  /\ before' = [before EXCEPT ![c] = {}]

Start(c, kind) ==
  /\ pc[c] = "idle"
  /\ checks < MaxChecks
  /\ checks' = checks + 1
  /\ Goto(c, IF kind = "ledger" THEN "load_ledger" ELSE "tool_load")
  /\ UNCHANGED <<log, trail, call, tampers>>

(* Mutation of AppendCheck: no version is expected. *)
AppendCheckUnfenced(c, version, check) ==
  /\ trail' = Append(trail, check)
  /\ Finish(c)
  /\ UNCHANGED <<log, checks, tampers>>

(* store.append of one AuditIntegrityCheckRun at an expected version, or a   *)
(* conflict; either way the check ends.                                      *)
AppendCheck(c, version, check) ==
  /\ trail' = IF Matches(IF version = 0 THEN NewStream ELSE version, trail)
              THEN Append(trail, check) ELSE trail
  /\ Finish(c)
  /\ UNCHANGED <<log, checks, tampers>>
-------------------------------------------------------------------------------
(* record_integrity_check *)

(* load, then assert_append_only. *)
LoadLedger(c) ==
  LET loaded == LedgerOf(trail)
  IN /\ pc[c] = "load_ledger"
     /\ IF loaded.valid
        THEN /\ Goto(c, "load_stream")
             /\ ledger' = [ledger EXCEPT ![c] = loaded]
             /\ todo' = [todo EXCEPT ![c] = loaded.refs \cup {Primary}]
             /\ UNCHANGED <<found, shared, last, before>>
        ELSE Finish(c)
     /\ UNCHANGED <<log, trail, checks, tampers>>

(* load_cross_stream_timeline: each stream of a set, in any order. *)
LoadStream(c, s) ==
  /\ pc[c] = "load_stream"
  /\ todo' = [todo EXCEPT ![c] = @ \ {s}]
  /\ found' = [found EXCEPT ![c] = @ \cup {Content(g) : g \in EventsOf(s)}]
  /\ shared' = [shared EXCEPT ![c] = @ \cup ({rows[g].correlation : g \in EventsOf(s)} \ {None})]
  /\ IF todo[c] = {s}
     THEN Goto(c, "scan") /\ before' = [before EXCEPT ![c] = committed]
     ELSE UNCHANGED <<pc, before>>
  /\ UNCHANGED <<log, trail, ledger, last, checks, tampers>>

(* The n lowest of a set of contents, or of positions. *)
Lowest(n, contents) ==
  {e \in contents : Cardinality({f \in contents : f.gp <= e.gp}) <= n}

(* Mutation of Page: ORDER BY global_position DESC. *)
PageBackwards(from) ==
  LET beyond == {Content(g) : g \in {h \in committed : h > from}}
  IN {e \in beyond : Cardinality({f \in beyond : f.gp >= e.gp}) <= PageSize}

(* load_all: WHERE global_position > last ORDER BY global_position ASC LIMIT batch_size *)
Page(from) == Lowest(PageSize, {Content(g) : g \in {h \in committed : h > from}})

Belongs(c, g) == rows[g].related \/ rows[g].correlation \in shared[c]

(* One page of load_all, until one is empty; an event that belongs to the    *)
(* entity replaces what load_stream returned of it.                          *)
FetchPage(c) ==
  LET page == Page(last[c])
      read == {e \in page : Belongs(c, e.gp)}
      old == {e \in found[c] : \A f \in read : f.gp # e.gp}
  IN /\ pc[c] = "scan"
     /\ IF page = {}
        THEN Goto(c, "record") /\ UNCHANGED <<found, last>>
        ELSE /\ found' = [found EXCEPT ![c] = old \cup read]
             /\ \E e \in page : /\ \A f \in page : f.gp <= e.gp
                                /\ last' = [last EXCEPT ![c] = e.gp]
             /\ UNCHANGED pc
     /\ UNCHANGED <<log, trail, ledger, todo, shared, before, checks, tampers>>

(* Mutation of Tampered: only the number of events is compared. *)
TamperedByCount(loaded, timeline) ==
  /\ loaded.hash # NoHash
  /\ Cardinality(timeline) < loaded.count

(* The prior checkpoint, recomputed from as many events as it had verified. *)
Tampered(loaded, timeline) ==
  /\ loaded.hash # NoHash
  /\ loaded.count > 0
  /\ \/ Cardinality(timeline) < loaded.count
     \/ Hash("ledger", loaded.anchor, Lowest(loaded.count, timeline)) # loaded.hash

RecordCheck(c) ==
  LET tamper == Tampered(ledger[c], found[c])
  IN /\ pc[c] = "record"
     /\ AppendCheck(c, ledger[c].version,
          [by |-> "ledger",
           count |-> Cardinality(found[c]),
           hash |-> Hash("ledger", ledger[c].hash, found[c]),
           previous |-> ledger[c].hash,
           valid |-> ~ tamper,
           audited |-> {rows[e.gp].stream : e \in found[c]},
           tamper |-> tamper])
-------------------------------------------------------------------------------
(* run_integrity_check *)

ToolLoad(c) ==
  /\ pc[c] = "tool_load"
  /\ found' = [found EXCEPT ![c] = {Content(g) : g \in EventsOf(Primary)}]
  /\ Goto(c, "tool_load_trail")
  /\ UNCHANGED <<log, trail, ledger, todo, shared, last, before, checks, tampers>>

ToolLoadTrail(c) ==
  /\ pc[c] = "tool_load_trail"
  /\ ledger' = [ledger EXCEPT ![c] = LedgerOf(trail)]
  /\ Goto(c, "tool_version")
  /\ UNCHANGED <<log, trail, todo, found, shared, last, before, checks, tampers>>

(* The version is that of the trail now, not of the trail that was loaded. *)
ToolVersion(c) ==
  /\ pc[c] = "tool_version"
  /\ ledger' = [ledger EXCEPT ![c].version = Len(trail)]
  /\ Goto(c, "tool_append")
  /\ UNCHANGED <<log, trail, todo, found, shared, last, before, checks, tampers>>

(* fold_integrity_chain; the hash of no events is empty. *)
Fold(contents) == IF contents = {} THEN NoHash ELSE Hash("fold", NoHash, contents)

(* Mutation of Contradicted: the numbers of events are not compared. *)
ContradictedByAny(loaded, contents) ==
  /\ loaded.version > 0
  /\ loaded.hash # NoHash
  /\ loaded.hash # Fold(contents)

(* A claim about another number of events says nothing. *)
Contradicted(loaded, contents) ==
  /\ loaded.version > 0
  /\ loaded.count = Cardinality(contents)
  /\ loaded.hash # NoHash
  /\ loaded.hash # Fold(contents)

(* chain_valid, tamper_detected and streams_audited keep their defaults: the *)
(* verdict (tamper, a history field here) goes to the caller only.           *)
ToolAppend(c) ==
  /\ pc[c] = "tool_append"
  /\ AppendCheck(c, ledger[c].version,
       [by |-> "tool",
        count |-> Cardinality(found[c]),
        hash |-> Fold(found[c]),
        previous |-> ledger[c].hash,
        valid |-> TRUE,
        audited |-> {},
        tamper |-> Contradicted(ledger[c], found[c])])
-------------------------------------------------------------------------------

Business ==
  \/ \E sort \in EventSorts : Draw(sort)
  \/ \E g \in open : CommitAppend(g) \/ RollbackAppend(g)
  \/ \E g \in committed : Tamper(g)

Ledger(c) ==
  \/ LoadLedger(c)
  \/ \E s \in todo[c] : LoadStream(c, s)
  \/ FetchPage(c)
  \/ RecordCheck(c)

Tool(c) == ToolLoad(c) \/ ToolLoadTrail(c) \/ ToolVersion(c) \/ ToolAppend(c)

Next ==
  \/ Business
  \/ \E c \in Checkers :
       \/ \E kind \in Kinds : Start(c, kind)
       \/ Ledger(c)
       \/ Tool(c)

Spec == Init /\ [][Next]_vars
-------------------------------------------------------------------------------

(* The timeline misses no event of the entity that had committed before      *)
(* load_all began, although the log is read page by page while appends go on *)
(* committing below and above the page.                                      *)
TimelineIsComplete ==
  \A c \in Checkers : pc[c] = "record" =>
    \A g \in before[c] : Belongs(c, g) => \E e \in found[c] : e.gp = g

(* Evidence only grows: a check that finds its predecessor in order has      *)
(* verified the same payloads and perhaps more, so a payload that changes    *)
(* after a check, even under a running one, makes some later check invalid.  *)
EvidenceOnlyGrows ==
  \A i, j \in DOMAIN trail :
    /\ j = i + 1
    /\ trail[i].by = "ledger" /\ trail[j].by = "ledger"
    /\ trail[j].valid
    => trail[i].hash.contents \subseteq trail[j].hash.contents

(* Once a check has found the chain broken the ledger records nothing more,  *)
(* whatever checks were running when it was found.                           *)
LedgerStopsAtInvalid ==
  \A i, j \in DOMAIN trail :
    i < j /\ trail[j].by = "ledger" => trail[i].valid

(* The tool accuses nobody of tampering as long as only the tool checks the  *)
(* entity and no payload has changed, however checks and appends interleave. *)
ToolNeverAccuses ==
  \A i \in DOMAIN trail :
    trail[i].by = "tool" /\ trail[i].tamper =>
      tampers > 0 \/ \E j \in 1..i : trail[j].by = "ledger"

(* Behind EvidenceOnlyGrows and LedgerStopsAtInvalid: a check on its way     *)
(* knows the last check of the trail it loaded, which was valid throughout;  *)
(* what the ledger recorded is in order.                                     *)
Sequential(s) == s \in Seq({s[i] : i \in DOMAIN s})

OnItsWay == {"load_stream", "scan", "record"}

KnowsTrail(c) ==
  LET version == ledger[c].version
  IN /\ version \in 0..Len(trail)
     /\ \A i \in 1..version : trail[i].valid
     /\ version > 0 => ledger[c].hash = trail[version].hash /\ ledger[c].count = trail[version].count

RecordedInOrder(i) ==
  /\ trail[i].hash.algorithm = "ledger"
  /\ IsFiniteSet(trail[i].hash.contents)
  /\ trail[i].count = Cardinality(trail[i].hash.contents)
  /\ \A j \in 1..(i - 1) : trail[j].valid
  /\ i > 1 /\ trail[i].valid /\ trail[i - 1].by = "ledger" =>
       trail[i - 1].hash.contents \subseteq trail[i].hash.contents

LedgerInv ==
  /\ Sequential(trail)
  /\ DOMAIN pc = Checkers /\ DOMAIN ledger = Checkers /\ DOMAIN found = Checkers
  /\ IsFiniteSet(committed)
  /\ \A c \in Checkers : IsFiniteSet(found[c])
  /\ \A c \in Checkers : pc[c] \in OnItsWay => KnowsTrail(c)
  /\ \A i \in DOMAIN trail : trail[i].by = "ledger" => RecordedInOrder(i)

(* What the documentation promises: a ledger becomes invalid only "if any    *)
(* condition indicates the stream has been tampered with"                    *)
(* (audit_ledger.py).                                                        *)
NoFalseAlarm == tampers = 0 => \A i \in DOMAIN trail : trail[i].valid
=============================================================================
