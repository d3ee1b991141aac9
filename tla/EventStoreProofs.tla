--------------------------- MODULE EventStoreProofs ---------------------------
(***************************************************************************)
(* Proofs about EventStore: IndInv is inductive, hence the safety          *)
(* properties hold for any number of streams, writers and batch sizes.     *)
(***************************************************************************)
EXTENDS EventStore, SequenceTheorems, TLAPS

LEMMA InitInd == Init => IndInv
<1> SUFFICES ASSUME Init PROVE IndInv
  OBVIOUS
<1> USE ConstantsAssumption DEF Init
<1>1. TypeOK
  BY DEF TypeOK, NewStream, NoRequest, Phases, Replies, Row
<1>2. LockInv
  BY DEF LockInv, Locking
<1>3. CallInv
  BY DEF CallInv, Locking, Unfinished
<1>4. BufferInv
  BY DEF BufferInv, BufferOf, Locking
<1>5. DrawnInv
  BY DEF DrawnInv
<1>6. TableInv
  BY DEF TableInv
<1> QED
  BY <1>1, <1>2, <1>3, <1>4, <1>5, <1>6 DEF IndInv

(* A step of another call, which can only draw more global positions, leaves *)
(* the buffer of v as it was.                                                *)
LEMMA BufferFrame ==
  ASSUME TypeOK, NEW v \in Writers, BufferOf(v), seq' \in Nat, seq <= seq',
         pc'[v] = pc[v], req'[v] = req[v], base'[v] = base[v],
         ordinal'[v] = ordinal[v], rows'[v] = rows[v], sent'[v] = sent[v]
  PROVE  BufferOf(v)'
<1>1. \A r \in rows[v] : r.gp <= seq'
  BY DEF BufferOf, TypeOK, Row
<1> QED
  BY <1>1 DEF BufferOf

(* A call that holds no lock has an empty buffer. *)
LEMMA BufferEmpty ==
  ASSUME TypeOK, NEW w \in Writers, BufferOf(w), pc[w] \notin Locking
  PROVE  rows[w] = {} /\ sent[w] = {} /\ ordinal[w] = 0 /\ base[w] \in Nat
BY DEF BufferOf, TypeOK

LEMMA CallInd ==
  ASSUME IndInv, NEW w \in Writers, NEW s \in Streams,
         NEW expected \in ExpectedVersions, NEW n \in 0..MaxBatch, Call(w, s, expected, n)
  PROVE  IndInv'
<1> USE ConstantsAssumption DEF IndInv, Call, Goto, tables
<1>1. TypeOK'
  BY DEF TypeOK, Request, NewStream, Phases, Unfinished
<1>2. LockInv'
  BY DEF LockInv, TypeOK, Locking
<1>3. CallInv'
  BY DEF CallInv, TypeOK, Locking, Unfinished, Request, NewStream
<1>4. BufferInv'
  BY DEF BufferInv, BufferOf, TypeOK, Locking
<1>5. DrawnInv'
  BY DEF DrawnInv
<1>6. TableInv'
  BY DEF TableInv
<1> QED
  BY <1>1, <1>2, <1>3, <1>4, <1>5, <1>6

LEMMA SelectMissingInd ==
  ASSUME IndInv, NEW w \in Writers, SelectMissing(w)
  PROVE  IndInv'
<1> USE ConstantsAssumption DEF IndInv, SelectMissing, Goto, Finish, tables
<1>1. TypeOK'
  BY DEF TypeOK, Phases, Unfinished, Replies
<1>2. LockInv'
  BY DEF LockInv, TypeOK, Locking
<1>3. CallInv'
  BY DEF CallInv, TypeOK, Locking, Unfinished, Request
<1>4. BufferInv'
  BY DEF BufferInv, BufferOf, TypeOK, Locking
<1>5. DrawnInv'
  BY DEF DrawnInv
<1>6. TableInv'
  BY DEF TableInv
<1> QED
  BY <1>1, <1>2, <1>3, <1>4, <1>5, <1>6

LEMMA SelectExistingInd ==
  ASSUME IndInv, NEW w \in Writers, SelectExisting(w)
  PROVE  IndInv'
<1> USE ConstantsAssumption DEF IndInv, SelectExisting, Goto, Finish, Acquire, tables
<1>1. TypeOK'
  BY DEF TypeOK, Phases, Unfinished, Locking, Replies, CallInv, Request
<1>2. LockInv'
  BY DEF LockInv, TypeOK, Locking
<1>3. CallInv'
  BY DEF CallInv, TypeOK, TableInv, Locking, Unfinished, Request, NewStream
<1>4. BufferInv'
  BY DEF BufferInv, BufferOf, CallInv, TypeOK, Locking
<1>5. DrawnInv'
  BY DEF DrawnInv
<1>6. TableInv'
  BY DEF TableInv
<1> QED
  BY <1>1, <1>2, <1>3, <1>4, <1>5, <1>6

LEMMA InsertStreamInd ==
  ASSUME IndInv, NEW w \in Writers, InsertStream(w)
  PROVE  IndInv'
<1> USE ConstantsAssumption DEF IndInv, InsertStream, Goto, Acquire, tables
<1>1. TypeOK'
  BY DEF TypeOK, Phases, Unfinished, Locking
<1>2. LockInv'
  BY DEF LockInv, TypeOK, Locking
<1>3. CallInv'
  BY DEF CallInv, TypeOK, TableInv, Locking, Unfinished, Request, NewStream
<1>4. BufferInv'
  BY DEF BufferInv, BufferOf, CallInv, TypeOK, Locking, Unfinished
<1>5. DrawnInv'
  BY DEF DrawnInv
<1>6. TableInv'
  BY DEF TableInv
<1> QED
  BY <1>1, <1>2, <1>3, <1>4, <1>5, <1>6

LEMMA InsertEventInd ==
  ASSUME IndInv, NEW w \in Writers, InsertEvent(w)
  PROVE  IndInv'
<1> USE ConstantsAssumption DEF IndInv, InsertEvent, Goto
<1>1. TypeOK'
  BY DEF TypeOK, Phases, Unfinished, Locking, CallInv, Row, Request
<1>2. LockInv'
  BY DEF LockInv, TypeOK, Locking
<1>3. CallInv'
  BY DEF CallInv, TypeOK, Locking, Unfinished, Request
<1>4. BufferInv'
  <2> DEFINE row == [stream |-> req[w].stream, pos |-> base[w] + (ordinal[w] + 1),
                     gp |-> seq + 1, by |-> w]
  <2>1. /\ seq' = seq + 1 /\ seq \in Nat
        /\ rows' = [rows EXCEPT ![w] = @ \cup {row}]
        /\ ordinal' = [ordinal EXCEPT ![w] = ordinal[w] + 1]
        /\ sent' = sent /\ base' = base /\ req' = req
        /\ pc[w] = "insert_events"
        /\ pc' = [pc EXCEPT ![w] = IF ordinal[w] + 1 = req[w].size
                                  THEN "insert_outbox" ELSE "insert_events"]
    BY DEF TypeOK
  <2>2. \A v \in Writers : base[v] \in Nat /\ ordinal[v] \in Nat /\ rows[v] \subseteq Row
    BY DEF TypeOK
  <2>3. req[w].size \in Nat /\ ordinal[w] < req[w].size /\ sent[w] = {}
    BY <2>1 DEF BufferInv, BufferOf, CallInv, Request
  <2> HIDE DEF InsertEvent
  <2> SUFFICES ASSUME NEW v \in Writers
               PROVE  BufferOf(v)'
    BY DEF BufferInv
  <2>4. CASE v # w
    BY <2>1, <2>4, BufferFrame DEF BufferInv, TypeOK
  <2>5. CASE v = w
    <3>1. rows'[w] = rows[w] \cup {row} /\ ordinal'[w] = ordinal[w] + 1 /\ sent'[w] = {}
          /\ pc'[w] = IF ordinal[w] + 1 = req[w].size THEN "insert_outbox" ELSE "insert_events"
      BY <2>1, <2>3 DEF TypeOK
    <3>2. \A r \in rows[w] : r.pos < row.pos /\ r.gp < row.gp /\ r.pos \in Nat /\ r.gp \in Nat
      BY <2>1, <2>2 DEF BufferInv, BufferOf, Row
    <3>3. BufferOf(w)
      BY DEF BufferInv
    <3>4. /\ req'[w] = req[w] /\ base'[w] = base[w] /\ seq' = seq + 1
          /\ base[w] \in Nat /\ ordinal[w] \in Nat /\ seq \in Nat /\ pc[w] = "insert_events"
      BY <2>1, <2>2
    <3> HIDE DEF IndInv
    <3>5. \A r \in rows'[w] : /\ r.stream = req[w].stream /\ r.by = w
                              /\ r.pos \in base[w] + 1 .. base[w] + (ordinal[w] + 1)
                              /\ r.gp <= seq + 1
      BY <3>1, <3>2, <3>3, <3>4 DEF BufferOf
    <3>6. \A p \in base[w] + 1 .. base[w] + (ordinal[w] + 1) : \E r \in rows'[w] : r.pos = p
      <4> SUFFICES ASSUME NEW p \in base[w] + 1 .. base[w] + (ordinal[w] + 1)
                   PROVE  \E r \in rows'[w] : r.pos = p
        OBVIOUS
      <4>1. CASE p = base[w] + (ordinal[w] + 1)
        <5>1. row \in rows'[w]
          BY <3>1
        <5>2. row.pos = p
          BY <4>1
        <5> QED
          BY <5>1, <5>2
      <4>2. CASE p # base[w] + (ordinal[w] + 1)
        BY <4>2, <3>1, <3>3, <3>4 DEF BufferOf
      <4> QED
        BY <4>1, <4>2
    <3>7. \A q, r \in rows'[w] : /\ q.pos = r.pos => q = r
                                 /\ q.pos < r.pos => q.gp < r.gp
      <4>1. row.pos \in Nat /\ row.gp \in Nat
        BY <3>4
      <4> HIDE DEF row
      <4> QED
        BY <4>1, <3>1, <3>2, <3>3 DEF BufferOf
    <3>8. /\ pc'[w] \in Locking
          /\ pc'[w] = "insert_events" => ordinal'[w] < req[w].size
          /\ pc'[w] = "insert_outbox" => ordinal'[w] = req[w].size
          /\ pc'[w] # "commit"
      BY <3>1, <3>4, <2>3 DEF Locking
    <3> QED
      BY <2>5, <3>1, <3>4, <3>5, <3>6, <3>7, <3>8 DEF BufferOf
  <2> QED
    BY <2>4, <2>5
<1>5. DrawnInv'
  BY DEF DrawnInv, BufferInv, BufferOf, TypeOK, Row
<1>6. TableInv'
  BY DEF TableInv
<1> QED
  BY <1>1, <1>2, <1>3, <1>4, <1>5, <1>6

LEMMA InsertOutboxInd ==
  ASSUME IndInv, NEW w \in Writers, InsertOutbox(w)
  PROVE  IndInv'
<1> USE ConstantsAssumption DEF IndInv, InsertOutbox, Goto, tables
<1>1. TypeOK'
  BY DEF TypeOK, Phases, Unfinished, Locking, Row
<1>2. LockInv'
  BY DEF LockInv, TypeOK, Locking
<1>3. CallInv'
  BY DEF CallInv, TypeOK, Locking, Unfinished
<1>4. BufferInv'
  BY DEF BufferInv, BufferOf, TypeOK, Locking
<1>5. DrawnInv'
  BY DEF DrawnInv
<1>6. TableInv'
  BY DEF TableInv
<1> QED
  BY <1>1, <1>2, <1>3, <1>4, <1>5, <1>6

LEMMA CommitInd ==
  ASSUME IndInv, NEW w \in Writers, NEW result \in {"ok", "failed"}, Commit(w, result)
  PROVE  IndInv'
<1> USE ConstantsAssumption
        DEF IndInv, Commit, Goto, Finish, ReleaseLocks, DiscardUncommitted
<1>1. TypeOK'
  <2>1. req[w].stream \in Streams /\ req[w].size \in Nat
    BY DEF CallInv, Request
  <2>2. version' \in [Streams -> Nat] /\ known' \subseteq Streams
    BY <2>1 DEF TypeOK
  <2>3. events' \subseteq Row /\ outbox' \subseteq Nat
    BY DEF TypeOK
  <2>4. lock' \in [Streams -> Writers \cup {None}]
    BY DEF TypeOK
  <2>5. pc' \in [Writers -> Phases] /\ reply' \in [Writers -> Replies]
    BY DEF TypeOK, Phases, Replies
  <2>6. /\ ordinal' \in [Writers -> Nat]
        /\ rows' \in [Writers -> SUBSET Row]
        /\ sent' \in [Writers -> SUBSET Nat]
    BY DEF TypeOK
  <2> QED
    BY <2>2, <2>3, <2>4, <2>5, <2>6 DEF TypeOK
<1>2. LockInv'
  BY DEF LockInv, TypeOK, Locking
<1>3. CallInv'
  BY DEF CallInv, LockInv, TypeOK, Locking, Unfinished, Request
<1>4. BufferInv'
  BY DEF BufferInv, BufferOf, TypeOK, Locking
<1>5. DrawnInv'
  <2>1. events' = events \cup rows[w] /\ seq' = seq /\ rows' = [rows EXCEPT ![w] = {}]
    OBVIOUS
  <2>2. /\ rows \in [Writers -> SUBSET Row] /\ events \subseteq Row
        /\ \A v \in Writers \ {w} : rows'[v] = rows[v]
        /\ rows'[w] = {}
    BY <2>1 DEF TypeOK
  <2>3. \A q \in rows[w] : q.gp <= seq /\ q.stream = req[w].stream
    BY DEF BufferInv, BufferOf
  <2>4. ASSUME NEW v \in Writers \ {w}, NEW r \in rows[v] PROVE r.stream # req[w].stream
    <3>1. pc[v] \in Locking /\ r.stream = req[v].stream
      BY DEF BufferInv, BufferOf
    <3>2. pc[w] \in Locking /\ req[w].stream \in Streams
      BY DEF CallInv, Request, Locking
    <3> QED
      BY <3>1, <3>2 DEF LockInv
  <2> HIDE DEF IndInv, Commit
  <2>5. DrawnInv
    BY DEF IndInv
  <2> QED
    BY <2>1, <2>2, <2>3, <2>4, <2>5 DEF DrawnInv
<1>6. TableInv'
  <2> DEFINE s == req[w].stream
  <2>1. /\ s \in Streams /\ base[w] = version[s] /\ s \notin archived
        /\ req[w].size \in Nat /\ req[w].size > 0 /\ ordinal[w] = req[w].size
    BY DEF CallInv, BufferInv, BufferOf, Locking, Unfinished, Request
  <2>2. /\ version' = [version EXCEPT ![s] = version[s] + req[w].size]
        /\ version \in [Streams -> Nat] /\ version[s] \in Nat
        /\ \A t \in Streams \ {s} : version'[t] = version[t]
        /\ version'[s] = version[s] + req[w].size
    BY <2>1 DEF TypeOK
  <2>3. /\ events' = events \cup rows[w] /\ outbox' = outbox \cup sent[w]
        /\ known' = known \cup {s} /\ archived' = archived
        /\ events \subseteq Row /\ rows[w] \subseteq Row
    BY DEF TypeOK
  <2>4. \A r \in rows[w] : r.stream = s /\ r.pos \in version[s] + 1 .. version[s] + req[w].size
    BY <2>1 DEF BufferInv, BufferOf
  <2>5. \A p \in version[s] + 1 .. version[s] + req[w].size :
          \E r \in rows[w] : r.stream = s /\ r.pos = p
    BY <2>1, <2>4 DEF BufferInv, BufferOf
  <2>6. \A r \in events : r.pos \in 1..version[r.stream] /\ r.stream \in Streams
    BY <2>3 DEF TableInv, Row
  <2> HIDE DEF Commit, s
  <2>7. archived' \subseteq known' /\ \A t \in Streams : t \in known' <=> version'[t] > 0
    BY <2>1, <2>2, <2>3 DEF TableInv
  <2>8. \A r \in events' : r.pos \in 1..version'[r.stream]
    <3>1. ASSUME NEW r \in events PROVE r.pos \in 1..version'[r.stream]
      BY <2>1, <2>2, <2>6
    <3>2. ASSUME NEW r \in rows[w] PROVE r.pos \in 1..version'[r.stream]
      BY <2>1, <2>2, <2>4
    <3> QED
      BY <3>1, <3>2, <2>3
  <2>9. \A t \in Streams : \A p \in 1..version'[t] : \E r \in events' : r.stream = t /\ r.pos = p
    <3> SUFFICES ASSUME NEW t \in Streams, NEW p \in 1..version'[t]
                 PROVE  \E r \in events' : r.stream = t /\ r.pos = p
      OBVIOUS
    <3>1. CASE p \in 1..version[t]
      BY <3>1, <2>3 DEF TableInv
    <3>2. CASE p \notin 1..version[t]
      <4>1. t = s /\ p \in version[s] + 1 .. version[s] + req[w].size
        BY <3>2, <2>1, <2>2
      <4> QED
        BY <4>1, <2>3, <2>5
    <3> QED
      BY <3>1, <3>2
  <2>10. \A q \in events, r \in rows[w] : q.stream = r.stream => q.pos < r.pos /\ q.gp < r.gp
    BY <2>2, <2>3, <2>4, <2>6 DEF DrawnInv, Row
  <2>11. \A q, r \in events' : q.stream = r.stream /\ q.pos = r.pos => q = r
    BY <2>3, <2>10 DEF TableInv, BufferInv, BufferOf, Row
  <2>12. \A q, r \in events' : q.stream = r.stream /\ q.pos < r.pos => q.gp < r.gp
    BY <2>3, <2>10 DEF TableInv, BufferInv, BufferOf, Row
  <2>13. \A g \in outbox' : \E r \in events' : r.gp = g
    BY <2>3 DEF TableInv, BufferInv, BufferOf
  <2>14. \A r \in events' : r.gp \in outbox'
    <3>1. \A r \in rows[w] : r.gp \in sent[w]
      BY DEF BufferInv, BufferOf, Commit
    <3> QED
      BY <3>1, <2>3 DEF TableInv
  <2> QED
    BY <2>7, <2>8, <2>9, <2>11, <2>12, <2>13, <2>14 DEF TableInv
<1> QED
  BY <1>1, <1>2, <1>3, <1>4, <1>5, <1>6

LEMMA AbortInd ==
  ASSUME IndInv, NEW w \in Writers, Abort(w)
  PROVE  IndInv'
<1> USE ConstantsAssumption
        DEF IndInv, Abort, Goto, Finish, ReleaseLocks, DiscardUncommitted, tables
<1>1. TypeOK'
  BY DEF TypeOK, Phases, Replies
<1>2. LockInv'
  BY DEF LockInv, TypeOK, Locking
<1>3. CallInv'
  BY DEF CallInv, TypeOK, Locking, Unfinished
<1>4. BufferInv'
  BY DEF BufferInv, BufferOf, TypeOK, Locking
<1>5. DrawnInv'
  BY DEF DrawnInv, TypeOK
<1>6. TableInv'
  BY DEF TableInv
<1> QED
  BY <1>1, <1>2, <1>3, <1>4, <1>5, <1>6

(* The steps that end a call without touching the tables or the buffers. *)
LEMMA EndOfCallInd ==
  ASSUME IndInv, NEW w \in Writers, EmptyBatch(w) \/ UniqueViolation(w)
  PROVE  IndInv'
<1> USE ConstantsAssumption
        DEF IndInv, EmptyBatch, UniqueViolation, Goto, Finish, tables
<1>1. TypeOK'
  BY DEF TypeOK, Phases, Replies
<1>2. LockInv'
  BY DEF LockInv, TypeOK, Locking
<1>3. CallInv'
  BY DEF CallInv, TypeOK, Locking, Unfinished
<1>4. BufferInv'
  <2>1. pc[w] \notin Locking /\ pc'[w] \notin Locking
    BY DEF Locking, TypeOK
  <2>2. BufferOf(w)'
    BY <2>1, BufferEmpty DEF BufferInv, BufferOf, TypeOK, Locking
  <2>3. \A v \in Writers \ {w} : BufferOf(v)'
    BY BufferFrame DEF BufferInv, TypeOK
  <2> QED
    BY <2>2, <2>3 DEF BufferInv
<1>5. DrawnInv'
  BY DEF DrawnInv
<1>6. TableInv'
  BY DEF TableInv
<1> QED
  BY <1>1, <1>2, <1>3, <1>4, <1>5, <1>6

LEMMA ReturnInd ==
  ASSUME IndInv, NEW w \in Writers, Return(w)
  PROVE  IndInv'
<1> USE ConstantsAssumption DEF IndInv, Return, Goto, tables
<1>1. TypeOK'
  BY DEF TypeOK, Phases, Replies
<1>2. LockInv'
  BY DEF LockInv, TypeOK, Locking
<1>3. CallInv'
  BY DEF CallInv, TypeOK, Locking, Unfinished
<1>4. BufferInv'
  BY DEF BufferInv, BufferOf, TypeOK, Locking
<1>5. DrawnInv'
  BY DEF DrawnInv
<1>6. TableInv'
  BY DEF TableInv
<1> QED
  BY <1>1, <1>2, <1>3, <1>4, <1>5, <1>6

LEMMA ArchiveInd ==
  ASSUME IndInv, NEW s \in Streams, Archive(s)
  PROVE  IndInv'
<1> USE ConstantsAssumption DEF IndInv, Archive
<1>1. TypeOK'
  BY DEF TypeOK
<1>2. LockInv'
  BY DEF LockInv
<1>3. CallInv'
  BY DEF CallInv, LockInv, TypeOK, Locking
<1>4. BufferInv'
  BY DEF BufferInv, BufferOf
<1>5. DrawnInv'
  BY DEF DrawnInv
<1>6. TableInv'
  BY DEF TableInv
<1> QED
  BY <1>1, <1>2, <1>3, <1>4, <1>5, <1>6

LEMMA StutterInd == IndInv /\ UNCHANGED vars => IndInv'
BY DEF IndInv, vars, tables, TypeOK, LockInv, CallInv, BufferInv, BufferOf, DrawnInv, TableInv

LEMMA NextInd == IndInv /\ [Next]_vars => IndInv'
<1> SUFFICES ASSUME IndInv, [Next]_vars PROVE IndInv'
  OBVIOUS
<1>1. CASE \E w \in Writers, s \in Streams, expected \in ExpectedVersions, n \in 0..MaxBatch :
             Call(w, s, expected, n)
  BY <1>1, CallInd
<1>2. ASSUME NEW w \in Writers, Execute(w) PROVE IndInv'
  BY <1>2, SelectMissingInd, SelectExistingInd, InsertStreamInd, InsertEventInd,
     InsertOutboxInd, CommitInd, EndOfCallInd, ReturnInd DEF Execute
<1>3. CASE \E w \in Writers : Abort(w)
  BY <1>3, AbortInd
<1>4. CASE \E s \in Streams : Archive(s)
  BY <1>4, ArchiveInd
<1>5. CASE UNCHANGED vars
  BY <1>5, StutterInd
<1> QED
  BY <1>1, <1>2, <1>3, <1>4, <1>5 DEF Next

(* IndInv is an invariant: it holds initially and every step keeps it. *)
THEOREM IndInvariant == Spec => []IndInv
<1>1. Init => IndInv
  BY InitInd
<1>2. IndInv /\ [Next]_vars => IndInv'
  BY NextInd
<1> QED
  BY <1>1, <1>2, PTL DEF Spec

-------------------------------------------------------------------------------

(* Every variable of the store keeps its type: what the tables, the locks    *)
(* and the calls of append() look like.                                      *)
THEOREM TypeCorrect == Spec => []TypeOK
<1>1. IndInv => TypeOK
  BY DEF IndInv
<1> QED
  BY <1>1, IndInvariant, PTL

(* The positions of every stream are 1 .. current_version, whatever writers  *)
(* interleave and wherever they crash.                                       *)
THEOREM Contiguous == Spec => []PositionsAreContiguous
<1>1. IndInv => PositionsAreContiguous
  <2> SUFFICES ASSUME IndInv, NEW s \in Streams
               PROVE  /\ {r.pos : r \in RowsOf(s)} = 1..version[s]
                      /\ \A q, r \in RowsOf(s) : q.pos = r.pos => q = r
                      /\ s \in known <=> version[s] > 0
    BY DEF PositionsAreContiguous
  <2>1. \A r \in RowsOf(s) : r.pos \in 1..version[s]
    BY DEF IndInv, TableInv, RowsOf
  <2>2. \A p \in 1..version[s] : \E r \in RowsOf(s) : r.pos = p
    BY DEF IndInv, TableInv, RowsOf
  <2>3. {r.pos : r \in RowsOf(s)} = 1..version[s]
    BY <2>1, <2>2
  <2> QED
    BY <2>3 DEF IndInv, TableInv, RowsOf
<1> QED
  BY <1>1, IndInvariant, PTL

(* Within a stream, stream positions and global positions agree.             *)
THEOREM OrderAgrees == Spec => []StreamOrderIsGlobalOrder
<1>1. IndInv => StreamOrderIsGlobalOrder
  BY DEF IndInv, TableInv, StreamOrderIsGlobalOrder, RowsOf
<1> QED
  BY <1>1, IndInvariant, PTL

(* The version gate alone keeps stream positions unique: an insert of events *)
(* never meets uq_stream_position.                                           *)
THEOREM NoCollision == Spec => []NoPositionCollision
<1>1. IndInv => NoPositionCollision
  <2> SUFFICES ASSUME IndInv, NEW w \in Writers, NEW r \in rows[w]
               PROVE  /\ \A q \in events : q.stream = r.stream => q.pos # r.pos
                      /\ \A v \in Writers \ {w} : \A q \in rows[v] :
                           q.stream = r.stream => q.pos # r.pos
    BY DEF NoPositionCollision
  <2>1. pc[w] \in Locking /\ r.pos > version[r.stream] /\ r \in Row
    BY DEF IndInv, BufferInv, BufferOf, CallInv, TypeOK, Row
  <2>2. \A q \in events : q.stream = r.stream => q.pos # r.pos
    BY <2>1 DEF IndInv, TableInv, TypeOK, Row
  <2>3. ASSUME NEW v \in Writers \ {w}, NEW q \in rows[v] PROVE q.stream # r.stream
    <3>1. pc[v] \in Locking /\ q.stream = req[v].stream
      BY DEF IndInv, BufferInv, BufferOf
    <3>2. r.stream = req[w].stream /\ req[w].stream \in Streams
      BY <2>1 DEF IndInv, BufferInv, BufferOf, Row
    <3>3. lock[req[w].stream] = w
      BY <2>1, <3>2 DEF IndInv, LockInv
    <3> QED
      BY <3>1, <3>2, <3>3 DEF IndInv, LockInv
  <2> QED
    BY <2>2, <2>3
<1> QED
  BY <1>1, IndInvariant, PTL

(* The outbox holds exactly the committed events.                            *)
THEOREM OutboxExact == Spec => []OutboxMatchesEvents
<1>1. IndInv => OutboxMatchesEvents
  BY DEF IndInv, TableInv, DrawnInv, OutboxMatchesEvents
<1> QED
  BY <1>1, IndInvariant, PTL

(* No append commits to an archived stream.                                  *)
THEOREM ArchiveIsFinal == Spec => ArchivedStreamsAreFrozen
<1>1. ASSUME IndInv, [Next]_vars, NEW s \in archived
      PROVE  version'[s] = version[s] /\ s \in archived'
  <2> USE <1>1
  <2>1. CASE \E w \in Writers, result \in {"ok", "failed"} : Commit(w, result)
    BY <2>1 DEF Commit, IndInv, CallInv, TypeOK, Locking, Finish
  <2>2. CASE \E t \in Streams : Archive(t)
    BY <2>2 DEF Archive
  <2>3. CASE UNCHANGED tables
    BY <2>3 DEF tables
  <2>4. \/ \E w \in Writers, result \in {"ok", "failed"} : Commit(w, result)
        \/ \E t \in Streams : Archive(t)
        \/ UNCHANGED tables
    BY DEF Next, Execute, Call, EmptyBatch, SelectMissing, SelectExisting, InsertStream,
           InsertEvent, InsertOutbox, UniqueViolation, Return, Abort, vars, tables
  <2> QED
    BY <2>1, <2>2, <2>3, <2>4
<1>2. IndInv /\ [Next]_vars => [\A s \in archived : version'[s] = version[s] /\ s \in archived']_vars
  BY <1>1
<1> QED
  BY <1>2, IndInvariant, PTL DEF Spec, ArchivedStreamsAreFrozen
-------------------------------------------------------------------------------
(* EventStore implements AtomicLog, for any number of streams, writers and   *)
(* batch sizes: Commit is the indivisible append, the steps that end a call  *)
(* without it are refusals, and the statements in between are not seen.      *)

(* The abstract log of a stream: a position of a stream holds one row, so    *)
(* WriterAt is the writer of that row, before and after a step.              *)
LEMMA WriterOfRow ==
  ASSUME IndInv, NEW r \in events
  PROVE  WriterAt(r.stream, r.pos) = r.by
<1> DEFINE c == CHOOSE q \in events : q.stream = r.stream /\ q.pos = r.pos
<1>1. c \in events /\ c.stream = r.stream /\ c.pos = r.pos
  OBVIOUS
<1>2. c = r
  BY <1>1 DEF IndInv, TableInv
<1> QED
  BY <1>2 DEF WriterAt

LEMMA WriterOfRowNext ==
  ASSUME IndInv', NEW s, NEW p, NEW r \in events', r.stream = s, r.pos = p
  PROVE  WriterAt(s, p)' = r.by
<1> DEFINE c == CHOOSE q \in events' : q.stream = s /\ q.pos = p
<1>1. c \in events' /\ c.stream = r.stream /\ c.pos = r.pos
  OBVIOUS
<1>2. c = r
  BY <1>1 DEF IndInv, TableInv
<1> QED
  BY <1>2 DEF WriterAt

(* Functions on 1..n are sequences. *)
LEMMA FunctionSeq ==
  ASSUME NEW n \in Nat, NEW S, NEW f \in [1..n -> S]
  PROVE  f \in Seq(S) /\ Len(f) = n
<1>1. f \in Seq(S)
  BY SeqDef
<1>2. Len(f) \in Nat /\ DOMAIN f = 1..Len(f) /\ DOMAIN f = 1..n
  BY <1>1, LenProperties
<1> QED
  BY <1>1, <1>2

LEMMA BatchSeq ==
  ASSUME NEW n \in Nat, NEW w \in Writers
  PROVE  /\ [i \in 1..n |-> w] \in Seq(Writers)
         /\ Len([i \in 1..n |-> w]) = n
         /\ \A k \in 1..n : [i \in 1..n |-> w][k] = w
<1>1. [i \in 1..n |-> w] \in [1..n -> Writers]
  OBVIOUS
<1> QED
  BY <1>1, FunctionSeq

(* The abstract log of a stream is as long as its version says. *)
LEMMA StreamLogType ==
  ASSUME IndInv, NEW s \in Streams
  PROVE  /\ StreamLog(s) \in Seq(Writers)
         /\ Len(StreamLog(s)) = version[s]
         /\ version[s] \in Nat
         /\ StreamLog(s) = <<>> <=> version[s] = 0
<1>1. version[s] \in Nat
  BY DEF IndInv, TypeOK
<1>2. \A p \in 1..version[s] : WriterAt(s, p) \in Writers
  <2> SUFFICES ASSUME NEW p \in 1..version[s] PROVE WriterAt(s, p) \in Writers
    OBVIOUS
  <2>1. PICK r \in events : r.stream = s /\ r.pos = p
    BY DEF IndInv, TableInv
  <2> QED
    BY <2>1, WriterOfRow DEF IndInv, TypeOK, Row
<1>3. StreamLog(s) \in [1..version[s] -> Writers]
  BY <1>2 DEF StreamLog
<1>4. StreamLog(s) \in Seq(Writers) /\ Len(StreamLog(s)) = version[s]
  BY <1>1, <1>3, FunctionSeq
<1> QED
  BY <1>1, <1>4, EmptySeq

LEMMA StreamLogTypeNext ==
  ASSUME IndInv', NEW s \in Streams
  PROVE  /\ StreamLog(s)' \in Seq(Writers)
         /\ Len(StreamLog(s)') = version'[s]
<1>1. version'[s] \in Nat
  BY DEF IndInv, TypeOK
<1>2. \A p \in 1..version'[s] : WriterAt(s, p)' \in Writers
  <2> SUFFICES ASSUME NEW p \in 1..version'[s] PROVE WriterAt(s, p)' \in Writers
    OBVIOUS
  <2>1. PICK r \in events' : r.stream = s /\ r.pos = p
    BY DEF IndInv, TableInv
  <2> QED
    BY <2>1, WriterOfRowNext DEF IndInv, TypeOK, Row
<1>3. StreamLog(s)' = [p \in 1..version'[s] |-> WriterAt(s, p)']
  BY DEF StreamLog
<1>4. StreamLog(s)' \in [1..version'[s] -> Writers]
  BY <1>2, <1>3
<1> QED
  BY <1>1, <1>4, FunctionSeq

(* The gate of append() in terms of the abstract log. *)
LEMMA GateOfLog ==
  ASSUME IndInv, NEW s \in Streams, NEW expected
  PROVE  Abstract!Matches(expected, StreamLog(s))
           <=> expected = (IF version[s] = 0 THEN NewStream ELSE version[s])
BY StreamLogType DEF Abstract!Matches, Abstract!NewStream, NewStream

(* What leaves the tables and the calls alone leaves the log alone. *)
LEMMA LogsFrame ==
  ASSUME events' = events, version' = version
  PROVE  Logs' = Logs
BY DEF Logs, StreamLog, WriterAt

LEMMA CallsFrame ==
  ASSUME NEW w \in Writers,
         \A v \in Writers \ {w} : pc'[v] = pc[v] /\ req'[v] = req[v] /\ reply'[v] = reply[v]
  PROVE  Calls' = [Calls EXCEPT ![w] = CallOf(w)']
<1>1. \A v \in Writers \ {w} : CallOf(v)' = CallOf(v)
  BY DEF CallOf
<1> QED
  BY <1>1 DEF Calls

(* A call in each phase as AtomicLog sees it. *)
LEMMA CallsValue ==
  ASSUME NEW w \in Writers
  PROVE  /\ Calls[w] = CallOf(w)
         /\ pc[w] = "idle" => CallOf(w) = [phase |-> "idle"]
         /\ pc[w] = "return" => CallOf(w) = [phase |-> "decided", reply |-> reply[w]]
         /\ pc[w] \in Unfinished => CallOf(w) = [phase |-> "pending", stream |-> req[w].stream,
                                                 expected |-> req[w].expected,
                                                 size |-> req[w].size]
BY DEF Calls, CallOf, Unfinished, Locking

(* The initial states are initial states of the log. *)
LEMMA InitRefines == Init => Abstract!AInit
<1> SUFFICES ASSUME Init PROVE Abstract!AInit
  OBVIOUS
<1>1. IndInv
  BY InitInd
<1>2. Logs = [s \in Streams |-> <<>>]
  BY <1>1, StreamLogType DEF Logs, Init
<1>3. Calls = [w \in Writers |-> Abstract!NoCall]
  BY DEF Calls, CallOf, Abstract!NoCall, Init
<1> QED
  BY <1>2, <1>3 DEF Abstract!AInit, Init

(* The end of a call without a commit refuses it. *)
LEMMA RefuseRefines ==
  ASSUME IndInv, NEW w \in Writers, pc[w] \in Unfinished,
         NEW result \in Replies, Finish(w, result),
         UNCHANGED <<tables, req>>,
         \/ result = "conflict" /\ ~ Abstract!Matches(req[w].expected, StreamLog(req[w].stream))
         \/ result = "archived" /\ req[w].stream \in archived
         \/ result = "empty" /\ req[w].size = 0
         \/ result = "failed"
  PROVE  Abstract!ANext
<1> DEFINE s == req[w].stream
<1>1. /\ pc' = [pc EXCEPT ![w] = "return"] /\ reply' = [reply EXCEPT ![w] = result]
      /\ pc \in [Writers -> Phases] /\ reply \in [Writers -> Replies] /\ req' = req
  BY DEF Finish, Goto, IndInv, TypeOK
<1>2. CallOf(w)' = [phase |-> "decided", reply |-> result]
  BY <1>1 DEF CallOf
<1>3. Calls' = [Calls EXCEPT ![w] = [phase |-> "decided", reply |-> result]]
  BY <1>1, <1>2, CallsFrame
<1>4. Logs' = Logs /\ archived' = archived
  BY LogsFrame DEF tables
<1>5. Calls[w] = [phase |-> "pending", stream |-> s, expected |-> req[w].expected,
                  size |-> req[w].size]
  BY CallsValue
<1>6. s \in Streams
  BY DEF IndInv, CallInv, Request, Unfinished, Locking
<1>7. Logs[s] = StreamLog(s)
  BY <1>6 DEF Logs
<1>8. Abstract!Refuse(w, result)
  BY <1>3, <1>4, <1>5, <1>7 DEF Abstract!Refuse, Abstract!Pending, Abstract!Decide
<1>9. result \in Abstract!Replies
  BY DEF Replies, Abstract!Replies
<1> QED
  BY <1>8, <1>9 DEF Abstract!ANext

LEMMA CallRefines ==
  ASSUME IndInv, NEW w \in Writers, NEW s \in Streams,
         NEW expected \in ExpectedVersions, NEW n \in 0..MaxBatch, Call(w, s, expected, n)
  PROVE  Abstract!ANext
<1>1. /\ pc[w] = "idle" /\ pc' = [pc EXCEPT ![w] = "select"] /\ pc \in [Writers -> Phases]
      /\ req' = [req EXCEPT ![w] = [stream |-> s, expected |-> expected, size |-> n]]
      /\ req \in [Writers -> Request \cup {NoRequest}]
      /\ reply' = reply /\ archived' = archived /\ events' = events /\ version' = version
  BY DEF Call, Goto, tables, IndInv, TypeOK
<1>2. CallOf(w)' = [phase |-> "pending", stream |-> s, expected |-> expected, size |-> n]
  BY <1>1 DEF CallOf
<1>3. Calls' = [Calls EXCEPT ![w] = [phase |-> "pending", stream |-> s,
                                     expected |-> expected, size |-> n]]
  BY <1>1, <1>2, CallsFrame
<1>4. Calls[w].phase = "idle"
  BY <1>1, CallsValue
<1>5. Abstract!Request(w, s, expected, n)
  BY <1>1, <1>3, <1>4, LogsFrame DEF Abstract!Request
<1> QED
  BY <1>5 DEF Abstract!ANext

LEMMA ReturnRefines ==
  ASSUME IndInv, NEW w \in Writers, Return(w)
  PROVE  Abstract!ANext
<1>1. /\ pc[w] = "return" /\ pc' = [pc EXCEPT ![w] = "idle"] /\ pc \in [Writers -> Phases]
      /\ req' = [req EXCEPT ![w] = NoRequest] /\ reply' = [reply EXCEPT ![w] = "failed"]
      /\ req \in [Writers -> Request \cup {NoRequest}] /\ reply \in [Writers -> Replies]
      /\ archived' = archived /\ events' = events /\ version' = version
  BY DEF Return, Goto, tables, IndInv, TypeOK
<1>2. CallOf(w)' = Abstract!NoCall
  BY <1>1 DEF CallOf, Abstract!NoCall
<1>3. Calls' = [Calls EXCEPT ![w] = Abstract!NoCall]
  BY <1>1, <1>2, CallsFrame
<1>4. Calls[w].phase = "decided"
  BY <1>1, CallsValue
<1>5. Abstract!Return(w)
  BY <1>1, <1>3, <1>4, LogsFrame DEF Abstract!Return
<1> QED
  BY <1>5 DEF Abstract!ANext

LEMMA ArchiveRefines ==
  ASSUME IndInv, NEW s \in Streams, Archive(s)
  PROVE  Abstract!ANext
<1>1. version[s] > 0
  BY DEF Archive, IndInv, TableInv
<1>2. Logs[s] # <<>>
  BY <1>1, StreamLogType DEF Logs
<1>3. Calls' = Calls
  BY DEF Calls, CallOf, Archive
<1>4. Abstract!Archive(s)
  BY <1>2, <1>3, LogsFrame DEF Abstract!Archive, Archive
<1> QED
  BY <1>4 DEF Abstract!ANext

(* A statement inside the transaction is not seen. *)
LEMMA InsideRefines ==
  ASSUME IndInv, NEW w \in Writers, pc[w] \in Unfinished, pc'[w] \in Unfinished,
         \A v \in Writers \ {w} : pc'[v] = pc[v],
         UNCHANGED <<tables, req, reply>>
  PROVE  UNCHANGED Abstract!avars
<1>1. Calls' = [Calls EXCEPT ![w] = CallOf(w)']
  BY CallsFrame
<1>2. CallOf(w)' = CallOf(w)
  BY DEF CallOf, Unfinished, Locking
<1>3. Calls' = Calls
  BY <1>1, <1>2 DEF Calls
<1> QED
  BY <1>3, LogsFrame DEF Abstract!avars, tables

(* A commit that appends the whole batch to the abstract log. *)
LEMMA CommitRefines ==
  ASSUME IndInv, IndInv', NEW w \in Writers, NEW result \in {"ok", "failed"},
         Commit(w, result)
  PROVE  Abstract!ANext
<1> DEFINE s == req[w].stream
           n == req[w].size
           batch == [i \in 1..n |-> w]
<1>1. /\ s \in Streams /\ base[w] = version[s] /\ s \notin archived /\ pc[w] \in Locking
      /\ n \in Nat /\ n > 0 /\ version[s] \in Nat
      /\ req[w].expected = (IF version[s] = 0 THEN NewStream ELSE version[s])
  BY DEF IndInv, CallInv, TypeOK, Request, Commit, Locking, Unfinished
<1>2. /\ events' = events \cup rows[w]
      /\ version' = [version EXCEPT ![s] = version[s] + n]
      /\ version \in [Streams -> Nat]
      /\ archived' = archived /\ req' = req
      /\ pc' = [pc EXCEPT ![w] = "return"] /\ reply' = [reply EXCEPT ![w] = result]
      /\ pc \in [Writers -> Phases] /\ reply \in [Writers -> Replies]
  BY <1>1 DEF Commit, Finish, Goto, IndInv, TypeOK
<1>3. \A r \in rows[w] : r.stream = s /\ r.by = w
  BY DEF IndInv, BufferInv, BufferOf
<1>4. \A t \in Streams : \A p \in 1..version[t] : WriterAt(t, p)' = WriterAt(t, p)
  <2> SUFFICES ASSUME NEW t \in Streams, NEW p \in 1..version[t]
               PROVE  WriterAt(t, p)' = WriterAt(t, p)
    OBVIOUS
  <2>1. PICK r \in events : r.stream = t /\ r.pos = p
    BY DEF IndInv, TableInv
  <2>2. WriterAt(t, p) = r.by
    BY <2>1, WriterOfRow
  <2>3. r \in events'
    BY <1>2
  <2> QED
    BY <2>1, <2>2, <2>3, WriterOfRowNext
<1>5. \A p \in version[s] + 1 .. version[s] + n : \A t \in Streams :
        t = s => WriterAt(t, p)' = w
  <2> SUFFICES ASSUME NEW p \in version[s] + 1 .. version[s] + n, NEW t \in Streams, t = s
               PROVE  WriterAt(t, p)' = w
    OBVIOUS
  <2>1. PICK r \in rows[w] : r.pos = p
    BY <1>1 DEF IndInv, BufferInv, BufferOf, Commit
  <2>2. r \in events' /\ r.stream = t /\ r.by = w
    BY <1>2, <1>3
  <2> QED
    BY <2>1, <2>2, WriterOfRowNext
<1>6. \A t \in Streams : StreamLog(t)' = IF t = s THEN StreamLog(t) \o batch ELSE StreamLog(t)
  <2> SUFFICES ASSUME NEW t \in Streams
               PROVE  StreamLog(t)' = IF t = s THEN StreamLog(t) \o batch ELSE StreamLog(t)
    OBVIOUS
  <2>1. StreamLog(t)' = [p \in 1..version'[t] |-> WriterAt(t, p)']
    BY DEF StreamLog
  <2>2. CASE t # s
    <3>1. version'[t] = version[t]
      BY <1>2, <2>2
    <3> QED
      BY <2>1, <2>2, <3>1, <1>4 DEF StreamLog
  <2>3. CASE t = s
    <3> DEFINE old == StreamLog(t)
               new == StreamLog(t)'
               both == old \o batch
    <3>1. /\ old \in Seq(Writers) /\ Len(old) = version[t]
          /\ \A p \in 1..version[t] : old[p] = WriterAt(t, p)
      BY StreamLogType DEF StreamLog
    <3>2. batch \in Seq(Writers) /\ Len(batch) = n /\ \A i \in 1..n : batch[i] = w
      BY <1>1, BatchSeq
    <3>3. /\ new \in Seq(Writers) /\ Len(new) = version[t] + n
          /\ \A p \in 1 .. version[t] + n : new[p] = WriterAt(t, p)'
      <4>1. version'[t] = version[t] + n
        BY <1>2, <2>3
      <4> QED
        BY <2>1, <4>1, StreamLogTypeNext
    <3> HIDE DEF old, new, batch, n
    <3>4. /\ both \in Seq(Writers) /\ Len(both) = version[t] + n
          /\ \A p \in 1 .. version[t] + n :
               both[p] = IF p <= version[t] THEN old[p] ELSE batch[p - version[t]]
      <4>1. /\ both \in Seq(Writers) /\ Len(both) = Len(old) + Len(batch)
            /\ \A p \in 1 .. Len(old) + Len(batch) :
                 both[p] = IF p <= Len(old) THEN old[p] ELSE batch[p - Len(old)]
        BY <3>1, <3>2, ConcatProperties
      <4> HIDE DEF both
      <4> QED
        BY ONLY <4>1, <3>1, <3>2
    <3> HIDE DEF both
    <3>5. ASSUME NEW p \in 1 .. version[t] + n PROVE new[p] = both[p]
      <4>1. CASE p <= version[t]
        <5>1. p \in 1..version[t]
          BY <4>1, <1>1, <2>3
        <5> QED
          BY <5>1, <4>1, <3>1, <3>3, <3>4, <1>4
      <4>2. CASE ~ (p <= version[t])
        <5>1. p \in version[s] + 1 .. version[s] + n /\ p - version[t] \in 1..n
          BY <4>2, <1>1, <2>3
        <5> QED
          BY <5>1, <4>2, <2>3, <3>2, <3>3, <3>4, <1>5
      <4> QED
        BY <4>1, <4>2
    <3>6. new = both
      BY <3>3, <3>4, <3>5, SeqEqual
    <3> QED
      BY <3>6, <2>3 DEF new, both, old
  <2> QED
    BY <2>2, <2>3
<1>7. Logs' = [Logs EXCEPT ![s] = Logs[s] \o batch]
  <2>1. Logs' = [t \in Streams |-> StreamLog(t)']
    BY DEF Logs
  <2> HIDE DEF batch
  <2> QED
    BY <2>1, <1>6, <1>1 DEF Logs
<1>8. Calls' = [Calls EXCEPT ![w] = [phase |-> "decided", reply |-> result]]
  <2>1. CallOf(w)' = [phase |-> "decided", reply |-> result]
    BY <1>2 DEF CallOf, Replies
  <2> QED
    BY <2>1, <1>2, CallsFrame
<1>9. Calls[w] = [phase |-> "pending", stream |-> s, expected |-> req[w].expected, size |-> n]
  BY <1>1, CallsValue DEF Unfinished
<1>10. Abstract!Matches(req[w].expected, Logs[s])
  BY <1>1, GateOfLog DEF Logs
<1>11. Abstract!Accept(w, result)
  BY <1>1, <1>2, <1>7, <1>8, <1>9, <1>10
     DEF Abstract!Accept, Abstract!Pending, Abstract!Decide
<1> QED
  BY <1>11 DEF Abstract!ANext, Abstract!Replies

LEMMA ExecuteRefines ==
  ASSUME IndInv, IndInv', NEW w \in Writers, Execute(w)
  PROVE  [Abstract!ANext]_(Abstract!avars)
<1> USE DEF IndInv, TypeOK
<1>1. CASE EmptyBatch(w)
  BY <1>1, RefuseRefines DEF EmptyBatch, Unfinished, Replies
<1>2. CASE SelectMissing(w)
  <2> DEFINE s == req[w].stream
  <2>1. pc[w] = "select" /\ s \in Streams /\ version[s] = 0 /\ UNCHANGED <<tables, req>>
    BY <1>2 DEF SelectMissing, CallInv, Request, TableInv
  <2>2. CASE req[w].expected # NewStream
    <3>1. ~ Abstract!Matches(req[w].expected, StreamLog(s))
      BY <2>1, <2>2, GateOfLog
    <3> QED
      BY <1>2, <2>1, <2>2, <3>1, RefuseRefines DEF SelectMissing, Unfinished, Replies
  <2>3. CASE req[w].expected = NewStream
    BY <1>2, <2>1, <2>3, InsideRefines DEF SelectMissing, Goto, Unfinished
  <2> QED
    BY <2>2, <2>3
<1>3. CASE SelectExisting(w)
  <2> DEFINE s == req[w].stream
  <2>1. pc[w] = "select" /\ s \in Streams /\ version[s] > 0 /\ UNCHANGED <<tables, req>>
    BY <1>3 DEF SelectExisting, CallInv, Request, TableInv
  <2>2. CASE s \in archived
    BY <1>3, <2>1, <2>2, RefuseRefines DEF SelectExisting, Unfinished, Replies
  <2>3. CASE s \notin archived /\ (req[w].expected = NewStream \/ req[w].expected # version[s])
    <3>1. ~ Abstract!Matches(req[w].expected, StreamLog(s))
      BY <2>1, <2>3, GateOfLog DEF NewStream
    <3> QED
      BY <1>3, <2>1, <2>3, <3>1, RefuseRefines DEF SelectExisting, Unfinished, Replies
  <2>4. CASE s \notin archived /\ ~ (req[w].expected = NewStream \/ req[w].expected # version[s])
    BY <1>3, <2>1, <2>4, InsideRefines DEF SelectExisting, Goto, Unfinished, Locking
  <2> QED
    BY <2>2, <2>3, <2>4
<1>4. CASE InsertStream(w)
  <2>1. pc[w] \in Unfinished /\ pc'[w] \in Unfinished /\ UNCHANGED <<tables, req, reply>>
        /\ \A v \in Writers \ {w} : pc'[v] = pc[v]
    BY <1>4 DEF InsertStream, Goto, Unfinished, Locking
  <2> QED
    BY <2>1, InsideRefines
<1>5. CASE InsertEvent(w)
  <2>1. pc[w] \in Unfinished /\ pc'[w] \in Unfinished /\ UNCHANGED <<tables, req, reply>>
        /\ \A v \in Writers \ {w} : pc'[v] = pc[v]
    BY <1>5 DEF InsertEvent, Goto, Unfinished, Locking, tables
  <2> QED
    BY <2>1, InsideRefines
<1>6. CASE InsertOutbox(w)
  <2>1. pc[w] \in Unfinished /\ pc'[w] \in Unfinished /\ UNCHANGED <<tables, req, reply>>
        /\ \A v \in Writers \ {w} : pc'[v] = pc[v]
    BY <1>6 DEF InsertOutbox, Goto, Unfinished, Locking
  <2> QED
    BY <2>1, InsideRefines
<1>7. CASE \E result \in {"ok", "failed"} : Commit(w, result)
  BY <1>7, CommitRefines
<1>8. CASE UniqueViolation(w)
  <2>1. /\ pc[w] = "unique_violation" /\ req[w].stream \in Streams
        /\ version[req[w].stream] > 0 /\ req[w].expected = NewStream
    BY <1>8 DEF UniqueViolation, CallInv, Request, TableInv
  <2>2. ~ Abstract!Matches(req[w].expected, StreamLog(req[w].stream))
    BY <2>1, GateOfLog DEF NewStream
  <2> QED
    BY <1>8, <2>1, <2>2, RefuseRefines DEF UniqueViolation, Unfinished, Replies
<1>9. CASE Return(w)
  BY <1>9, ReturnRefines
<1> QED
  BY <1>1, <1>2, <1>3, <1>4, <1>5, <1>6, <1>7, <1>8, <1>9 DEF Execute

LEMMA StepRefines ==
  IndInv /\ IndInv' /\ [Next]_vars => [Abstract!ANext]_(Abstract!avars)
<1> SUFFICES ASSUME IndInv, IndInv', [Next]_vars
             PROVE  [Abstract!ANext]_(Abstract!avars)
  OBVIOUS
<1>1. CASE \E w \in Writers, s \in Streams, expected \in ExpectedVersions, n \in 0..MaxBatch :
             Call(w, s, expected, n)
  BY <1>1, CallRefines
<1>2. CASE \E w \in Writers : Execute(w)
  BY <1>2, ExecuteRefines
<1>3. ASSUME NEW w \in Writers, Abort(w) PROVE Abstract!ANext
  BY <1>3, RefuseRefines DEF Abort, Replies
<1>4. CASE \E s \in Streams : Archive(s)
  BY <1>4, ArchiveRefines
<1>5. CASE UNCHANGED vars
  BY <1>5, LogsFrame DEF vars, tables, Abstract!avars, Calls, CallOf
<1> QED
  BY <1>1, <1>2, <1>3, <1>4, <1>5 DEF Next

(* Whatever statements of however many appends interleave, and wherever      *)
(* their callers crash, the streams behave as indivisible appends to one log *)
(* each would make them, and every conflict that is reported was one.        *)
THEOREM ImplementsAtomicLog == Spec => RefinesAtomicLog
<1>1. IndInv /\ IndInv' /\ [Next]_vars => [Abstract!ANext]_(Abstract!avars)
  BY StepRefines
<1> QED
  BY <1>1, InitRefines, IndInvariant, PTL DEF Spec, RefinesAtomicLog, Abstract!ASpec
===============================================================================
