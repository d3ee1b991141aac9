------------------------------- MODULE AtomicLog -------------------------------
(***************************************************************************)
(* What EventStore.append promises its callers: every stream is one        *)
(* append-only log; a call names the version it believes the stream has,   *)
(* and the whole batch is added in one indivisible step, at a moment when  *)
(* that belief is true, or nothing is added.  A refusal is honest: a       *)
(* conflict is only reported if at some moment of the call the belief was  *)
(* false, and STREAM_ARCHIVED only if the stream is archived.  A caller    *)
(* that sees a failure does not know whether its batch was added.          *)
(***************************************************************************)
EXTENDS StreamVersion

CONSTANTS Streams,           \* stream ids
          Writers,           \* concurrent callers of append()
          ExpectedVersions,  \* values callers pass as expected_version
          MaxBatch           \* bound: events per call

VARIABLES log,        \* log[s]: who wrote each event of stream s, in order
          archived,   \* the streams with archived_at set
          call        \* call[w]: the call of writer w, from request to return

avars == <<log, archived, call>>

Replies == {"ok", "conflict", "archived", "empty", "failed"}

NoCall == [phase |-> "idle"]

Pending(w) == call[w].phase = "pending"

Decide(w, reply) == call' = [call EXCEPT ![w] = [phase |-> "decided", reply |-> reply]]

-------------------------------------------------------------------------------

AInit ==
  /\ log = [s \in Streams |-> <<>>]
  /\ archived = {}
  /\ call = [w \in Writers |-> NoCall]

Request(w, s, expected, n) ==
  /\ call[w].phase = "idle"
  /\ call' = [call EXCEPT ![w] = [phase |-> "pending", stream |-> s,
                                  expected |-> expected, size |-> n]]
  /\ UNCHANGED <<log, archived>>

(* The indivisible append.  The reply may still be lost on the way back. *)
Accept(w, reply) ==
  LET s == call[w].stream
  IN /\ Pending(w)
     /\ call[w].size > 0
     /\ s \notin archived
     /\ Matches(call[w].expected, log[s])
     /\ reply \in {"ok", "failed"}
     /\ log' = [log EXCEPT ![s] = @ \o [i \in 1..call[w].size |-> w]]
     /\ Decide(w, reply)
     /\ UNCHANGED archived

Refuse(w, reply) ==
  LET s == call[w].stream
  IN /\ Pending(w)
     /\ \/ reply = "conflict" /\ ~ Matches(call[w].expected, log[s])
        \/ reply = "archived" /\ s \in archived
        \/ reply = "empty" /\ call[w].size = 0
        \/ reply = "failed"
     /\ Decide(w, reply)
     /\ UNCHANGED <<log, archived>>

Return(w) ==
  /\ call[w].phase = "decided"
  /\ call' = [call EXCEPT ![w] = NoCall]
  /\ UNCHANGED <<log, archived>>

Archive(s) ==
  /\ log[s] # <<>>
  /\ archived' = archived \cup {s}
  /\ UNCHANGED <<log, call>>

ANext ==
  \/ \E w \in Writers :
       \/ \E s \in Streams, expected \in ExpectedVersions, n \in 0..MaxBatch :
            Request(w, s, expected, n)
       \/ \E reply \in Replies : Accept(w, reply) \/ Refuse(w, reply)
       \/ Return(w)
  \/ \E s \in Streams : Archive(s)

ASpec == AInit /\ [][ANext]_avars
=============================================================================
