--------------------------- MODULE AuditLedgerProofs ---------------------------
(***************************************************************************)
(* Proofs about AuditLedger, for any number of checkers, streams and events: *)
(*   - LedgerInv is inductive, hence a broken chain stops the ledger and     *)
(*     evidence only grows;                                                  *)
(*   - BookInv is inductive beside it: the types, and what a scan of         *)
(*     load_all has read so far, hence the timeline is complete;             *)
(*   - AccuseInv is inductive beside both: the sets of events the tool       *)
(*     digests are nested, hence it accuses nobody while nothing changed.    *)
(***************************************************************************)
EXTENDS AuditLedger, FiniteSetTheorems, WellFoundedInduction, TLAPS

(* Append keeps what a sequence had and adds one element at its end. *)
LEMMA AppendOne ==
  ASSUME NEW s, Sequential(s), NEW e
  PROVE  /\ Sequential(Append(s, e))
         /\ Len(s) \in Nat /\ DOMAIN s = 1..Len(s)
         /\ Len(Append(s, e)) = Len(s) + 1
         /\ DOMAIN Append(s, e) = 1..(Len(s) + 1)
         /\ \A i \in 1..Len(s) : Append(s, e)[i] = s[i]
         /\ Append(s, e)[Len(s) + 1] = e
<1> DEFINE S == {s[i] : i \in DOMAIN s}
           t == Append(s, e)
<1>1. s \in Seq(S \cup {e})
  <2>1. s \in Seq(S)
    BY DEF Sequential
  <2> QED
    BY <2>1
<1>2. /\ Len(s) \in Nat /\ DOMAIN s = 1..Len(s)
      /\ Len(t) = Len(s) + 1 /\ DOMAIN t = 1..(Len(s) + 1)
      /\ \A i \in 1..Len(s) : t[i] = s[i]
      /\ t[Len(s) + 1] = e
      /\ t \in Seq(S \cup {e})
  BY <1>1
<1>3. t \in Seq({t[i] : i \in DOMAIN t})
  <2>1. \A i \in 1..Len(t) : t[i] \in {t[j] : j \in DOMAIN t}
    BY <1>2
  <2> QED
    BY <1>2, <2>1
<1> QED
  BY <1>2, <1>3 DEF Sequential

(* What a query returns is finite when the rows it selects are. *)
LEMMA ContentsFinite ==
  ASSUME NEW S, IsFiniteSet(S)
  PROVE  IsFiniteSet({Content(g) : g \in S})
<1> DEFINE T == {Content(g) : g \in S}
           f == [g \in S |-> Content(g)]
<1>1. f \in Surjection(S, T)
  BY DEF Surjection
<1> QED
  BY <1>1, FS_Surjection

-------------------------------------------------------------------------------

LEMMA InitInv == Init => LedgerInv
<1> SUFFICES ASSUME Init PROVE LedgerInv
  OBVIOUS
<1>1. IsFiniteSet({})
  BY FS_EmptySet
<1>2. Sequential(trail) /\ DOMAIN trail = {}
  BY DEF Init, Sequential
<1> QED
  BY <1>1, <1>2 DEF Init, LedgerInv, OnItsWay

(* Steps that leave the trail alone, and of the calls only c's. *)
LEMMA QuietStep ==
  ASSUME LedgerInv, NEW c \in Checkers, UNCHANGED trail,
         DOMAIN pc' = Checkers, DOMAIN ledger' = Checkers, DOMAIN found' = Checkers,
         \A d \in Checkers : d # c =>
            pc'[d] = pc[d] /\ ledger'[d] = ledger[d] /\ found'[d] = found[d],
         IsFiniteSet(committed'), IsFiniteSet(found'[c]),
         pc'[c] \in OnItsWay => KnowsTrail(c)'
  PROVE  LedgerInv'
<1>1. ASSUME NEW d \in Checkers, pc'[d] \in OnItsWay PROVE KnowsTrail(d)'
  BY <1>1 DEF LedgerInv, KnowsTrail
<1>2. ASSUME NEW i \in DOMAIN trail', trail'[i].by = "ledger" PROVE RecordedInOrder(i)'
  BY <1>2 DEF LedgerInv, RecordedInOrder
<1>3. \A d \in Checkers : IsFiniteSet(found'[d])
  BY DEF LedgerInv
<1> QED
  BY <1>1, <1>2, <1>3 DEF LedgerInv

(* A check that ends by appending one event to the trail.                    *)
LEMMA AppendedStep ==
  ASSUME LedgerInv, NEW c \in Checkers, NEW check,
         trail' = Append(trail, check), Finish(c), UNCHANGED committed,
         check.by = "ledger" => \A n : n = Len(trail) + 1 => RecordedInOrder(n)'
  PROVE  LedgerInv'
<1>1. Sequential(trail)
  BY DEF LedgerInv
<1>2. /\ Sequential(trail')
      /\ Len(trail) \in Nat /\ DOMAIN trail = 1..Len(trail)
      /\ Len(trail') = Len(trail) + 1
      /\ DOMAIN trail' = 1..(Len(trail) + 1)
      /\ \A i \in 1..Len(trail) : trail'[i] = trail[i]
      /\ trail'[Len(trail) + 1] = check
  <2> HIDE DEF LedgerInv
  <2>1. /\ Sequential(Append(trail, check))
        /\ Len(trail) \in Nat /\ DOMAIN trail = 1..Len(trail)
        /\ Len(Append(trail, check)) = Len(trail) + 1
        /\ DOMAIN Append(trail, check) = 1..(Len(trail) + 1)
        /\ \A i \in 1..Len(trail) : Append(trail, check)[i] = trail[i]
        /\ Append(trail, check)[Len(trail) + 1] = check
    BY <1>1, AppendOne
  <2> QED
    BY ONLY <2>1, trail' = Append(trail, check)
<1>3. /\ pc' = [pc EXCEPT ![c] = "idle"]
      /\ ledger' = [ledger EXCEPT ![c] = NewLedger]
      /\ found' = [found EXCEPT ![c] = {}]
  BY DEF Finish, Goto
<1>4. DOMAIN pc' = Checkers /\ DOMAIN ledger' = Checkers /\ DOMAIN found' = Checkers
  BY <1>3 DEF LedgerInv
<1>5. IsFiniteSet(committed') /\ \A d \in Checkers : IsFiniteSet(found'[d])
  BY <1>3, FS_EmptySet DEF LedgerInv
<1>6. ASSUME NEW d \in Checkers, pc'[d] \in OnItsWay
      PROVE  KnowsTrail(d)'
  <2>1. d # c /\ pc[d] \in OnItsWay /\ ledger'[d] = ledger[d]
    BY <1>3, <1>6 DEF LedgerInv, OnItsWay
  <2>2. KnowsTrail(d)
    BY <2>1 DEF LedgerInv
  <2> QED
    BY ONLY <1>2, <2>1, <2>2 DEF KnowsTrail
<1>7. ASSUME NEW i \in DOMAIN trail', trail'[i].by = "ledger"
      PROVE  RecordedInOrder(i)'
  <2>1. CASE i \in DOMAIN trail
    <3>1. i \in 1..Len(trail) /\ trail'[i] = trail[i] /\ trail[i].by = "ledger"
      BY <1>2, <1>7, <2>1
    <3>2. RecordedInOrder(i)
      BY <2>1, <3>1 DEF LedgerInv
    <3> QED
      BY ONLY <1>2, <3>1, <3>2 DEF RecordedInOrder
  <2>2. CASE i \notin DOMAIN trail
    <3>1. i = Len(trail) + 1
      BY ONLY <1>2, <1>7, <2>2
    <3>2. check.by = "ledger"
      BY <1>2, <1>7, <3>1
    <3> QED
      BY <3>1, <3>2
  <2> QED
    BY <2>1, <2>2
<1> QED
  BY <1>2, <1>4, <1>5, <1>6, <1>7 DEF LedgerInv

(* A check that ends and leaves the trail alone.                             *)
LEMMA FinishInv ==
  ASSUME LedgerInv, NEW c \in Checkers, Finish(c), UNCHANGED <<trail, committed>>
  PROVE  LedgerInv'
<1>1. /\ pc' = [pc EXCEPT ![c] = "idle"]
      /\ ledger' = [ledger EXCEPT ![c] = NewLedger]
      /\ found' = [found EXCEPT ![c] = {}]
  BY DEF Finish, Goto
<1>2. DOMAIN pc' = Checkers /\ DOMAIN ledger' = Checkers /\ DOMAIN found' = Checkers
  BY <1>1 DEF LedgerInv
<1>3. \A d \in Checkers : d # c =>
          pc'[d] = pc[d] /\ ledger'[d] = ledger[d] /\ found'[d] = found[d]
  BY <1>1 DEF LedgerInv
<1>4. IsFiniteSet(committed') /\ IsFiniteSet(found'[c]) /\ pc'[c] \notin OnItsWay
  BY <1>1, FS_EmptySet DEF LedgerInv, OnItsWay
<1> QED
  BY <1>2, <1>3, <1>4, QuietStep

(* A check that ends, whether or not its event fits.                         *)
LEMMA AppendCheckInv ==
  ASSUME LedgerInv, NEW c \in Checkers, NEW version, NEW check,
         AppendCheck(c, version, check),
         /\ check.by = "ledger"
         /\ Matches(IF version = 0 THEN NewStream ELSE version, trail)
         /\ trail' = Append(trail, check)
         => \A n : n = Len(trail) + 1 => RecordedInOrder(n)'
  PROVE  LedgerInv'
<1> DEFINE fits == Matches(IF version = 0 THEN NewStream ELSE version, trail)
<1>1. /\ Finish(c) /\ UNCHANGED committed
      /\ trail' = IF fits THEN Append(trail, check) ELSE trail
  BY DEF AppendCheck, log
<1>2. CASE fits
  <2>1. trail' = Append(trail, check)
    BY <1>1, <1>2
  <2> QED
    BY <1>1, <1>2, <2>1, AppendedStep
<1>3. CASE ~ fits
  <2>1. trail' = trail
    BY <1>1, <1>3
  <2> QED
    BY <1>1, <2>1, FinishInv
<1> QED
  BY <1>2, <1>3

LEMMA BusinessInv == ASSUME LedgerInv, Business PROVE LedgerInv'
<1>1. /\ UNCHANGED <<trail, pc, ledger, found>>
      /\ committed' = committed \/ \E g \in open : committed' = committed \cup {g}
  BY DEF Business, Draw, CommitAppend, RollbackAppend, Tamper, call
<1>2. IsFiniteSet(committed')
  <2>1. CASE committed' = committed
    BY <2>1 DEF LedgerInv
  <2>2. ASSUME NEW g \in open, committed' = committed \cup {g} PROVE IsFiniteSet(committed')
    BY <2>2, FS_AddElement DEF LedgerInv
  <2> QED
    BY <1>1, <2>1, <2>2
<1>3. ASSUME NEW d \in Checkers, pc'[d] \in OnItsWay PROVE KnowsTrail(d)'
  BY <1>1, <1>3 DEF LedgerInv, KnowsTrail
<1>4. ASSUME NEW i \in DOMAIN trail', trail'[i].by = "ledger" PROVE RecordedInOrder(i)'
  BY <1>1, <1>4 DEF LedgerInv, RecordedInOrder
<1> QED
  BY <1>1, <1>2, <1>3, <1>4 DEF LedgerInv

LEMMA StartInv ==
  ASSUME LedgerInv, NEW c \in Checkers, NEW kind \in Kinds, Start(c, kind)
  PROVE  LedgerInv'
<1>1. /\ pc' = [pc EXCEPT ![c] = IF kind = "ledger" THEN "load_ledger" ELSE "tool_load"]
      /\ UNCHANGED <<trail, ledger, found, committed>>
  BY DEF Start, Goto, call, log
<1>2. DOMAIN pc' = Checkers /\ pc'[c] \notin OnItsWay
  BY <1>1 DEF LedgerInv, OnItsWay
<1>3. \A d \in Checkers : d # c => pc'[d] = pc[d]
  BY <1>1 DEF LedgerInv
<1> QED
  BY <1>1, <1>2, <1>3, QuietStep DEF LedgerInv

(* What LedgerOf returns of a trail without an invalid check.                *)
LEMMA LoadedTrail ==
  ASSUME LedgerInv
  PROVE  LET loaded == LedgerOf(trail)
         IN /\ Len(trail) \in Nat /\ DOMAIN trail = 1..Len(trail)
            /\ loaded.version = Len(trail)
            /\ loaded.valid => \A i \in 1..Len(trail) : trail[i].valid
            /\ Len(trail) > 0 => /\ loaded.hash = trail[Len(trail)].hash
                                 /\ loaded.count = trail[Len(trail)].count
<1>1. Len(trail) \in Nat /\ DOMAIN trail = 1..Len(trail)
  BY AppendOne DEF LedgerInv
<1>2. Len(trail) > 0 => trail # <<>>
  OBVIOUS
<1> QED
  BY <1>1, <1>2 DEF LedgerOf

LEMMA LoadLedgerInv ==
  ASSUME LedgerInv, NEW c \in Checkers, LoadLedger(c)
  PROVE  LedgerInv'
<1> DEFINE loaded == LedgerOf(trail)
<1>0. UNCHANGED <<trail, committed>>
  BY DEF LoadLedger, log
<1>1. CASE loaded.valid
  <2>1. /\ pc' = [pc EXCEPT ![c] = "load_stream"]
        /\ ledger' = [ledger EXCEPT ![c] = loaded]
        /\ UNCHANGED found
    BY <1>1 DEF LoadLedger, Goto
  <2>2. DOMAIN pc' = Checkers /\ DOMAIN ledger' = Checkers /\ ledger'[c] = loaded
    BY <2>1 DEF LedgerInv
  <2>3. \A d \in Checkers : d # c => pc'[d] = pc[d] /\ ledger'[d] = ledger[d]
    BY <2>1 DEF LedgerInv
  <2>4. KnowsTrail(c)'
    <3>1. /\ Len(trail) \in Nat
          /\ loaded.version = Len(trail)
          /\ \A i \in 1..Len(trail) : trail[i].valid
          /\ Len(trail) > 0 => /\ loaded.hash = trail[Len(trail)].hash
                               /\ loaded.count = trail[Len(trail)].count
      BY <1>1, LoadedTrail
    <3> HIDE DEF loaded
    <3> QED
      BY <1>0, <2>2, <3>1 DEF KnowsTrail
  <2> HIDE DEF loaded
  <2> QED
    BY <1>0, <2>1, <2>2, <2>3, <2>4, QuietStep DEF LedgerInv
<1>2. CASE ~ loaded.valid
  <2>1. Finish(c)
    BY <1>2 DEF LoadLedger
  <2> QED
    BY <1>0, <2>1, FinishInv
<1> QED
  BY <1>1, <1>2

(* A step of a check that changes neither its ledger nor the trail.          *)
LEMMA ReadStep ==
  ASSUME LedgerInv, NEW c \in Checkers,
         UNCHANGED <<trail, committed, ledger>>,
         NEW step, pc' = [pc EXCEPT ![c] = step] \/ pc' = pc,
         NEW contents, IsFiniteSet(contents),
         \/ found' = [found EXCEPT ![c] = contents]
         \/ found' = found /\ contents = found[c],
         step \in OnItsWay => pc[c] \in OnItsWay
  PROVE  LedgerInv'
<1>1. DOMAIN pc' = Checkers /\ DOMAIN found' = Checkers /\ found'[c] = contents
  BY DEF LedgerInv
<1>2. \A d \in Checkers : d # c => pc'[d] = pc[d] /\ found'[d] = found[d]
  BY DEF LedgerInv
<1>3. ASSUME pc'[c] \in OnItsWay PROVE KnowsTrail(c)'
  <2>1. pc[c] \in OnItsWay
    BY <1>3 DEF LedgerInv
  <2> QED
    BY <2>1 DEF LedgerInv, KnowsTrail
<1> QED
  BY <1>1, <1>2, <1>3, QuietStep DEF LedgerInv

LEMMA EventsFinite ==
  ASSUME LedgerInv, NEW stream
  PROVE  IsFiniteSet({Content(g) : g \in EventsOf(stream)})
<1>1. EventsOf(stream) \subseteq committed
  BY DEF EventsOf
<1>2. IsFiniteSet(EventsOf(stream))
  BY <1>1, FS_Subset DEF LedgerInv
<1> QED
  BY <1>2, ContentsFinite

LEMMA LoadStreamInv ==
  ASSUME LedgerInv, NEW c \in Checkers, NEW s, LoadStream(c, s)
  PROVE  LedgerInv'
<1> DEFINE read == {Content(g) : g \in EventsOf(s)}
<1>1. IsFiniteSet(found[c] \cup read)
  BY EventsFinite, FS_Union DEF LedgerInv
<1>2. /\ found' = [found EXCEPT ![c] = found[c] \cup read]
      /\ UNCHANGED <<trail, committed, ledger>>
      /\ pc' = [pc EXCEPT ![c] = "scan"] \/ pc' = pc
      /\ pc[c] \in OnItsWay
  BY DEF LoadStream, Goto, log, OnItsWay
<1> HIDE DEF read
<1> QED
  BY <1>1, <1>2, ReadStep

LEMMA FetchPageInv ==
  ASSUME LedgerInv, NEW c \in Checkers, FetchPage(c)
  PROVE  LedgerInv'
<1> DEFINE read == {e \in Page(last[c]) : Belongs(c, e.gp)}
           kept == {e \in found[c] : \A f \in read : f.gp # e.gp}
<1>0. UNCHANGED <<trail, committed, ledger>> /\ pc[c] \in OnItsWay
  BY DEF FetchPage, log, OnItsWay
<1>1. IsFiniteSet(found[c])
  BY DEF LedgerInv
<1>2. IsFiniteSet(kept \cup read)
  <2>1. IsFiniteSet({h \in committed : h > last[c]})
    BY FS_Subset DEF LedgerInv
  <2>2. IsFiniteSet({Content(g) : g \in {h \in committed : h > last[c]}})
    BY <2>1, ContentsFinite
  <2>3. IsFiniteSet(read)
    <3>1. read \subseteq {Content(g) : g \in {h \in committed : h > last[c]}}
      BY DEF Page, Lowest
    <3> QED
      BY <2>2, <3>1, FS_Subset
  <2>4. IsFiniteSet(kept)
    BY <1>1, FS_Subset
  <2> QED
    BY <2>3, <2>4, FS_Union
<1>3. CASE Page(last[c]) = {}
  <2>1. pc' = [pc EXCEPT ![c] = "record"] /\ found' = found
    BY <1>3 DEF FetchPage, Goto, LedgerInv
  <2> QED
    BY <1>0, <1>1, <2>1, ReadStep
<1>4. CASE Page(last[c]) # {}
  <2>1. pc' = pc /\ found' = [found EXCEPT ![c] = kept \cup read]
    BY <1>4 DEF FetchPage
  <2> HIDE DEF read, kept
  <2> QED
    BY <1>0, <1>2, <2>1, ReadStep
<1> QED
  BY <1>3, <1>4

(* The new check contains what its predecessor in the ledger had verified.   *)
LEMMA Confirmed ==
  ASSUME LedgerInv, NEW c \in Checkers, KnowsTrail(c),
         Len(trail) > 0, ledger[c].version = Len(trail), trail[Len(trail)].by = "ledger",
         ~ Tampered(ledger[c], found[c])
  PROVE  trail[Len(trail)].hash.contents \subseteq found[c]
<1> DEFINE latest == trail[Len(trail)]
           contents == latest.hash.contents
<1>1. Len(trail) \in DOMAIN trail
  BY AppendOne DEF LedgerInv
<1>2. /\ latest.hash.algorithm = "ledger"
      /\ IsFiniteSet(contents)
      /\ latest.count = Cardinality(contents)
  BY <1>1 DEF LedgerInv, RecordedInOrder
<1>3. ledger[c].hash = latest.hash /\ ledger[c].count = Cardinality(contents)
  BY <1>2 DEF KnowsTrail
<1>4. Cardinality(contents) \in Nat /\ (Cardinality(contents) = 0 => contents = {})
  BY <1>2, FS_CardinalityType, FS_EmptySet
<1>5. ledger[c].hash # NoHash
  BY <1>2, <1>3 DEF NoHash
<1>6. CASE Cardinality(contents) = 0
  BY <1>4, <1>6
<1>7. CASE Cardinality(contents) > 0
  <2>1. Hash("ledger", ledger[c].anchor, Lowest(ledger[c].count, found[c])) = latest.hash
    BY <1>3, <1>5, <1>7 DEF Tampered
  <2>2. contents = Lowest(ledger[c].count, found[c])
    BY ONLY <2>1 DEF Hash
  <2> QED
    BY <2>2 DEF Lowest
<1> QED
  BY <1>4, <1>6, <1>7

LEMMA RecordCheckInv ==
  ASSUME LedgerInv, NEW c \in Checkers, RecordCheck(c)
  PROVE  LedgerInv'
<1> DEFINE tamper == Tampered(ledger[c], found[c])
           check == [by |-> "ledger",
                     count |-> Cardinality(found[c]),
                     hash |-> Hash("ledger", ledger[c].hash, found[c]),
                     previous |-> ledger[c].hash,
                     valid |-> ~ tamper,
                     audited |-> {rows[e.gp].stream : e \in found[c]},
                     tamper |-> tamper]
           version == ledger[c].version
<1>1. AppendCheck(c, version, check) /\ KnowsTrail(c)
  BY DEF RecordCheck, LedgerInv, OnItsWay
<1>2. ASSUME Matches(IF version = 0 THEN NewStream ELSE version, trail),
             trail' = Append(trail, check),
             NEW n, n = Len(trail) + 1
      PROVE  RecordedInOrder(n)'
  <2>1. /\ check.by = "ledger"
        /\ check.count = Cardinality(found[c])
        /\ check.hash.algorithm = "ledger"
        /\ check.hash.contents = found[c]
        /\ check.valid = ~ tamper
    BY DEF Hash
  <2> HIDE DEF check
  <2>2. /\ Len(trail) \in Nat
        /\ \A i \in 1..Len(trail) : trail'[i] = trail[i]
        /\ trail'[n] = check
    <3>1. /\ Len(trail) \in Nat
          /\ \A i \in 1..Len(trail) : Append(trail, check)[i] = trail[i]
          /\ Append(trail, check)[Len(trail) + 1] = check
      BY AppendOne DEF LedgerInv
    <3> QED
      BY ONLY <3>1, <1>2
  <2>3. version = Len(trail)
    BY <1>1, <1>2, <2>2 DEF Matches, NewStream, KnowsTrail
  <2>4. \A j \in 1..Len(trail) : trail[j].valid
    BY <1>1, <2>3 DEF KnowsTrail
  <2>5. IsFiniteSet(found[c])
    BY DEF LedgerInv
  <2>6. ASSUME Len(trail) > 0, trail[Len(trail)].by = "ledger", ~ tamper
        PROVE  trail[Len(trail)].hash.contents \subseteq found[c]
    BY <1>1, <2>3, <2>6, Confirmed
  <2> HIDE DEF tamper, version
  <2>7. \A j \in 1..(n - 1) : trail'[j].valid
    BY ONLY <1>2, <2>2, <2>4
  <2>8. ASSUME n > 1, trail'[n].valid, trail'[n - 1].by = "ledger"
        PROVE  trail'[n - 1].hash.contents \subseteq trail'[n].hash.contents
    <3>1. n - 1 = Len(trail) /\ Len(trail) > 0 /\ trail'[n - 1] = trail[Len(trail)]
      BY ONLY <1>2, <2>2, <2>8
    <3>2. ~ tamper
      BY <2>1, <2>2, <2>8
    <3> QED
      BY <2>1, <2>2, <2>6, <2>8, <3>1, <3>2
  <2> QED
    BY ONLY <2>1, <2>2, <2>5, <2>7, <2>8 DEF RecordedInOrder
<1>3. check.by = "ledger"
  OBVIOUS
<1> HIDE DEF check, version
<1> QED
  BY <1>1, <1>2, AppendCheckInv

(* The tool writes nothing that LedgerInv is about.                          *)
LEMMA ToolInv ==
  ASSUME LedgerInv, NEW c \in Checkers, Tool(c)
  PROVE  LedgerInv'
<1>1. CASE ToolLoad(c)
  <2>1. IsFiniteSet({Content(g) : g \in EventsOf(Primary)})
    BY EventsFinite
  <2>2. /\ UNCHANGED <<trail, committed, ledger>>
        /\ pc' = [pc EXCEPT ![c] = "tool_load_trail"]
        /\ found' = [found EXCEPT ![c] = {Content(g) : g \in EventsOf(Primary)}]
    BY <1>1 DEF ToolLoad, Goto, log
  <2>3. "tool_load_trail" \notin OnItsWay
    BY DEF OnItsWay
  <2> QED
    BY <2>1, <2>2, <2>3, ReadStep
<1>2. ASSUME NEW step, NEW book,
             step \notin OnItsWay,
             pc' = [pc EXCEPT ![c] = step],
             ledger' = [ledger EXCEPT ![c] = book],
             UNCHANGED <<trail, committed, found>>
      PROVE  LedgerInv'
  <2>1. DOMAIN pc' = Checkers /\ DOMAIN ledger' = Checkers /\ pc'[c] \notin OnItsWay
    BY <1>2 DEF LedgerInv
  <2>2. \A d \in Checkers : d # c => pc'[d] = pc[d] /\ ledger'[d] = ledger[d]
    BY <1>2 DEF LedgerInv
  <2> QED
    BY <1>2, <2>1, <2>2, QuietStep DEF LedgerInv
<1>3. CASE ToolLoadTrail(c)
  BY <1>2, <1>3 DEF ToolLoadTrail, Goto, log, OnItsWay
<1>4. CASE ToolVersion(c)
  BY <1>2, <1>4 DEF ToolVersion, Goto, log, OnItsWay
<1>5. CASE ToolAppend(c)
  <2> DEFINE check == [by |-> "tool",
                       count |-> Cardinality(found[c]),
                       hash |-> Fold(found[c]),
                       previous |-> ledger[c].hash,
                       valid |-> TRUE,
                       audited |-> {},
                       tamper |-> Contradicted(ledger[c], found[c])]
  <2>1. AppendCheck(c, ledger[c].version, check)
    BY <1>5 DEF ToolAppend
  <2>2. check.by # "ledger"
    OBVIOUS
  <2> HIDE DEF check
  <2> QED
    BY <2>1, <2>2, AppendCheckInv
<1> QED
  BY <1>1, <1>3, <1>4, <1>5 DEF Tool

LEMMA NextInv == LedgerInv /\ [Next]_vars => LedgerInv'
<1> SUFFICES ASSUME LedgerInv, [Next]_vars PROVE LedgerInv'
  OBVIOUS
<1>1. CASE Business
  BY <1>1, BusinessInv
<1>2. ASSUME NEW c \in Checkers, NEW kind \in Kinds, Start(c, kind) PROVE LedgerInv'
  BY <1>2, StartInv
<1>3. ASSUME NEW c \in Checkers, Ledger(c) PROVE LedgerInv'
  <2>1. CASE LoadLedger(c)
    BY <2>1, LoadLedgerInv
  <2>2. ASSUME NEW s \in todo[c], LoadStream(c, s) PROVE LedgerInv'
    BY <2>2, LoadStreamInv
  <2>3. CASE FetchPage(c)
    BY <2>3, FetchPageInv
  <2>4. CASE RecordCheck(c)
    BY <2>4, RecordCheckInv
  <2> QED
    BY <1>3, <2>1, <2>2, <2>3, <2>4 DEF Ledger
<1>4. ASSUME NEW c \in Checkers, Tool(c) PROVE LedgerInv'
  BY <1>4, ToolInv
<1>5. CASE UNCHANGED vars
  BY <1>5 DEF vars, log, call, LedgerInv, KnowsTrail, RecordedInOrder
<1> QED
  BY <1>1, <1>2, <1>3, <1>4, <1>5 DEF Next
-------------------------------------------------------------------------------

(* What the ledger has loaded and recorded stays in order, however many      *)
(* checks of either kind and appends interleave.                             *)
THEOREM LedgerInvariant == Spec => []LedgerInv
<1>1. LedgerInv /\ [Next]_vars => LedgerInv'
  BY NextInv
<1> QED
  BY <1>1, InitInv, PTL DEF Spec

(* Once a check has found the chain broken, record_integrity_check records   *)
(* nothing more, for any number of concurrent checks of either kind.         *)
THEOREM StopsAtInvalid == Spec => []LedgerStopsAtInvalid
<1>1. LedgerInv => LedgerStopsAtInvalid
  <2> SUFFICES ASSUME LedgerInv, NEW i \in DOMAIN trail, NEW j \in DOMAIN trail,
                      i < j, trail[j].by = "ledger"
               PROVE  trail[i].valid
    BY DEF LedgerStopsAtInvalid
  <2>1. Len(trail) \in Nat /\ DOMAIN trail = 1..Len(trail)
    BY AppendOne DEF LedgerInv
  <2>2. RecordedInOrder(j)
    BY DEF LedgerInv
  <2> QED
    BY <2>1, <2>2 DEF RecordedInOrder
<1> QED
  BY <1>1, LedgerInvariant, PTL

(* Two ledger checks in a row, the second one valid: the second has verified *)
(* every payload of the first, for any page size and number of events.       *)
THEOREM EvidenceGrows == Spec => []EvidenceOnlyGrows
<1>1. LedgerInv => EvidenceOnlyGrows
  <2> SUFFICES ASSUME LedgerInv, NEW i \in DOMAIN trail, NEW j \in DOMAIN trail,
                      j = i + 1, trail[i].by = "ledger", trail[j].by = "ledger",
                      trail[j].valid
               PROVE  trail[i].hash.contents \subseteq trail[j].hash.contents
    BY DEF EvidenceOnlyGrows
  <2>1. Len(trail) \in Nat /\ DOMAIN trail = 1..Len(trail)
    BY AppendOne DEF LedgerInv
  <2>2. RecordedInOrder(j)
    BY DEF LedgerInv
  <2>3. j > 1 /\ j - 1 = i
    BY <2>1
  <2> QED
    BY <2>2, <2>3 DEF RecordedInOrder
<1> QED
  BY <1>1, LedgerInvariant, PTL
-------------------------------------------------------------------------------
(* The log and the checks that run on it *)

Scanning == {"scan", "record"}

Running == {c \in Checkers : pc[c] # "idle"}

LogInv ==
  /\ Sequential(rows) /\ Sequential(edits) /\ Len(edits) = Len(rows)
  /\ open \cup committed \subseteq DOMAIN rows
  /\ \A g \in DOMAIN rows : rows[g] \in EventSorts /\ edits[g] \in 0..tampers
  /\ tampers \in 0..MaxTampers

(* A check that runs may add one event to the trail. *)
ChecksInv ==
  /\ checks \in 0..MaxChecks
  /\ IsFiniteSet(Running)
  /\ Len(trail) + Cardinality(Running) <= checks

(* What load_all has found up to the page it has come to. *)
FoundBefore(c, g) ==
  Belongs(c, g) /\ (g <= last[c] \/ pc[c] = "record") => \E e \in found[c] : e.gp = g

Checking(c) ==
  /\ pc[c] \in {"idle", "load_ledger", "load_stream", "scan", "record",
                "tool_load", "tool_load_trail", "tool_version", "tool_append"}
  /\ ledger[c].version \in 0..Len(trail)
  /\ \A e \in found[c] : e.gp \in committed /\ e.edit \in 0..edits[e.gp]
  /\ pc[c] = "idle" => found[c] = {}
  /\ last[c] \in Nat
  /\ pc[c] \notin Scanning => last[c] = 0
  /\ pc[c] \in Scanning =>
       before[c] \subseteq committed /\ \A g \in before[c] : FoundBefore(c, g)

PerChecker(f) == f = [c \in Checkers |-> f[c]]

BookInv ==
  /\ LogInv
  /\ ChecksInv
  /\ PerChecker(pc) /\ PerChecker(ledger) /\ PerChecker(todo) /\ PerChecker(found)
  /\ PerChecker(shared) /\ PerChecker(last) /\ PerChecker(before)
  /\ \A c \in Checkers : Checking(c)

(* The tool's claims, while no payload has changed: it digests what the      *)
(* primary stream held at some moment, and of two such sets one includes     *)
(* the other, so that equal numbers of events are the same events.           *)
Now == {Content(g) : g \in EventsOf(Primary)}

ToolSteps == {"tool_load_trail", "tool_version", "tool_append"}

ToolClaims == {i \in DOMAIN trail : trail[i].by = "tool"}

Digested ==
  {trail[i].hash.contents : i \in ToolClaims}
    \cup {found[c] : c \in {d \in Checkers : pc[d] \in ToolSteps}}

Nested == \A s, t \in Digested : s \subseteq Now /\ (s \subseteq t \/ t \subseteq s)

LoadedFrom(c, k) ==
  ledger[c].hash = trail[k].hash /\ ledger[c].count = trail[k].count

ClaimsInv ==
  /\ \A i \in DOMAIN trail : trail[i].by \in {"ledger", "tool"}
  /\ Nested
  /\ \A i \in ToolClaims : /\ trail[i].hash = Fold(trail[i].hash.contents)
                           /\ trail[i].count = Cardinality(trail[i].hash.contents)
                           /\ IsFiniteSet(trail[i].hash.contents)
  /\ \A c \in Checkers : pc[c] \in {"tool_version", "tool_append"} =>
       ledger[c].hash = NoHash \/ \E k \in DOMAIN trail : LoadedFrom(c, k)
  /\ ToolNeverAccuses

AccuseInv == tampers = 0 => ClaimsInv
-------------------------------------------------------------------------------

LEMMA LogFacts ==
  ASSUME LogInv
  PROVE  /\ Len(rows) \in Nat /\ DOMAIN rows = 1..Len(rows)
         /\ DOMAIN edits = DOMAIN rows
         /\ \A g \in DOMAIN rows : g \in Nat /\ g > 0 /\ edits[g] \in Nat
         /\ \A g \in committed : g \in DOMAIN rows
         /\ tampers \in Nat
<1>1. /\ Len(rows) \in Nat /\ DOMAIN rows = 1..Len(rows)
      /\ DOMAIN edits = 1..Len(edits)
  BY AppendOne DEF LogInv
<1>2. tampers \in Nat
  BY AuditAssumption DEF LogInv
<1> QED
  BY <1>1, <1>2 DEF LogInv

(* The log grows, payloads are edited. *)
LogGrows ==
  /\ LogInv'
  /\ DOMAIN rows \subseteq DOMAIN rows' /\ committed \subseteq committed'
  /\ \A g \in DOMAIN rows : rows'[g] = rows[g] /\ edits[g] <= edits'[g]

LEMMA BusinessGrows ==
  ASSUME LogInv, Business
  PROVE  LogGrows
<1>0. /\ Len(rows) \in Nat /\ DOMAIN rows = 1..Len(rows) /\ DOMAIN edits = DOMAIN rows
      /\ \A g \in DOMAIN rows : g \in Nat /\ edits[g] \in Nat
      /\ tampers \in Nat
  BY LogFacts
<1>1. ASSUME NEW sort \in EventSorts, Draw(sort) PROVE LogGrows
  <2>1. /\ rows' = Append(rows, sort) /\ edits' = Append(edits, 0)
        /\ open' = open \cup {Len(rows) + 1} /\ committed' = committed /\ tampers' = tampers
    BY <1>1 DEF Draw
  <2>2. /\ Sequential(rows') /\ DOMAIN rows' = 1..(Len(rows) + 1) /\ Len(rows') = Len(rows) + 1
        /\ \A g \in 1..Len(rows) : rows'[g] = rows[g]
        /\ rows'[Len(rows) + 1] = sort
    BY <2>1, AppendOne DEF LogInv
  <2>3. /\ Sequential(edits') /\ Len(edits') = Len(rows) + 1
        /\ \A g \in 1..Len(rows) : edits'[g] = edits[g]
        /\ edits'[Len(rows) + 1] = 0
    BY <2>1, AppendOne DEF LogInv
  <2>4. open' \cup committed' \subseteq DOMAIN rows'
    BY <1>0, <2>1, <2>2 DEF LogInv
  <2>5. \A g \in DOMAIN rows' : rows'[g] \in EventSorts /\ edits'[g] \in 0..tampers
    BY <1>0, <2>2, <2>3 DEF LogInv
  <2> QED
    BY <1>0, <2>1, <2>2, <2>3, <2>4, <2>5 DEF LogInv, LogGrows
<1>2. ASSUME NEW g \in open, CommitAppend(g) \/ RollbackAppend(g) PROVE LogGrows
  BY <1>0, <1>2 DEF CommitAppend, RollbackAppend, LogInv, LogGrows
<1>3. ASSUME NEW g \in committed, Tamper(g) PROVE LogGrows
  <2>1. /\ edits' = [edits EXCEPT ![g] = @ + 1] /\ tampers < MaxTampers
        /\ tampers' = tampers + 1 /\ UNCHANGED <<rows, open, committed>>
    BY <1>3 DEF Tamper
  <2>2. /\ DOMAIN edits' = DOMAIN edits
        /\ \A h \in DOMAIN rows : edits'[h] = IF h = g THEN edits[g] + 1 ELSE edits[h]
    BY <1>0, <2>1
  <2>3. edits' = [h \in 1..Len(edits) |-> IF h = g THEN edits[g] + 1 ELSE edits[h]]
    BY <1>0, <2>1 DEF LogInv
  <2>4. Sequential(edits') /\ Len(edits') = Len(edits)
    <3>1. Len(edits) \in Nat
      BY <1>0 DEF LogInv
    <3> QED
      BY <2>2, <2>3, <3>1 DEF Sequential
  <2>5. \A h \in DOMAIN rows : edits'[h] \in 0..tampers' /\ edits[h] <= edits'[h]
    BY <1>0, <2>1, <2>2 DEF LogInv
  <2>6. tampers' \in 0..MaxTampers
    BY <2>1, AuditAssumption DEF LogInv
  <2> QED
    BY <1>0, <2>1, <2>4, <2>5, <2>6 DEF LogInv, LogGrows
<1> QED
  BY <1>1, <1>2, <1>3 DEF Business

LEMMA LogStays ==
  ASSUME LogInv, UNCHANGED <<log, tampers>>
  PROVE  LogGrows
<1>1. \A g \in DOMAIN rows : edits[g] <= edits[g]
  BY LogFacts
<1> QED
  BY <1>1 DEF log, LogGrows, LogInv

(* A check is not disturbed by what others do. *)
LEMMA CheckKept ==
  ASSUME LogInv, LogGrows, Len(trail) \in Nat, Len(trail') \in Nat, Len(trail) <= Len(trail'),
         NEW d, Checking(d),
         pc'[d] = pc[d], ledger'[d] = ledger[d], found'[d] = found[d],
         shared'[d] = shared[d], last'[d] = last[d], before'[d] = before[d]
  PROVE  Checking(d)'
<1>0. /\ \A g \in committed : g \in DOMAIN rows /\ edits[g] \in Nat
      /\ \A g \in DOMAIN rows' : edits'[g] \in Nat
      /\ DOMAIN rows \subseteq DOMAIN rows'
  BY LogFacts, AuditAssumption DEF LogGrows, LogInv
<1>1. \A e \in found'[d] : e.gp \in committed' /\ e.edit \in 0..edits'[e.gp]
  <2> TAKE e \in found'[d]
  <2>1. e.gp \in committed /\ e.edit \in 0..edits[e.gp]
    BY DEF Checking
  <2>2. edits[e.gp] <= edits'[e.gp] /\ edits[e.gp] \in Nat /\ edits'[e.gp] \in Nat
    BY <1>0, <2>1 DEF LogGrows
  <2> QED
    BY <2>1, <2>2 DEF LogGrows
<1>2. ASSUME pc[d] \in Scanning, NEW g \in before[d] PROVE g \in committed' /\ FoundBefore(d, g)'
  <2>1. g \in committed /\ FoundBefore(d, g)
    BY <1>2 DEF Checking
  <2>2. rows'[g] = rows[g]
    BY <1>0, <2>1 DEF LogGrows
  <2> QED
    BY <2>1, <2>2 DEF FoundBefore, Belongs, LogGrows
<1>3. ledger'[d].version \in 0..Len(trail')
  BY DEF Checking
<1> QED
  BY <1>1, <1>2, <1>3 DEF Checking

(* A step of the check c. *)
LEMMA CheckStep ==
  ASSUME BookInv, NEW c \in Checkers, LogGrows,
         Len(trail) \in Nat, Len(trail') \in Nat, Len(trail) <= Len(trail'),
         PerChecker(pc)', PerChecker(ledger)', PerChecker(todo)', PerChecker(found)',
         PerChecker(shared)', PerChecker(last)', PerChecker(before)',
         \A d \in Checkers : d # c =>
            /\ pc'[d] = pc[d] /\ ledger'[d] = ledger[d] /\ found'[d] = found[d]
            /\ shared'[d] = shared[d] /\ last'[d] = last[d] /\ before'[d] = before[d],
         Checking(c)', ChecksInv'
  PROVE  BookInv'
<1>1. ASSUME NEW d \in Checkers, d # c PROVE Checking(d)'
  BY <1>1, CheckKept DEF BookInv
<1>2. LogInv'
  BY DEF LogGrows
<1> QED
  BY <1>1, <1>2 DEF BookInv

(* The check goes on, with one more load behind it. *)
LEMMA GoOn ==
  ASSUME LedgerInv, BookInv, NEW c \in Checkers, pc[c] # "idle",
         UNCHANGED <<log, trail, checks, tampers>>,
         NEW step, step # "idle", pc' = [pc EXCEPT ![c] = step] \/ (pc' = pc /\ step = pc[c]),
         NEW ledger1, ledger' = [ledger EXCEPT ![c] = ledger1],
         NEW found1, found' = [found EXCEPT ![c] = found1],
         NEW shared1, shared' = [shared EXCEPT ![c] = shared1],
         NEW last1, last' = [last EXCEPT ![c] = last1],
         NEW before1, before' = [before EXCEPT ![c] = before1],
         PerChecker(todo)',
         Checking(c)'
  PROVE  BookInv'
<1>1. /\ PerChecker(pc)' /\ PerChecker(ledger)' /\ PerChecker(found)'
      /\ PerChecker(shared)' /\ PerChecker(last)' /\ PerChecker(before)'
      /\ \A d \in Checkers : d # c =>
            /\ pc'[d] = pc[d] /\ ledger'[d] = ledger[d] /\ found'[d] = found[d]
            /\ shared'[d] = shared[d] /\ last'[d] = last[d] /\ before'[d] = before[d]
  BY DEF BookInv, PerChecker
<1>2. Len(trail) \in Nat
  BY AppendOne DEF LedgerInv
<1>3. ChecksInv'
  <2>1. \A d \in Checkers : pc'[d] # "idle" <=> pc[d] # "idle"
    BY DEF LedgerInv
  <2>2. Running' = Running
    BY <2>1 DEF Running
  <2> QED
    BY <2>2 DEF BookInv, ChecksInv
<1>4. LogGrows
  BY LogStays DEF BookInv
<1>5. Len(trail) <= Len(trail') /\ Len(trail') \in Nat
  BY <1>2
<1> QED
  BY <1>1, <1>2, <1>3, <1>4, <1>5, CheckStep

(* The check ends, with one event more on the trail or not. *)
LEMMA EndOfCheck ==
  ASSUME LedgerInv, BookInv, NEW c \in Checkers, pc[c] # "idle", Finish(c),
         UNCHANGED <<log, checks, tampers>>,
         NEW check, trail' = Append(trail, check) \/ trail' = trail
  PROVE  BookInv'
<1>1. /\ pc' = [pc EXCEPT ![c] = "idle"] /\ ledger' = [ledger EXCEPT ![c] = NewLedger]
      /\ todo' = [todo EXCEPT ![c] = {}] /\ found' = [found EXCEPT ![c] = {}]
      /\ shared' = [shared EXCEPT ![c] = {}] /\ last' = [last EXCEPT ![c] = 0]
      /\ before' = [before EXCEPT ![c] = {}]
  BY DEF Finish, Goto
<1>2. /\ Len(trail) \in Nat /\ Len(trail') \in Nat
      /\ Len(trail) <= Len(trail') /\ Len(trail') <= Len(trail) + 1
  <2>1. Len(trail) \in Nat /\ Len(Append(trail, check)) = Len(trail) + 1
    BY AppendOne DEF LedgerInv
  <2> QED
    BY <2>1
<1>3. /\ PerChecker(pc)' /\ PerChecker(ledger)' /\ PerChecker(todo)' /\ PerChecker(found)'
      /\ PerChecker(shared)' /\ PerChecker(last)' /\ PerChecker(before)'
      /\ pc'[c] = "idle" /\ ledger'[c] = NewLedger /\ found'[c] = {} /\ last'[c] = 0
      /\ \A d \in Checkers : d # c =>
            /\ pc'[d] = pc[d] /\ ledger'[d] = ledger[d] /\ found'[d] = found[d]
            /\ shared'[d] = shared[d] /\ last'[d] = last[d] /\ before'[d] = before[d]
  BY <1>1 DEF BookInv, PerChecker
<1>4. Checking(c)'
  <2>1. NewLedger.version = 0
    BY DEF NewLedger, LedgerOf
  <2> QED
    BY <1>2, <1>3, <2>1 DEF Checking, Scanning
<1>5. ChecksInv'
  <2>1. Running' = Running \ {c} /\ c \in Running
    BY <1>3 DEF Running
  <2>2. IsFiniteSet(Running) /\ Cardinality(Running) \in Nat
    BY FS_CardinalityType DEF BookInv, ChecksInv
  <2>3. IsFiniteSet(Running') /\ Cardinality(Running') = Cardinality(Running) - 1
    BY <2>1, <2>2, FS_RemoveElement
  <2>4. checks' \in 0..MaxChecks /\ MaxChecks \in Nat
    BY AuditAssumption DEF BookInv, ChecksInv
  <2> QED
    BY <1>2, <2>2, <2>3, <2>4 DEF BookInv, ChecksInv
<1>6. LogGrows
  BY LogStays DEF BookInv
<1> QED
  BY <1>2, <1>3, <1>4, <1>5, <1>6, CheckStep

(* A page of load_all has no gaps, and an empty one is the last. *)
Beyond(from) == {Content(g) : g \in {h \in committed : h > from}}

LEMMA BeyondFinite == ASSUME LedgerInv, NEW from PROVE IsFiniteSet(Beyond(from))
<1>1. IsFiniteSet({h \in committed : h > from})
  BY FS_Subset DEF LedgerInv
<1> QED
  BY <1>1, ContentsFinite DEF Beyond

LEMMA PageHasNoGaps ==
  ASSUME LedgerInv, LogInv, NEW from \in Nat, NEW e \in Page(from), NEW g \in committed,
         g > from, g <= e.gp
  PROVE  Content(g) \in Page(from)
<1> DEFINE Below(p) == {f \in Beyond(from) : f.gp <= p}
<1>1. e \in Beyond(from) /\ Cardinality(Below(e.gp)) <= PageSize
  BY DEF Page, Lowest, Beyond
<1>2. Content(g) \in Beyond(from) /\ Content(g).gp = g
  BY DEF Beyond, Content
<1>3. \A f \in Beyond(from) : f.gp \in Nat
  BY LogFacts DEF Beyond, Content
<1>4. Below(g) \subseteq Below(e.gp)
  BY <1>1, <1>2, <1>3
<1>5. IsFiniteSet(Below(e.gp))
  BY BeyondFinite, FS_Subset
<1> HIDE DEF Below
<1>6. Cardinality(Below(g)) <= Cardinality(Below(e.gp))
      /\ Cardinality(Below(g)) \in Nat /\ Cardinality(Below(e.gp)) \in Nat
  <2>1. IsFiniteSet(Below(g))
    BY <1>4, <1>5, FS_Subset
  <2> QED
    BY <1>4, <1>5, <2>1, FS_Subset, FS_CardinalityType
<1>7. Cardinality(Below(g)) <= PageSize
  BY <1>1, <1>6, AuditAssumption
<1> QED
  BY <1>2, <1>7 DEF Page, Lowest, Beyond, Below

LEMMA LastPage ==
  ASSUME LedgerInv, LogInv, NEW from \in Nat, Page(from) = {}, NEW g \in committed
  PROVE  g <= from
<1> DEFINE T == {h \in committed : h > from}
           R == {p \in Nat \X Nat : p[1] < p[2]}
<1> SUFFICES ASSUME T # {} PROVE FALSE
  <2>1. g \in Nat
    BY LogFacts
  <2> QED
    BY <2>1
<1>1. T \subseteq Nat
  BY LogFacts
<1>2. PICK h \in T : \A k \in T : ~ (<<k, h>> \in R)
  <2>1. IsWellFoundedOn(R, Nat)
    BY NatLessThanWellFounded DEF OpToRel
  <2> HIDE DEF R, T
  <2> QED
    BY <1>1, <2>1, WFMin
<1>3. \A k \in T : h <= k
  <2> TAKE k \in T
  <2>1. k \in Nat /\ h \in Nat /\ <<k, h>> \in Nat \X Nat
    BY <1>1
  <2>2. ~ (k < h)
    BY <1>2, <2>1
  <2> QED
    BY <2>1, <2>2
<1>4. {f \in Beyond(from) : f.gp <= h} = {Content(h)}
  BY <1>1, <1>3 DEF Beyond, Content
<1>5. Cardinality({f \in Beyond(from) : f.gp <= h}) <= PageSize
  <2>1. Cardinality({Content(h)}) = 1
    BY FS_Singleton
  <2>2. 1 <= PageSize
    BY AuditAssumption
  <2> QED
    BY <1>4, <2>1, <2>2
<1>6. Content(h) \in Beyond(from) /\ Content(h).gp = h
  BY <1>2 DEF Beyond, Content
<1>7. Content(h) \in Page(from)
  BY <1>5, <1>6 DEF Page, Lowest, Beyond
<1> QED
  BY <1>7

LEMMA PageContents ==
  ASSUME LogInv, NEW from
  PROVE  \A e \in Page(from) : /\ e.gp \in committed /\ e.edit = edits[e.gp]
                               /\ e.edit \in 0..edits[e.gp] /\ e.gp \in Nat /\ e = Content(e.gp)
<1>1. \A g \in committed : g \in Nat /\ edits[g] \in Nat
  BY LogFacts
<1> QED
  BY <1>1 DEF Page, Lowest, Content

LEMMA LoadLedgerBook ==
  ASSUME LedgerInv, BookInv, NEW c \in Checkers, LoadLedger(c)
  PROVE  BookInv'
<1> DEFINE loaded == LedgerOf(trail)
<1>0. /\ UNCHANGED <<log, trail, checks, tampers>> /\ pc[c] = "load_ledger"
  BY DEF LoadLedger
<1>1. CASE loaded.valid
  <2>1. /\ pc' = [pc EXCEPT ![c] = "load_stream"]
        /\ ledger' = [ledger EXCEPT ![c] = loaded]
        /\ todo' = [todo EXCEPT ![c] = loaded.refs \cup {Primary}]
        /\ UNCHANGED <<found, shared, last, before>>
    BY <1>1 DEF LoadLedger, Goto
  <2>2. loaded.version = Len(trail) /\ Len(trail) \in Nat
    BY LoadedTrail
  <2> HIDE DEF loaded
  <2>3. /\ pc'[c] = "load_stream" /\ ledger'[c] = loaded /\ PerChecker(todo)'
        /\ found' = [found EXCEPT ![c] = found[c]]
        /\ shared' = [shared EXCEPT ![c] = shared[c]]
        /\ last' = [last EXCEPT ![c] = last[c]]
        /\ before' = [before EXCEPT ![c] = before[c]]
    BY <2>1 DEF BookInv, PerChecker
  <2>4. Checking(c)'
    BY <1>0, <2>1, <2>2, <2>3 DEF BookInv, Checking, Scanning, log
  <2> QED
    BY <1>0, <2>1, <2>3, <2>4, GoOn
<1>2. CASE ~ loaded.valid
  <2>1. Finish(c)
    BY <1>2 DEF LoadLedger
  <2> QED
    BY <1>0, <2>1, EndOfCheck
<1> QED
  BY <1>1, <1>2

LEMMA ReadEvents ==
  ASSUME LogInv, NEW s
  PROVE  \A e \in {Content(g) : g \in EventsOf(s)} : e.gp \in committed /\ e.edit \in 0..edits[e.gp]
<1>1. \A g \in committed : edits[g] \in Nat
  BY LogFacts
<1> QED
  BY <1>1 DEF EventsOf, Content

LEMMA LoadStreamBook ==
  ASSUME LedgerInv, BookInv, NEW c \in Checkers, NEW s, LoadStream(c, s)
  PROVE  BookInv'
<1> DEFINE read == {Content(g) : g \in EventsOf(s)}
           ids == {rows[g].correlation : g \in EventsOf(s)} \ {None}
           step == IF todo[c] = {s} THEN "scan" ELSE "load_stream"
           past == IF todo[c] = {s} THEN committed ELSE before[c]
<1>1. /\ UNCHANGED <<log, trail, checks, tampers, ledger, last>> /\ pc[c] = "load_stream"
      /\ PerChecker(todo)'
      /\ found' = [found EXCEPT ![c] = found[c] \cup read]
      /\ shared' = [shared EXCEPT ![c] = shared[c] \cup ids]
  BY DEF LoadStream, BookInv, PerChecker
<1>2. pc' = [pc EXCEPT ![c] = step] /\ before' = [before EXCEPT ![c] = past]
  BY DEF LoadStream, Goto, BookInv, PerChecker
<1>3. \A e \in read : e.gp \in committed /\ e.edit \in 0..edits[e.gp]
  BY ReadEvents DEF BookInv
<1>4. step \in {"scan", "load_stream"} /\ (step = "scan" => past = committed)
  OBVIOUS
<1> HIDE DEF read, ids, step, past
<1>5. /\ pc'[c] = step /\ ledger'[c] = ledger[c] /\ found'[c] = found[c] \cup read
      /\ last'[c] = last[c] /\ before'[c] = past
      /\ ledger' = [ledger EXCEPT ![c] = ledger[c]]
      /\ last' = [last EXCEPT ![c] = last[c]]
  BY <1>1, <1>2 DEF BookInv, PerChecker
<1>6. last[c] = 0
  BY <1>1 DEF BookInv, Checking, Scanning
<1>7. \A g \in committed : ~ (g <= 0)
  BY LogFacts DEF BookInv
<1>8. Checking(c)'
  <2>1. pc'[c] \in Scanning =>
          before'[c] \subseteq committed' /\ \A g \in before'[c] : FoundBefore(c, g)'
    BY <1>1, <1>4, <1>5, <1>6, <1>7 DEF FoundBefore, Scanning, log
  <2> QED
    BY <1>1, <1>3, <1>4, <1>5, <1>6, <2>1 DEF Checking, BookInv, log
<1> QED
  BY <1>1, <1>2, <1>4, <1>5, <1>8, GoOn

LEMMA FetchPageBook ==
  ASSUME LedgerInv, BookInv, NEW c \in Checkers, FetchPage(c)
  PROVE  BookInv'
<1> DEFINE page == Page(last[c])
           read == {e \in page : Belongs(c, e.gp)}
           old == {e \in found[c] : \A f \in read : f.gp # e.gp}
<1>1. /\ UNCHANGED <<log, trail, checks, tampers, ledger, todo, shared, before>>
      /\ pc[c] = "scan"
  BY DEF FetchPage
<1>2. /\ PerChecker(todo)'
      /\ ledger' = [ledger EXCEPT ![c] = ledger[c]]
      /\ shared' = [shared EXCEPT ![c] = shared[c]]
      /\ before' = [before EXCEPT ![c] = before[c]]
  BY <1>1 DEF BookInv, PerChecker
<1>3. /\ last[c] \in Nat /\ Checking(c) /\ LogInv /\ before[c] \subseteq committed
      /\ \A g \in before[c] : FoundBefore(c, g)
      /\ \A g \in committed : g \in Nat
  BY <1>1, LogFacts DEF BookInv, Checking, Scanning
<1>4. CASE page = {}
  <2>1. /\ pc' = [pc EXCEPT ![c] = "record"]
        /\ found' = [found EXCEPT ![c] = found[c]] /\ last' = [last EXCEPT ![c] = last[c]]
    BY <1>4 DEF FetchPage, Goto, BookInv, PerChecker
  <2>2. pc'[c] = "record" /\ found'[c] = found[c] /\ last'[c] = last[c]
    BY <2>1 DEF BookInv, PerChecker
  <2>3. \A g \in committed : g <= last[c]
    BY <1>3, <1>4, LastPage
  <2>4. \A g \in before[c] : FoundBefore(c, g)'
    BY <1>1, <1>3, <2>2, <2>3 DEF FoundBefore, Belongs, log
  <2>5. Checking(c)'
    BY <1>1, <1>3, <2>2, <2>4 DEF Checking, Scanning, log
  <2> QED
    BY <1>1, <1>2, <2>1, <2>5, GoOn
<1>5. CASE page # {}
  <2>1. PICK e \in page : /\ \A f \in page : f.gp <= e.gp
                          /\ last' = [last EXCEPT ![c] = e.gp]
    BY <1>5 DEF FetchPage
  <2>2. found' = [found EXCEPT ![c] = old \cup read] /\ pc' = pc
    BY <1>5 DEF FetchPage
  <2>3. \A f \in page : /\ f.gp \in committed /\ f.edit \in 0..edits[f.gp]
                        /\ f.gp \in Nat /\ f = Content(f.gp)
    BY <1>3, PageContents
  <2>4. pc'[c] = "scan" /\ found'[c] = old \cup read /\ last'[c] = e.gp
    BY <1>1, <2>1, <2>2 DEF BookInv, PerChecker
  <2>5. ASSUME NEW g \in before[c] PROVE FoundBefore(c, g)'
    <3> SUFFICES ASSUME Belongs(c, g)', g <= e.gp PROVE \E f \in old \cup read : f.gp = g
      BY <2>4 DEF FoundBefore
    <3>0. Belongs(c, g) /\ g \in committed /\ g \in Nat
      BY <1>1, <1>3 DEF Belongs, log
    <3>1. CASE g <= last[c]
      BY <1>1, <1>3, <3>0, <3>1 DEF FoundBefore
    <3>2. CASE ~ (g <= last[c])
      <4>1. g > last[c]
        BY <1>3, <3>0, <3>2
      <4>2. Content(g) \in page /\ Content(g).gp = g
        BY <1>3, <3>0, <4>1, PageHasNoGaps DEF Content
      <4> QED
        BY <3>0, <4>2
    <3> QED
      BY <3>1, <3>2
  <2>6. \A f \in old \cup read : f.gp \in committed /\ f.edit \in 0..edits[f.gp]
    BY <1>3, <2>3 DEF Checking
  <2> HIDE DEF old, read
  <2>7. Checking(c)'
    BY <1>1, <1>3, <2>3, <2>4, <2>5, <2>6 DEF Checking, Scanning, log
  <2>8. "scan" # "idle"
    OBVIOUS
  <2> QED
    BY <1>1, <1>2, <2>1, <2>2, <2>7, <2>8, GoOn
<1> QED
  BY <1>4, <1>5

LEMMA AppendCheckBook ==
  ASSUME LedgerInv, BookInv, NEW c \in Checkers, pc[c] # "idle", NEW version, NEW check,
         AppendCheck(c, version, check)
  PROVE  BookInv'
<1>1. /\ Finish(c) /\ UNCHANGED <<log, checks, tampers>>
      /\ trail' = Append(trail, check) \/ trail' = trail
  BY DEF AppendCheck
<1> QED
  BY <1>1, EndOfCheck

LEMMA ToolBook ==
  ASSUME LedgerInv, BookInv, NEW c \in Checkers, Tool(c)
  PROVE  BookInv'
<1>0. /\ last[c] \in Nat /\ Checking(c)
      /\ ledger = [d \in Checkers |-> ledger[d]] /\ found = [d \in Checkers |-> found[d]]
      /\ shared' = shared => shared' = [shared EXCEPT ![c] = shared[c]]
      /\ last' = last => last' = [last EXCEPT ![c] = last[c]]
      /\ before' = before => before' = [before EXCEPT ![c] = before[c]]
      /\ found' = found => found' = [found EXCEPT ![c] = found[c]]
      /\ ledger' = ledger => ledger' = [ledger EXCEPT ![c] = ledger[c]]
      /\ todo' = todo => PerChecker(todo)'
      /\ Len(trail) \in Nat
  BY LoadedTrail DEF BookInv, PerChecker, Checking
<1>1. CASE ToolLoad(c)
  <2> DEFINE read == {Content(g) : g \in EventsOf(Primary)}
  <2>1. /\ pc[c] = "tool_load" /\ pc' = [pc EXCEPT ![c] = "tool_load_trail"]
        /\ found' = [found EXCEPT ![c] = read]
        /\ UNCHANGED <<log, trail, ledger, todo, shared, last, before, checks, tampers>>
    BY <1>1 DEF ToolLoad, Goto
  <2>2. \A e \in read : e.gp \in committed /\ e.edit \in 0..edits[e.gp]
    BY ReadEvents DEF BookInv
  <2> HIDE DEF read
  <2>3. pc'[c] = "tool_load_trail" /\ found'[c] = read
    BY <1>0, <2>1 DEF BookInv, PerChecker
  <2>4. Checking(c)'
    BY <1>0, <2>1, <2>2, <2>3 DEF Checking, Scanning, log
  <2> QED
    BY <1>0, <2>1, <2>4, GoOn
<1>2. ASSUME NEW step \in {"tool_version", "tool_append"}, NEW book, pc[c] \in ToolSteps,
             book.version = Len(trail),
             pc' = [pc EXCEPT ![c] = step], ledger' = [ledger EXCEPT ![c] = book],
             UNCHANGED <<log, trail, todo, found, shared, last, before, checks, tampers>>
      PROVE  BookInv'
  <2>1. pc'[c] = step /\ ledger'[c] = book
    BY <1>0, <1>2 DEF BookInv, PerChecker
  <2>2. Checking(c)'
    BY <1>0, <1>2, <2>1 DEF Checking, Scanning, log, ToolSteps
  <2>3. pc[c] # "idle" /\ step # "idle"
    BY <1>2 DEF ToolSteps
  <2> QED
    BY <1>0, <1>2, <2>2, <2>3, GoOn
<1>3. CASE ToolLoadTrail(c)
  <2>1. LedgerOf(trail).version = Len(trail)
    BY LoadedTrail
  <2>2. /\ pc[c] \in ToolSteps /\ pc' = [pc EXCEPT ![c] = "tool_version"]
        /\ ledger' = [ledger EXCEPT ![c] = LedgerOf(trail)]
        /\ UNCHANGED <<log, trail, todo, found, shared, last, before, checks, tampers>>
    BY <1>3 DEF ToolLoadTrail, Goto, ToolSteps
  <2> QED
    BY ONLY <1>2, <2>1, <2>2
<1>4. CASE ToolVersion(c)
  <2> DEFINE book == [ledger[c] EXCEPT !.version = Len(trail)]
  <2>1. ledger' = [ledger EXCEPT ![c] = book]
    BY <1>4 DEF ToolVersion
  <2>2. book.version = Len(trail)
    OBVIOUS
  <2> HIDE DEF book
  <2>3. /\ pc[c] \in ToolSteps /\ pc' = [pc EXCEPT ![c] = "tool_append"]
        /\ UNCHANGED <<log, trail, todo, found, shared, last, before, checks, tampers>>
    BY <1>4 DEF ToolVersion, Goto, ToolSteps
  <2> QED
    BY ONLY <1>2, <2>1, <2>2, <2>3
<1>5. CASE ToolAppend(c)
  BY <1>5, AppendCheckBook DEF ToolAppend
<1> QED
  BY <1>1, <1>3, <1>4, <1>5 DEF Tool

LEMMA StartBook ==
  ASSUME LedgerInv, BookInv, NEW c \in Checkers, NEW kind \in Kinds, Start(c, kind)
  PROVE  BookInv'
<1> DEFINE step == IF kind = "ledger" THEN "load_ledger" ELSE "tool_load"
<1>1. /\ pc[c] = "idle" /\ checks < MaxChecks /\ checks' = checks + 1
      /\ pc' = [pc EXCEPT ![c] = step]
      /\ UNCHANGED <<log, trail, ledger, todo, found, shared, last, before, tampers>>
  BY DEF Start, Goto, call
<1>2. step \in {"load_ledger", "tool_load"}
  OBVIOUS
<1> HIDE DEF step
<1>3. pc'[c] = step /\ \A d \in Checkers : d # c => pc'[d] = pc[d]
  BY <1>1 DEF BookInv, PerChecker
<1>4. Len(trail) \in Nat
  BY LoadedTrail
<1>5. Checking(c)'
  BY <1>1, <1>2, <1>3 DEF BookInv, Checking, Scanning, log
<1>6. ChecksInv'
  <2>1. Running' = Running \cup {c} /\ c \notin Running
    BY <1>1, <1>2, <1>3 DEF Running
  <2>2. IsFiniteSet(Running) /\ Cardinality(Running) \in Nat
    BY FS_CardinalityType DEF BookInv, ChecksInv
  <2>3. IsFiniteSet(Running') /\ Cardinality(Running') = Cardinality(Running) + 1
    BY <2>1, <2>2, FS_AddElement
  <2> QED
    BY <1>1, <1>4, <2>2, <2>3, AuditAssumption DEF BookInv, ChecksInv
<1>7. LogGrows
  BY <1>1, LogStays DEF BookInv
<1>8. /\ PerChecker(pc)' /\ PerChecker(ledger)' /\ PerChecker(todo)' /\ PerChecker(found)'
      /\ PerChecker(shared)' /\ PerChecker(last)' /\ PerChecker(before)'
  BY <1>1 DEF BookInv, PerChecker
<1>9. Len(trail') \in Nat /\ Len(trail) <= Len(trail')
  BY <1>1, <1>4
<1> QED
  BY <1>1, <1>3, <1>4, <1>5, <1>6, <1>7, <1>8, <1>9, CheckStep

LEMMA BusinessBook == ASSUME LedgerInv, BookInv, Business PROVE BookInv'
<1>1. /\ UNCHANGED <<trail, pc, ledger, todo, found, shared, last, before, checks>>
  BY DEF Business, Draw, CommitAppend, RollbackAppend, Tamper, call
<1>2. LogGrows /\ Len(trail) \in Nat
  BY BusinessGrows, LoadedTrail DEF BookInv
<1>3. ASSUME NEW d \in Checkers PROVE Checking(d)'
  <2>1. Checking(d) /\ LogInv
    BY DEF BookInv
  <2>2. Len(trail') \in Nat /\ Len(trail) <= Len(trail')
    BY <1>1, <1>2
  <2> QED
    BY <1>1, <1>2, <2>1, <2>2, CheckKept
<1>4. ChecksInv'
  BY <1>1 DEF BookInv, ChecksInv, Running
<1> QED
  BY <1>1, <1>2, <1>3, <1>4 DEF BookInv, PerChecker, LogGrows

LEMMA InitBook == Init => BookInv
<1> SUFFICES ASSUME Init PROVE BookInv
  OBVIOUS
<1>1. Running = {}
  BY DEF Init, Running
<1>2. LogInv
  BY AuditAssumption DEF Init, LogInv, Sequential
<1>3. ChecksInv
  BY <1>1, FS_EmptySet, AuditAssumption DEF Init, ChecksInv
<1>4. \A c \in Checkers : Checking(c)
  BY DEF Init, Checking, Scanning, NewLedger, LedgerOf
<1> QED
  BY <1>2, <1>3, <1>4 DEF Init, BookInv, PerChecker

LEMMA NextBook == LedgerInv /\ BookInv /\ [Next]_vars => BookInv'
<1> SUFFICES ASSUME LedgerInv, BookInv, [Next]_vars PROVE BookInv'
  OBVIOUS
<1>1. CASE Business
  BY <1>1, BusinessBook
<1>2. ASSUME NEW c \in Checkers, NEW kind \in Kinds, Start(c, kind) PROVE BookInv'
  BY <1>2, StartBook
<1>3. ASSUME NEW c \in Checkers, Ledger(c) PROVE BookInv'
  <2>1. CASE RecordCheck(c)
    BY <2>1, AppendCheckBook DEF RecordCheck
  <2> QED
    BY <1>3, <2>1, LoadLedgerBook, LoadStreamBook, FetchPageBook DEF Ledger
<1>4. ASSUME NEW c \in Checkers, Tool(c) PROVE BookInv'
  BY <1>4, ToolBook
<1>5. CASE UNCHANGED vars
  <2>1. /\ UNCHANGED <<rows, open, committed, edits, trail, pc, ledger, todo, found, shared>>
        /\ UNCHANGED <<last, before, checks, tampers>>
    BY <1>5 DEF vars, log, call
  <2>2. LogInv' /\ ChecksInv' /\ \A c \in Checkers : Checking(c)'
    BY <2>1 DEF BookInv, LogInv, ChecksInv, Running, Checking, FoundBefore, Belongs
  <2> QED
    BY <2>1, <2>2 DEF BookInv, PerChecker
<1> QED
  BY <1>1, <1>2, <1>3, <1>4, <1>5 DEF Next

(* What a check has read is committed and no newer than the log; a running   *)
(* load_all has everything of the entity up to where it has come.            *)
THEOREM BookInvariant == Spec => []BookInv
<1>1. LedgerInv /\ BookInv /\ [Next]_vars => BookInv'
  BY NextBook
<1>2. Init => BookInv
  BY InitBook
<1> QED
  BY <1>1, <1>2, LedgerInvariant, PTL DEF Spec

(* The types of the log, the trail and the calls; no more events on the      *)
(* trail than checks were started.                                           *)
THEOREM TypeCorrect == Spec => []TypeOK
<1>1. LedgerInv /\ BookInv => TypeOK
  <2> SUFFICES ASSUME LedgerInv, BookInv PROVE TypeOK
    OBVIOUS
  <2>1. \A g \in DOMAIN rows : rows[g] \in EventSorts /\ edits[g] \in 0..MaxTampers
    BY AuditAssumption DEF BookInv, LogInv
  <2>2. Len(trail) <= checks
    <3>1. Cardinality(Running) \in Nat /\ Len(trail) \in Nat /\ checks \in Nat
      BY FS_CardinalityType, LoadedTrail, AuditAssumption DEF BookInv, ChecksInv
    <3> QED
      BY <3>1 DEF BookInv, ChecksInv
  <2>3. \A c \in Checkers : \A e \in found[c] : e.gp \in committed /\ e.edit <= edits[e.gp]
    <3> TAKE c \in Checkers
    <3> TAKE e \in found[c]
    <3>1. e.gp \in committed /\ e.edit \in 0..edits[e.gp]
      BY DEF BookInv, Checking
    <3>2. edits[e.gp] \in Nat
      BY <3>1, LogFacts DEF BookInv
    <3> QED
      BY <3>1, <3>2
  <2>4. open \cup committed \subseteq DOMAIN rows /\ checks \in 0..MaxChecks
    BY DEF BookInv, LogInv, ChecksInv
  <2> QED
    BY <2>1, <2>2, <2>3, <2>4 DEF TypeOK, BookInv, Checking
<1> QED
  BY <1>1, LedgerInvariant, BookInvariant, PTL

(* load_all, page by page, for any page size, while transactions draw,       *)
(* commit and roll back below and above the page: the timeline a check       *)
(* records has every event of the entity committed when the scan began.      *)
THEOREM TimelinesAreComplete == Spec => []TimelineIsComplete
<1>1. BookInv => TimelineIsComplete
  BY DEF BookInv, Checking, Scanning, FoundBefore, TimelineIsComplete
<1> QED
  BY <1>1, BookInvariant, PTL

(* What the primary stream holds only grows, while no payload changes. *)
LEMMA NowGrows ==
  ASSUME BookInv, LogGrows, tampers = 0, tampers' = 0
  PROVE  Now \subseteq Now'
<1> SUFFICES ASSUME NEW g \in EventsOf(Primary) PROVE Content(g) \in Now'
  BY DEF Now
<1>1. g \in committed /\ g \in DOMAIN rows /\ rows[g].stream = Primary
  BY LogFacts DEF EventsOf, BookInv
<1>2. edits[g] \in 0..0 /\ edits'[g] \in 0..0
  BY <1>1 DEF LogGrows, LogInv, BookInv
<1>3. g \in EventsOf(Primary)'
  BY <1>1 DEF LogGrows, EventsOf
<1>4. Content(g)' = Content(g)
  BY <1>2 DEF Content
<1> QED
  BY <1>3, <1>4 DEF Now

LEMMA NestedKept ==
  ASSUME Nested, Now \subseteq Now', \A s \in Digested' : s \in Digested \/ s = Now \/ s = {}
  PROVE  Nested'
BY DEF Nested

(* Steps that leave the trail alone. *)
LEMMA ClaimsKept ==
  ASSUME ClaimsInv, UNCHANGED trail, NEW c \in Checkers, Now \subseteq Now',
         \A d \in Checkers : d # c =>
            pc'[d] = pc[d] /\ ledger'[d] = ledger[d] /\ found'[d] = found[d],
         pc'[c] \in ToolSteps => \/ found'[c] = Now
                                 \/ pc[c] \in ToolSteps /\ found'[c] = found[c],
         pc'[c] \in {"tool_version", "tool_append"} =>
           ledger'[c].hash = NoHash \/ \E k \in DOMAIN trail : LoadedFrom(c, k)',
         tampers = 0, tampers' = 0
  PROVE  ClaimsInv'
<1>1. ToolClaims' = ToolClaims
  BY DEF ToolClaims
<1>2. ASSUME NEW s \in Digested' PROVE s \in Digested \/ s = Now
  <2>1. CASE s \in {trail'[i].hash.contents : i \in ToolClaims'}
    BY <1>1, <2>1 DEF Digested
  <2>2. ASSUME NEW d \in Checkers, pc'[d] \in ToolSteps, s = found'[d]
        PROVE  s \in Digested \/ s = Now
    BY <2>2 DEF Digested
  <2> QED
    BY <1>2, <2>1, <2>2 DEF Digested
<1>3. Nested'
  BY <1>2, NestedKept DEF ClaimsInv
<1>4. ASSUME NEW d \in Checkers, pc'[d] \in {"tool_version", "tool_append"}
      PROVE  ledger'[d].hash = NoHash \/ \E k \in DOMAIN trail : LoadedFrom(d, k)'
  BY <1>4 DEF ClaimsInv, LoadedFrom
<1> QED
  BY <1>1, <1>3, <1>4 DEF ClaimsInv, ToolNeverAccuses

(* One event more on the trail. *)
LEMMA ClaimAdded ==
  ASSUME LedgerInv, BookInv, ClaimsInv, NEW c \in Checkers, Finish(c), UNCHANGED <<log, tampers>>,
         tampers = 0, NEW check, trail' = Append(trail, check),
         check.by \in {"ledger", "tool"},
         check.by = "tool" =>
           /\ check.hash = Fold(check.hash.contents)
           /\ check.count = Cardinality(check.hash.contents)
           /\ IsFiniteSet(check.hash.contents)
           /\ check.hash.contents \in Digested \cup {{}}
           /\ check.tamper => \E j \in DOMAIN trail : trail[j].by = "ledger"
  PROVE  ClaimsInv'
<1> DEFINE n == Len(trail) + 1
<1>1. /\ Len(trail) \in Nat /\ DOMAIN trail = 1..Len(trail) /\ DOMAIN trail' = 1..n
      /\ \A i \in 1..Len(trail) : trail'[i] = trail[i]
      /\ trail'[n] = check
  BY AppendOne DEF LedgerInv
<1> HIDE DEF n
<1>2. \A i \in DOMAIN trail' : i = n \/ (i \in DOMAIN trail /\ trail'[i] = trail[i])
  BY <1>1 DEF n
<1>3. n \in Nat /\ \A i \in DOMAIN trail : i < n /\ i \in Nat /\ i \in DOMAIN trail'
  BY <1>1 DEF n
<1>4. \A i \in ToolClaims' : (i = n /\ check.by = "tool") \/ i \in ToolClaims
  BY <1>1, <1>2 DEF ToolClaims
<1>5. Now' = Now
  BY DEF Now, Content, EventsOf, log
<1>6. \A d \in Checkers : pc'[d] \in ToolSteps =>
         d # c /\ pc[d] \in ToolSteps /\ found'[d] = found[d] /\ ledger'[d] = ledger[d]
                /\ pc'[d] = pc[d]
  BY DEF Finish, Goto, BookInv, PerChecker, ToolSteps
<1>7. ASSUME NEW s \in Digested' PROVE s \in Digested \/ s = {}
  <2>1. ASSUME NEW i \in ToolClaims', s = trail'[i].hash.contents
        PROVE  s \in Digested \/ s = {}
    <3>1. CASE i = n /\ check.by = "tool"
      BY <1>1, <2>1, <3>1
    <3>2. CASE i \in ToolClaims
      BY <1>1, <2>1, <3>2 DEF ToolClaims, Digested
    <3> QED
      BY <1>4, <2>1, <3>1, <3>2
  <2>2. ASSUME NEW d \in Checkers, pc'[d] \in ToolSteps, s = found'[d] PROVE s \in Digested
    BY <1>6, <2>2 DEF Digested
  <2> QED
    BY <1>7, <2>1, <2>2 DEF Digested
<1>8. Nested'
  BY <1>5, <1>7, NestedKept DEF ClaimsInv
<1>9. ASSUME NEW i \in ToolClaims'
      PROVE  /\ trail'[i].hash = Fold(trail'[i].hash.contents)
             /\ trail'[i].count = Cardinality(trail'[i].hash.contents)
             /\ IsFiniteSet(trail'[i].hash.contents)
  <2>1. CASE i = n /\ check.by = "tool"
    BY <1>1, <2>1
  <2>2. CASE i \in ToolClaims
    BY <1>1, <2>2 DEF ToolClaims, ClaimsInv
  <2> QED
    BY <1>4, <1>9, <2>1, <2>2
<1>10. ASSUME NEW d \in Checkers, pc'[d] \in {"tool_version", "tool_append"}
       PROVE  ledger'[d].hash = NoHash \/ \E k \in DOMAIN trail' : LoadedFrom(d, k)'
  <2>1. ledger'[d] = ledger[d] /\ pc[d] \in {"tool_version", "tool_append"}
    BY <1>6, <1>10 DEF ToolSteps
  <2>2. CASE ledger[d].hash = NoHash
    BY <2>1, <2>2
  <2>3. ASSUME NEW k \in DOMAIN trail, LoadedFrom(d, k) PROVE k \in DOMAIN trail' /\ LoadedFrom(d, k)'
    BY <1>1, <1>3, <2>1, <2>3 DEF LoadedFrom
  <2> QED
    BY <2>1, <2>2, <2>3 DEF ClaimsInv
<1>11. ASSUME NEW i \in DOMAIN trail', trail'[i].by = "tool", trail'[i].tamper
       PROVE  \E j \in 1..i : trail'[j].by = "ledger"
  <2>1. CASE i = n
    <3>1. PICK j \in DOMAIN trail : trail[j].by = "ledger"
      BY <1>1, <1>11, <2>1
    <3>2. j \in 1..i /\ trail'[j] = trail[j]
      BY <1>1, <1>3, <2>1
    <3> QED
      BY <3>1, <3>2
  <2>2. CASE i \in DOMAIN trail /\ trail'[i] = trail[i]
    <3>1. PICK j \in 1..i : trail[j].by = "ledger"
      BY <1>11, <2>2 DEF ClaimsInv, ToolNeverAccuses
    <3>2. trail'[j] = trail[j]
      BY <1>1, <2>2, <3>1
    <3> QED
      BY <3>1, <3>2
  <2> QED
    BY <1>2, <1>11, <2>1, <2>2
<1>12. \A i \in DOMAIN trail' : trail'[i].by \in {"ledger", "tool"}
  BY <1>1, <1>2 DEF ClaimsInv
<1> QED
  BY <1>8, <1>9, <1>10, <1>11, <1>12 DEF ClaimsInv, ToolNeverAccuses

LEMMA CheckEndsInOrder ==
  ASSUME LedgerInv, BookInv, ClaimsInv, NEW c \in Checkers, Finish(c), UNCHANGED <<log, trail, tampers>>,
         tampers = 0
  PROVE  ClaimsInv'
<1>1. Now' = Now
  BY DEF Now, Content, EventsOf, log
<1>2. /\ pc'[c] = "idle"
      /\ \A d \in Checkers : d # c =>
            pc'[d] = pc[d] /\ ledger'[d] = ledger[d] /\ found'[d] = found[d]
  BY DEF Finish, Goto, BookInv, PerChecker
<1> QED
  BY <1>1, <1>2, ClaimsKept DEF ToolSteps

(* Two sets the tool digested with as many events are the same set. *)
LEMMA SameEvents ==
  ASSUME Nested, NEW s \in Digested, NEW t \in Digested, IsFiniteSet(s), IsFiniteSet(t),
         Cardinality(s) = Cardinality(t)
  PROVE  s = t
<1>1. CASE s \subseteq t
  BY <1>1, FS_Subset
<1>2. CASE t \subseteq s
  BY <1>2, FS_Subset
<1> QED
  BY <1>1, <1>2 DEF Nested

LEMMA ToolAppendInOrder ==
  ASSUME LedgerInv, BookInv, ClaimsInv, NEW c \in Checkers, ToolAppend(c), tampers = 0
  PROVE  ClaimsInv'
<1> DEFINE check == [by |-> "tool",
                     count |-> Cardinality(found[c]),
                     hash |-> Fold(found[c]),
                     previous |-> ledger[c].hash,
                     valid |-> TRUE,
                     audited |-> {},
                     tamper |-> Contradicted(ledger[c], found[c])]
<1>1. /\ pc[c] = "tool_append" /\ Finish(c) /\ UNCHANGED <<log, tampers>>
      /\ trail' = Append(trail, check) \/ trail' = trail
  BY DEF ToolAppend, AppendCheck
<1>2. check.hash.contents = found[c] /\ Fold(found[c]) = Fold(check.hash.contents)
  BY DEF Fold, Hash, NoHash
<1>3. IsFiniteSet(found[c]) /\ found[c] \in Digested
  BY <1>1 DEF LedgerInv, Digested, ToolSteps
<1>4. ASSUME Contradicted(ledger[c], found[c])
      PROVE  \E j \in DOMAIN trail : trail[j].by = "ledger"
  <2>1. PICK k \in DOMAIN trail : LoadedFrom(c, k)
    BY <1>1, <1>4 DEF ClaimsInv, Contradicted
  <2>2. CASE trail[k].by = "tool"
    <3>1. /\ k \in ToolClaims
          /\ trail[k].hash = Fold(trail[k].hash.contents)
          /\ trail[k].count = Cardinality(trail[k].hash.contents)
          /\ IsFiniteSet(trail[k].hash.contents)
          /\ trail[k].hash.contents \in Digested
      BY <2>1, <2>2 DEF ClaimsInv, ToolClaims, Digested
    <3>2. Cardinality(trail[k].hash.contents) = Cardinality(found[c])
      BY <1>4, <2>1, <3>1 DEF Contradicted, LoadedFrom
    <3>3. trail[k].hash.contents = found[c]
      BY <1>3, <3>1, <3>2, SameEvents DEF ClaimsInv
    <3> QED
      BY <1>4, <2>1, <3>1, <3>3 DEF Contradicted, LoadedFrom
  <2> QED
    BY <2>1, <2>2 DEF ClaimsInv
<1>5. /\ check.by = "tool" /\ check.hash = Fold(check.hash.contents)
      /\ check.count = Cardinality(check.hash.contents)
      /\ check.tamper => Contradicted(ledger[c], found[c])
  BY <1>2
<1> HIDE DEF check
<1>6. CASE trail' = Append(trail, check)
  BY <1>1, <1>2, <1>3, <1>4, <1>5, <1>6, ClaimAdded
<1>7. CASE trail' = trail
  BY <1>1, <1>7, CheckEndsInOrder
<1> QED
  BY <1>1, <1>6, <1>7

LEMMA RecordCheckInOrder ==
  ASSUME LedgerInv, BookInv, ClaimsInv, NEW c \in Checkers, RecordCheck(c), tampers = 0
  PROVE  ClaimsInv'
<1> DEFINE check == [by |-> "ledger",
                     count |-> Cardinality(found[c]),
                     hash |-> Hash("ledger", ledger[c].hash, found[c]),
                     previous |-> ledger[c].hash,
                     valid |-> ~ Tampered(ledger[c], found[c]),
                     audited |-> {rows[e.gp].stream : e \in found[c]},
                     tamper |-> Tampered(ledger[c], found[c])]
<1>1. /\ Finish(c) /\ UNCHANGED <<log, tampers>>
      /\ trail' = Append(trail, check) \/ trail' = trail
  BY DEF RecordCheck, AppendCheck
<1>2. check.by = "ledger"
  OBVIOUS
<1> HIDE DEF check
<1>3. CASE trail' = Append(trail, check)
  BY <1>1, <1>2, <1>3, ClaimAdded
<1>4. CASE trail' = trail
  BY <1>1, <1>4, CheckEndsInOrder
<1> QED
  BY <1>1, <1>3, <1>4

(* The loads of the tool and of the ledger. *)
LEMMA LoadsInOrder ==
  ASSUME LedgerInv, BookInv, ClaimsInv, NEW c \in Checkers, tampers = 0,
         \/ LoadLedger(c) \/ (\E s \in todo[c] : LoadStream(c, s)) \/ FetchPage(c)
         \/ ToolLoad(c) \/ ToolLoadTrail(c) \/ ToolVersion(c)
  PROVE  ClaimsInv'
<1>1. UNCHANGED <<log, trail, tampers>> /\ Now' = Now
  BY DEF LoadLedger, LoadStream, FetchPage, ToolLoad, ToolLoadTrail, ToolVersion,
         Now, Content, EventsOf, log
<1>2. /\ pc = [d \in Checkers |-> pc[d]] /\ ledger = [d \in Checkers |-> ledger[d]]
      /\ found = [d \in Checkers |-> found[d]]
  BY DEF BookInv, PerChecker
<1>3. CASE LoadLedger(c)
  <2>1. CASE LedgerOf(trail).valid
    <3>1. /\ pc' = [pc EXCEPT ![c] = "load_stream"] /\ found' = found
          /\ ledger' = [ledger EXCEPT ![c] = LedgerOf(trail)]
      BY <1>3, <2>1 DEF LoadLedger, Goto
    <3> QED
      BY <1>1, <1>2, <3>1, ClaimsKept DEF ToolSteps
  <2>2. CASE ~ LedgerOf(trail).valid
    BY <1>1, <1>3, <2>2, CheckEndsInOrder DEF LoadLedger
  <2> QED
    BY <2>1, <2>2
<1>4. ASSUME NEW s \in todo[c], LoadStream(c, s) PROVE ClaimsInv'
  <2>1. /\ pc[c] = "load_stream" /\ ledger' = ledger
        /\ pc' = pc \/ pc' = [pc EXCEPT ![c] = "scan"]
        /\ \E x : found' = [found EXCEPT ![c] = x]
    BY <1>4 DEF LoadStream, Goto
  <2>2. /\ pc'[c] \notin ToolSteps
        /\ \A d \in Checkers : d # c =>
              pc'[d] = pc[d] /\ ledger'[d] = ledger[d] /\ found'[d] = found[d]
    BY <1>2, <2>1 DEF ToolSteps
  <2> QED
    BY <1>1, <2>2, ClaimsKept DEF ToolSteps
<1>5. CASE FetchPage(c)
  <2>1. /\ pc[c] = "scan" /\ ledger' = ledger
        /\ pc' = pc \/ pc' = [pc EXCEPT ![c] = "record"]
        /\ found' = found \/ \E x : found' = [found EXCEPT ![c] = x]
    BY <1>5 DEF FetchPage, Goto
  <2>2. /\ pc'[c] \notin ToolSteps
        /\ \A d \in Checkers : d # c =>
              pc'[d] = pc[d] /\ ledger'[d] = ledger[d] /\ found'[d] = found[d]
    BY <1>2, <2>1 DEF ToolSteps
  <2> QED
    BY <1>1, <2>2, ClaimsKept DEF ToolSteps
<1>6. CASE ToolLoad(c)
  <2>1. /\ pc' = [pc EXCEPT ![c] = "tool_load_trail"] /\ ledger' = ledger
        /\ found' = [found EXCEPT ![c] = Now]
    BY <1>6 DEF ToolLoad, Goto, Now
  <2>2. /\ pc'[c] = "tool_load_trail" /\ found'[c] = Now
        /\ \A d \in Checkers : d # c =>
              pc'[d] = pc[d] /\ ledger'[d] = ledger[d] /\ found'[d] = found[d]
    BY <1>2, <2>1
  <2> QED
    BY <1>1, <2>2, ClaimsKept DEF ToolSteps
<1>7. CASE ToolLoadTrail(c)
  <2>1. /\ pc' = [pc EXCEPT ![c] = "tool_version"] /\ found' = found
        /\ ledger' = [ledger EXCEPT ![c] = LedgerOf(trail)] /\ pc[c] = "tool_load_trail"
    BY <1>7 DEF ToolLoadTrail, Goto
  <2>2. /\ pc'[c] = "tool_version" /\ found'[c] = found[c] /\ ledger'[c] = LedgerOf(trail)
        /\ \A d \in Checkers : d # c =>
              pc'[d] = pc[d] /\ ledger'[d] = ledger[d] /\ found'[d] = found[d]
    BY <1>2, <2>1
  <2>3. \/ LedgerOf(trail).hash = NoHash
        \/ \E k \in DOMAIN trail : /\ LedgerOf(trail).hash = trail[k].hash
                                   /\ LedgerOf(trail).count = trail[k].count
    <3>1. Len(trail) \in Nat /\ DOMAIN trail = 1..Len(trail)
      BY LoadedTrail
    <3>2. CASE trail = <<>>
      BY <3>2 DEF LedgerOf
    <3>3. CASE trail # <<>>
      <4>1. Len(trail) \in DOMAIN trail
        BY <3>1, <3>3 DEF LedgerInv, Sequential
      <4> QED
        BY <3>3, <4>1 DEF LedgerOf
    <3> QED
      BY <3>2, <3>3
  <2>4. ledger'[c].hash = NoHash \/ \E k \in DOMAIN trail : LoadedFrom(c, k)'
    BY <1>1, <2>2, <2>3 DEF LoadedFrom
  <2> QED
    BY <1>1, <2>1, <2>2, <2>4, ClaimsKept DEF ToolSteps
<1>8. CASE ToolVersion(c)
  <2>1. /\ pc' = [pc EXCEPT ![c] = "tool_append"] /\ found' = found
        /\ ledger' = [ledger EXCEPT ![c].version = Len(trail)] /\ pc[c] = "tool_version"
    BY <1>8 DEF ToolVersion, Goto
  <2>2. /\ pc'[c] = "tool_append" /\ found'[c] = found[c]
        /\ ledger'[c] = [ledger[c] EXCEPT !.version = Len(trail)]
        /\ \A d \in Checkers : d # c =>
              pc'[d] = pc[d] /\ ledger'[d] = ledger[d] /\ found'[d] = found[d]
    BY <1>2, <2>1
  <2>3. ledger'[c].hash = ledger[c].hash /\ ledger'[c].count = ledger[c].count
    BY <2>2
  <2>4. ledger'[c].hash = NoHash \/ \E k \in DOMAIN trail : LoadedFrom(c, k)'
    BY <1>1, <2>1, <2>3 DEF LoadedFrom, ClaimsInv
  <2> QED
    BY <1>1, <2>1, <2>2, <2>4, ClaimsKept DEF ToolSteps
<1> QED
  BY <1>3, <1>4, <1>5, <1>6, <1>7, <1>8

LEMMA StartInOrder ==
  ASSUME LedgerInv, BookInv, ClaimsInv, NEW c \in Checkers, NEW kind \in Kinds, Start(c, kind),
         tampers = 0
  PROVE  ClaimsInv'
<1>1. /\ UNCHANGED <<trail, ledger, found, tampers>> /\ Now' = Now
      /\ pc' = [pc EXCEPT ![c] = IF kind = "ledger" THEN "load_ledger" ELSE "tool_load"]
  BY DEF Start, Goto, call, log, Now, Content, EventsOf
<1>2. /\ pc'[c] \notin ToolSteps
      /\ \A d \in Checkers : d # c =>
            pc'[d] = pc[d] /\ ledger'[d] = ledger[d] /\ found'[d] = found[d]
  BY <1>1 DEF ToolSteps, BookInv, PerChecker
<1> QED
  BY <1>1, <1>2, ClaimsKept DEF ToolSteps

LEMMA BusinessInOrder ==
  ASSUME LedgerInv, BookInv, ClaimsInv, Business, tampers = 0, tampers' = 0
  PROVE  ClaimsInv'
<1>1. UNCHANGED <<trail, pc, ledger, found>>
  BY DEF Business, Draw, CommitAppend, RollbackAppend, Tamper, call
<1>2. Now \subseteq Now'
  BY BusinessGrows, NowGrows DEF BookInv
<1>3. Digested' = Digested /\ ToolClaims' = ToolClaims
  BY <1>1 DEF Digested, ToolClaims
<1>4. Nested'
  BY <1>2, <1>3, NestedKept DEF ClaimsInv
<1> QED
  BY <1>1, <1>3, <1>4 DEF ClaimsInv, ToolNeverAccuses, LoadedFrom

LEMMA InitAccuse == Init => AccuseInv
<1> SUFFICES ASSUME Init PROVE ClaimsInv
  BY DEF AccuseInv
<1>1. DOMAIN trail = {}
  BY DEF Init
<1>2. Digested = {}
  BY <1>1 DEF Init, Digested, ToolClaims, ToolSteps
<1> QED
  BY <1>1, <1>2 DEF Init, ClaimsInv, Nested, ToolClaims, ToolNeverAccuses

LEMMA NextAccuse == LedgerInv /\ BookInv /\ AccuseInv /\ [Next]_vars => AccuseInv'
<1> SUFFICES ASSUME LedgerInv, BookInv, AccuseInv, [Next]_vars, tampers' = 0 PROVE ClaimsInv'
  BY DEF AccuseInv
<1>1. tampers = 0 /\ ClaimsInv
  <2>1. tampers \in Nat
    BY LogFacts DEF BookInv
  <2>2. tampers' = tampers \/ tampers' = tampers + 1
    BY DEF Next, Business, Draw, CommitAppend, RollbackAppend, Tamper, Start, Ledger, Tool,
           LoadLedger, LoadStream, FetchPage, RecordCheck, ToolLoad, ToolLoadTrail,
           ToolVersion, ToolAppend, AppendCheck, vars
  <2> QED
    BY <2>1, <2>2 DEF AccuseInv
<1>2. CASE Business
  BY <1>1, <1>2, BusinessInOrder
<1>3. ASSUME NEW c \in Checkers, NEW kind \in Kinds, Start(c, kind) PROVE ClaimsInv'
  BY <1>1, <1>3, StartInOrder
<1>4. ASSUME NEW c \in Checkers, Ledger(c) PROVE ClaimsInv'
  BY <1>1, <1>4, LoadsInOrder, RecordCheckInOrder DEF Ledger
<1>5. ASSUME NEW c \in Checkers, Tool(c) PROVE ClaimsInv'
  BY <1>1, <1>5, LoadsInOrder, ToolAppendInOrder DEF Tool
<1>6. CASE UNCHANGED vars
  <2>1. UNCHANGED <<rows, committed, edits, trail, pc, ledger, found, tampers>>
    BY <1>6 DEF vars, log, call
  <2>2. Now' = Now /\ Digested' = Digested /\ ToolClaims' = ToolClaims
    BY <2>1 DEF Now, Content, EventsOf, Digested, ToolClaims
  <2>3. Nested'
    BY <1>1, <2>2 DEF ClaimsInv, Nested
  <2> QED
    BY <1>1, <2>1, <2>2, <2>3 DEF ClaimsInv, ToolNeverAccuses, LoadedFrom
<1> QED
  BY <1>2, <1>3, <1>4, <1>5, <1>6 DEF Next

(* Where only the tool checks and no payload changed, no claim of the tool   *)
(* contradicts the one before it, in any interleaving of checks and appends: *)
(* the tool loads the events, the trail and its version at three moments.    *)
THEOREM NoAccusation == Spec => []ToolNeverAccuses
<1>1. LedgerInv /\ BookInv /\ AccuseInv /\ [Next]_vars => AccuseInv'
  BY NextAccuse
<1>2. Init => AccuseInv
  BY InitAccuse
<1>3. BookInv /\ AccuseInv => ToolNeverAccuses
  <2> SUFFICES ASSUME BookInv, AccuseInv PROVE ToolNeverAccuses
    OBVIOUS
  <2>1. CASE tampers = 0
    BY <2>1 DEF AccuseInv, ClaimsInv
  <2>2. CASE tampers # 0
    BY <2>2, LogFacts DEF BookInv, ToolNeverAccuses
  <2> QED
    BY <2>1, <2>2
<1> QED
  BY <1>1, <1>2, <1>3, LedgerInvariant, BookInvariant, PTL DEF Spec
=============================================================================
