---------------------------- MODULE ReadModelsProofs ----------------------------
(***************************************************************************)
(* Proofs about ReadModels: what the read models show, however the two     *)
(* batches interleave, for any applications, rules, batch size, retries    *)
(* and crashes, and any events of loans that can be loaded. The theorems   *)
(* are at the end; the invariant ReadInv comes after the lemmas about the  *)
(* events of a stream and the folds.                                       *)
(***************************************************************************)
EXTENDS ReadModels, AggregatesProofs

-------------------------------------------------------------------------------
(* The events of one stream *)

(* The recursive function of EventsIn. *)
IsChoice(f, q, a, stream, n) ==
  f = [i \in 0..n |->
        IF i = 0 THEN <<>>
        ELSE IF q[i].app = a /\ q[i].stream = stream THEN Append(f[i - 1], q[i]) ELSE f[i - 1]]

LEMMA ChoiceExists ==
  ASSUME NEW q, NEW a, NEW stream, NEW n \in Nat
  PROVE  \E f : IsChoice(f, q, a, stream, n)
<1> DEFINE T == {m \in Nat : \E f : IsChoice(f, q, a, stream, m)}
<1>1. 0 \in T
  <2> DEFINE f == [i \in 0..0 |-> <<>>]
  <2>1. IsChoice(f, q, a, stream, 0)
    BY DEF IsChoice
  <2> QED
    BY <2>1
<1>2. ASSUME NEW m \in Nat, m \in T PROVE m + 1 \in T
  <2>1. PICK f : IsChoice(f, q, a, stream, m)
    BY <1>2
  <2> DEFINE Mine == q[m + 1].app = a /\ q[m + 1].stream = stream
             g == [i \in 0..(m + 1) |->
                     IF i = m + 1 THEN IF Mine THEN Append(f[m], q[m + 1]) ELSE f[m] ELSE f[i]]
  <2>2. ASSUME NEW i \in 0..(m + 1)
        PROVE  g[i] = IF i = 0 THEN <<>>
                      ELSE IF q[i].app = a /\ q[i].stream = stream
                           THEN Append(g[i - 1], q[i]) ELSE g[i - 1]
    <3>1. CASE i = m + 1
      <4>1. i # 0 /\ i - 1 = m /\ m \in 0..(m + 1) /\ m # m + 1
        BY <1>2, <3>1
      <4>2. g[m] = f[m] /\ g[i] = IF Mine THEN Append(f[m], q[m + 1]) ELSE f[m]
        BY <3>1, <4>1
      <4> HIDE DEF g
      <4> QED
        BY <3>1, <4>1, <4>2
    <3>2. CASE i # m + 1
      <4>1. i \in 0..m /\ g[i] = f[i] /\ (i # 0 => g[i - 1] = f[i - 1])
        BY <1>2, <3>2
      <4> HIDE DEF g
      <4> QED
        BY <2>1, <4>1 DEF IsChoice
    <3> QED
      BY <3>1, <3>2
  <2>3. g = [i \in 0..(m + 1) |-> g[i]]
    OBVIOUS
  <2> HIDE DEF g
  <2>4. IsChoice(g, q, a, stream, m + 1)
    BY <2>2, <2>3 DEF IsChoice
  <2> QED
    BY <2>4
<1>3. \A m \in Nat : m \in T
  <2> HIDE DEF T
  <2> QED
    BY <1>1, <1>2, Induction
<1> QED
  BY <1>3

(* Logs that share their first events have the same streams so far. *)
LEMMA ChoicePrefix ==
  ASSUME NEW q, NEW t, NEW a, NEW stream, NEW n \in Nat, NEW m \in Nat, n <= m,
         SamePrefix(q, t, n),
         NEW f, IsChoice(f, q, a, stream, n), NEW g, IsChoice(g, t, a, stream, m)
  PROVE  f[n] = g[n]
<1> DEFINE T == {k \in Nat : k <= n => f[k] = g[k]}
<1>1. 0 \in T
  BY DEF IsChoice
<1>2. ASSUME NEW k \in Nat, k \in T PROVE k + 1 \in T
  <2> SUFFICES ASSUME k + 1 <= n PROVE f[k + 1] = g[k + 1]
    OBVIOUS
  <2>1. k + 1 \in 0..n /\ k + 1 \in 0..m /\ k + 1 # 0 /\ (k + 1) - 1 = k /\ f[k] = g[k]
    BY <1>2
  <2>2. q[k + 1] = t[k + 1]
    BY DEF SamePrefix
  <2>3. f[k + 1] = IF q[k + 1].app = a /\ q[k + 1].stream = stream
                   THEN Append(f[k], q[k + 1]) ELSE f[k]
    BY <2>1 DEF IsChoice
  <2>4. g[k + 1] = IF t[k + 1].app = a /\ t[k + 1].stream = stream
                   THEN Append(g[k], t[k + 1]) ELSE g[k]
    BY <2>1 DEF IsChoice
  <2> QED
    BY <2>1, <2>2, <2>3, <2>4
<1>3. \A k \in Nat : k \in T
  <2> HIDE DEF T
  <2> QED
    BY <1>1, <1>2, Induction
<1> QED
  BY <1>3

LEMMA EventsInChoice ==
  ASSUME NEW q, NEW a, NEW stream, NEW n \in Nat
  PROVE  \E f : IsChoice(f, q, a, stream, n) /\ EventsIn(q, a, stream, n) = f[n]
<1>1. PICK c : c = CHOOSE f : IsChoice(f, q, a, stream, n)
  OBVIOUS
<1>2. IsChoice(c, q, a, stream, n)
  BY <1>1, ChoiceExists
<1>3. EventsIn(q, a, stream, n) = c[n]
  BY <1>1 DEF EventsIn, IsChoice
<1> QED
  BY <1>2, <1>3

LEMMA EventsInSame ==
  ASSUME NEW q, NEW t, NEW a, NEW stream, NEW n \in Nat, SamePrefix(q, t, n)
  PROVE  EventsIn(q, a, stream, n) = EventsIn(t, a, stream, n)
<1>1. PICK f : IsChoice(f, q, a, stream, n) /\ EventsIn(q, a, stream, n) = f[n]
  BY EventsInChoice
<1>2. PICK g : IsChoice(g, t, a, stream, n) /\ EventsIn(t, a, stream, n) = g[n]
  BY EventsInChoice
<1> QED
  BY <1>1, <1>2, ChoicePrefix

LEMMA EventsInNone ==
  ASSUME NEW q, NEW a, NEW stream
  PROVE  EventsIn(q, a, stream, 0) = <<>>
<1>1. PICK f : IsChoice(f, q, a, stream, 0) /\ EventsIn(q, a, stream, 0) = f[0]
  BY EventsInChoice
<1> QED
  BY <1>1 DEF IsChoice

(* One event more: it is the next one of its own stream, and of no other. *)
LEMMA EventsInNext ==
  ASSUME NEW q, NEW a, NEW stream, NEW n \in Nat
  PROVE  EventsIn(q, a, stream, n + 1) =
           IF q[n + 1].app = a /\ q[n + 1].stream = stream
           THEN Append(EventsIn(q, a, stream, n), q[n + 1]) ELSE EventsIn(q, a, stream, n)
<1>1. PICK f : IsChoice(f, q, a, stream, n) /\ EventsIn(q, a, stream, n) = f[n]
  BY EventsInChoice
<1>2. PICK g : IsChoice(g, q, a, stream, n + 1) /\ EventsIn(q, a, stream, n + 1) = g[n + 1]
  BY EventsInChoice
<1>3. f[n] = g[n]
  BY <1>1, <1>2, ChoicePrefix DEF SamePrefix
<1>4. n + 1 \in 0..(n + 1) /\ n + 1 # 0 /\ (n + 1) - 1 = n
  OBVIOUS
<1>5. g[n + 1] = IF q[n + 1].app = a /\ q[n + 1].stream = stream
                 THEN Append(g[n], q[n + 1]) ELSE g[n]
  BY <1>2, <1>4 DEF IsChoice
<1> QED
  BY <1>1, <1>2, <1>3, <1>5

LEMMA EventsInType ==
  ASSUME NEW q, q \in Seq(Range(q)), NEW a, NEW stream, NEW n \in 0..Len(q)
  PROVE  EventsIn(q, a, stream, n) \in Seq({e \in Range(q) : e.app = a /\ e.stream = stream})
<1> DEFINE S == {e \in Range(q) : e.app = a /\ e.stream = stream}
           T == {m \in Nat : m <= Len(q) => EventsIn(q, a, stream, m) \in Seq(S)}
<1>1. Len(q) \in Nat /\ DOMAIN q = 1..Len(q)
  BY LenProperties
<1>2. 0 \in T
  <2>1. <<>> \in Seq(S)
    OBVIOUS
  <2> QED
    BY <2>1, EventsInNone
<1>3. ASSUME NEW m \in Nat, m \in T PROVE m + 1 \in T
  <2> SUFFICES ASSUME m + 1 <= Len(q) PROVE EventsIn(q, a, stream, m + 1) \in Seq(S)
    OBVIOUS
  <2>1. EventsIn(q, a, stream, m) \in Seq(S)
    BY <1>1, <1>3
  <2>2. q[m + 1] \in Range(q)
    BY <1>1 DEF Range
  <2>3. q[m + 1].app = a /\ q[m + 1].stream = stream => q[m + 1] \in S
    BY <2>2
  <2>4. EventsIn(q, a, stream, m + 1) =
          IF q[m + 1].app = a /\ q[m + 1].stream = stream
          THEN Append(EventsIn(q, a, stream, m), q[m + 1]) ELSE EventsIn(q, a, stream, m)
    BY EventsInNext
  <2> HIDE DEF S
  <2>5. q[m + 1] \in S => Append(EventsIn(q, a, stream, m), q[m + 1]) \in Seq(S)
    BY <2>1, AppendProperties
  <2> QED
    BY <2>1, <2>3, <2>4, <2>5
<1>4. \A m \in Nat : m \in T
  <2> HIDE DEF T
  <2> QED
    BY <1>2, <1>3, Induction
<1> QED
  BY <1>1, <1>4

(* What LoanOf makes of the loan stream of an application is a loan. *)
LEMMA LoanOfLog ==
  ASSUME NEW q, IsLog(q), NEW a \in Apps, NEW n \in 0..Len(q)
  PROVE  LoanOf(EventsIn(q, a, "loan", n)) \in LoanType
<1>1. PICK s : s = EventsIn(q, a, "loan", n)
  OBVIOUS
<1> DEFINE S == {e \in Range(q) : e.app = a /\ e.stream = "loan"}
<1>2. s \in Seq(S)
  BY <1>1, EventsInType DEF IsLog
<1>3. \A e \in S : e.type \in LoanEvents
  BY DEF IsLog, IsEvent, Range
<1> HIDE DEF S
<1>4. s \in Seq(Range(s)) /\ \A i \in DOMAIN s : s[i] \in S
  <2>1. DOMAIN s = 1..Len(s) /\ \A i \in 1..Len(s) : s[i] \in S
    BY <1>2, ElementOfSeq, LenProperties
  <2> QED
    BY <1>2, <2>1, SeqOfRange
<1>5. Shape(s)
  BY <1>3, <1>4, ShapeOfLoan
<1> QED
  BY <1>1, <1>5 DEF Shape
-------------------------------------------------------------------------------
(* The rows *)

AS == "ApplicationSummary"
CV == "ComplianceAuditView"

(* The columns of a row that either projection writes. *)
Life(row) == IF row = None THEN [state |-> None, tier |-> None, fraud |-> FALSE]
             ELSE [state |-> row.state, tier |-> row.tier, fraud |-> row.fraud]

StatusOf(row) == IF row = None THEN "UNKNOWN" ELSE row.status

RowOr(row) == IF row = None THEN NewRow ELSE row

(* What the summary should say of a loan whose last credit analysis reported *)
(* tier.                                                                     *)
Shown(loan, tier) ==
  [state |-> CASE loan.state = "NONE" -> None
               [] loan.state = "FINAL_VERDICT" -> "FINAL_APPROVED"
               [] loan.state = "ANALYSIS_COMPLETE" /\ tier = "" -> "AWAITING_ANALYSIS"
               [] OTHER -> loan.state,
   tier |-> tier, fraud |-> loan.fraud]

(* The tier of an event takes the place of the one before.                   *)
TierAfter(tier, e) == IF e.type = "CreditAnalysisCompleted" THEN e.tier ELSE tier

(* An event reports a tier if it is a credit analysis.                       *)
Reports(e) == e.type = "CreditAnalysisCompleted" => e.tier \in Tiers

LEMMA LoanEventReports ==
  ASSUME NEW e, IsEvent(e), e.stream = "loan"
  PROVE  Reports(e)
  BY DEF IsEvent, Reports

LEMMA NewRowType == NewRow \in Row /\ RowOr(None) = NewRow
  BY DEF NewRow, Row, RowOr

LEMMA StateAfterType ==
  ASSUME NEW row \in Row, NEW e
  PROVE  StateAfter(row, e) \in (States \ {"NONE", "FINAL_VERDICT"}) \cup {"FINAL_APPROVED", None}
  BY DEF StateAfter, Row, States

LEMMA ScoredType ==
  ASSUME NEW row \in Row, NEW e, Reports(e)
  PROVE  /\ Scored(row, e) \in Row
         /\ Scored(row, e).state = row.state /\ Scored(row, e).status = row.status
         /\ Scored(row, e).tier = TierAfter(row.tier, e)
         /\ Scored(row, e).fraud <=> (row.fraud \/ e.type = "FraudScreeningCompleted")
<1>1. PICK t : t = TierAfter(row.tier, e)
  OBVIOUS
<1>2. t \in Tiers \cup {None}
  BY <1>1 DEF TierAfter, Reports, Row
<1>3. Scored(row, e) = [row EXCEPT !.tier = t, !.fraud = @ \/ e.type = "FraudScreeningCompleted"]
  BY <1>1 DEF Scored, TierAfter, Row
<1> QED
  BY <1>1, <1>2, <1>3 DEF Row

LEMMA SummarisedType ==
  ASSUME NEW row \in Row, NEW e, Reports(e)
  PROVE  /\ Summarised(row, e) \in Row
         /\ Summarised(row, e).state = StateAfter(Scored(row, e), e)
         /\ Summarised(row, e).status = row.status
         /\ Summarised(row, e).tier = TierAfter(row.tier, e)
         /\ Summarised(row, e).fraud <=> (row.fraud \/ e.type = "FraudScreeningCompleted")
<1>1. PICK s : s = Scored(row, e)
  OBVIOUS
<1>2. PICK z : z = StateAfter(s, e)
  OBVIOUS
<1>3. /\ s \in Row /\ s.state = row.state /\ s.status = row.status
      /\ s.tier = TierAfter(row.tier, e)
      /\ s.fraud <=> (row.fraud \/ e.type = "FraudScreeningCompleted")
  BY <1>1, ScoredType
<1>4. z \in (States \ {"NONE", "FINAL_VERDICT"}) \cup {"FINAL_APPROVED", None}
  BY <1>2, <1>3, StateAfterType
<1>5. Summarised(row, e) = [s EXCEPT !.state = z]
  BY <1>1, <1>2 DEF Summarised
<1>6. /\ [s EXCEPT !.state = z] \in Row
      /\ [s EXCEPT !.state = z].state = z
      /\ [s EXCEPT !.state = z].status = s.status
      /\ [s EXCEPT !.state = z].tier = s.tier
      /\ [s EXCEPT !.state = z].fraud = s.fraud
  BY <1>3, <1>4 DEF Row
<1> QED
  BY <1>1, <1>2, <1>3, <1>5, <1>6

(* The upsert of the loan columns keeps the status of the stored row. *)
LEMMA LoanUpsertFacts ==
  ASSUME NEW stored \in Row \cup {None}, NEW mine \in Row,
         stored = None \/ ((mine.tier = None => stored.tier = None)
                            /\ (stored.fraud => mine.fraud)),
         stored = None => mine.status = "UNKNOWN"
  PROVE  /\ LoanUpsert(stored, mine) \in Row
         /\ Life(LoanUpsert(stored, mine)) = Life(mine)
         /\ LoanUpsert(stored, mine).status = StatusOf(stored)
<1>1. CASE stored = None
  BY <1>1 DEF LoanUpsert, StatusOf
<1>2. CASE stored # None
  <2>1. PICK r : r = LoanUpsert(stored, mine)
    OBVIOUS
  <2>2. r = [mine EXCEPT !.tier = IF @ = None THEN stored.tier ELSE @,
                         !.fraud = @ \/ stored.fraud,
                         !.status = stored.status]
    BY <1>2, <2>1 DEF LoanUpsert
  <2>3. stored \in Row /\ stored.fraud \in BOOLEAN /\ mine.fraud \in BOOLEAN
    BY <1>2 DEF Row
  <2>4. (IF mine.tier = None THEN stored.tier ELSE mine.tier) = mine.tier
    BY <1>2
  <2>5. r = [mine EXCEPT !.tier = mine.tier, !.fraud = mine.fraud, !.status = stored.status]
    BY <1>2, <2>2, <2>3, <2>4 DEF Row
  <2>6. r \in Row /\ r.state = mine.state /\ r.tier = mine.tier /\ r.fraud = mine.fraud
        /\ r.status = stored.status
    BY <2>3, <2>5 DEF Row
  <2> QED
    BY <1>2, <2>1, <2>6, NoneAssumption DEF Life, StatusOf
<1> QED
  BY <1>1, <1>2

(* That of the compliance status keeps the other columns. *)
LEMMA ComplianceUpsertFacts ==
  ASSUME NEW stored \in Row \cup {None}, NEW state
  PROVE  /\ ComplianceUpsert(stored, state) \in Row
         /\ Life(ComplianceUpsert(stored, state)) = Life(stored)
         /\ ComplianceUpsert(stored, state).status = OverallStatus(state)
<1>1. PICK s : s = OverallStatus(state)
  OBVIOUS
<1>2. s \in {"UNKNOWN", "IN_PROGRESS", "PASSED", "FAILED"}
  BY <1>1 DEF OverallStatus
<1>3. PICK r : r = RowOr(stored)
  OBVIOUS
<1>4. r \in Row /\ Life(stored) = [state |-> r.state, tier |-> r.tier, fraud |-> r.fraud]
  BY <1>3, NewRowType DEF RowOr, Life, NewRow
<1>5. ComplianceUpsert(stored, state) = [r EXCEPT !.status = s]
  BY <1>1, <1>3 DEF ComplianceUpsert, RowOr
<1>6. /\ [r EXCEPT !.status = s] \in Row /\ [r EXCEPT !.status = s].status = s
      /\ [r EXCEPT !.status = s].state = r.state
      /\ [r EXCEPT !.status = s].tier = r.tier
      /\ [r EXCEPT !.status = s].fraud = r.fraud
  BY <1>2, <1>4 DEF Row
<1> QED
  BY <1>1, <1>4, <1>5, <1>6, NoneAssumption DEF Life

LEMMA LifeOfRow ==
  ASSUME NEW row \in Row \cup {None}
  PROVE  /\ RowOr(row) \in Row
         /\ Life(row).state = RowOr(row).state
         /\ Life(row).tier = RowOr(row).tier
         /\ Life(row).fraud = RowOr(row).fraud
  BY NewRowType DEF Life, RowOr, NewRow

(* The effect of an accepted event leaves a loan.                            *)
LEMMA AcceptedType ==
  ASSUME NEW loan \in LoanType, NEW e, e.type \in LoanEvents
  PROVE  Accepted(loan, e) \in LoanType
<1>1. CASE e.type = "ApplicationSubmitted"
  BY <1>1 DEF Accepted, LoanType, States
<1>2. CASE e.type = "CreditAnalysisRequested"
  BY <1>2 DEF Accepted, LoanType, States
<1>3. CASE e.type = "FraudScreeningCompleted"
  BY <1>3 DEF Accepted, AnalysisState, LoanType, States
<1>4. CASE e.type = "CreditAnalysisCompleted"
  BY <1>4 DEF Accepted, AnalysisState, LoanType, States
<1>5. CASE e.type = "ComplianceReviewStarted"
  BY <1>5 DEF Accepted, LoanType, States
<1>6. CASE e.type = "DecisionGenerated"
  BY <1>6 DEF Accepted, LoanType, States
<1>7. CASE e.type = "HumanReviewRequested"
  BY <1>7 DEF Accepted, LoanType, States
<1>8. CASE e.type = "HumanReviewCompleted"
  BY <1>8 DEF Accepted, LoanType, States
<1>9. CASE e.type = "ApplicationApproved"
  BY <1>9 DEF Accepted, LoanType, States
<1> QED
  BY <1>1, <1>2, <1>3, <1>4, <1>5, <1>6, <1>7, <1>8, <1>9 DEF LoanEvents

(* A row that shows the loan still does after an event the loan accepts: the *)
(* two compute the lifecycle state by different rules.                       *)
LEMMA ShownStep ==
  ASSUME NEW row \in Row \cup {None}, NEW loan \in LoanType, NEW tier \in Tiers \cup {None},
         NEW e, e.type \in LoanEvents, Reports(e),
         loan.credit <=> tier # None,
         Life(row) = Shown(loan, tier), ApplyToLoan(loan, e).ok
  PROVE  Life(Summarised(RowOr(row), e)) = Shown(ApplyToLoan(loan, e), TierAfter(tier, e))
<1> DEFINE sum == Summarised(RowOr(row), e)
           new == ApplyToLoan(loan, e)
<1>1. Took(loan, e) /\ new = [Accepted(loan, e) EXCEPT !.version = loan.version + 1]
  BY ApplyFacts DEF ApplyToLoan, Took
<1>2. PICK r : r = RowOr(row)
  OBVIOUS
<1>3. /\ r \in Row
      /\ r.state = Shown(loan, tier).state /\ r.tier = tier /\ r.fraud = loan.fraud
  <2>1. Shown(loan, tier).tier = tier /\ Shown(loan, tier).fraud = loan.fraud
    BY DEF Shown
  <2> QED
    BY <1>2, <2>1, LifeOfRow
<1>4. PICK s : s = Scored(r, e)
  OBVIOUS
<1>5. PICK t : t = TierAfter(tier, e)
  OBVIOUS
<1>6. /\ s.state = r.state /\ s.tier = t
      /\ s.fraud <=> (loan.fraud \/ e.type = "FraudScreeningCompleted")
  <2>1. r \in Row
    BY <1>3
  <2> QED
    BY <1>3, <1>4, <1>5, <2>1, ScoredType
<1>7. /\ sum \in Row /\ sum.state = StateAfter(s, e) /\ sum.tier = t
      /\ sum.fraud <=> (loan.fraud \/ e.type = "FraudScreeningCompleted")
  <2>1. r \in Row
    BY <1>3
  <2> QED
    BY <1>2, <1>3, <1>4, <1>5, <2>1, SummarisedType
<1>8. /\ new.state = Accepted(loan, e).state
      /\ new.fraud = Accepted(loan, e).fraud
  <2>1. Accepted(loan, e) \in LoanType
    BY AcceptedType
  <2> QED
    BY <1>1, <2>1 DEF LoanType
<1> HIDE DEF sum, new
<1>9. sum.state = Shown(new, t).state /\ (sum.fraud <=> new.fraud)
  <2>1. CASE e.type = "ApplicationSubmitted"
    BY <1>1, <1>3, <1>6, <1>7, <1>8, <2>1 DEF Took, Accepts, Accepted, LoanType, StateAfter, Shown
  <2>2. CASE e.type = "CreditAnalysisRequested"
    BY <1>1, <1>3, <1>6, <1>7, <1>8, <2>2 DEF Took, Accepts, Accepted, LoanType, StateAfter, Shown
  <2>3. CASE e.type = "FraudScreeningCompleted"
    <3>1. /\ loan.state = "AWAITING_ANALYSIS"
          /\ new.state = IF loan.credit THEN "ANALYSIS_COMPLETE" ELSE "AWAITING_ANALYSIS"
          /\ new.fraud
      BY <1>1, <1>8, <2>3 DEF Took, Accepts, Accepted, AnalysisState, LoanType
    <3>2. t = tier
      BY <1>5, <2>3 DEF TierAfter
    <3>3. s.fraud /\ s.tier = tier /\ s.state = "AWAITING_ANALYSIS" /\ sum.fraud
      BY <1>3, <1>6, <1>7, <2>3, <3>1, <3>2 DEF Shown
    <3>4. sum.state = IF tier \notin {None, ""} THEN "ANALYSIS_COMPLETE" ELSE "AWAITING_ANALYSIS"
      BY <1>7, <2>3, <3>3 DEF StateAfter, BothScores
    <3> QED
      BY <3>1, <3>2, <3>3, <3>4 DEF Shown
  <2>4. CASE e.type = "CreditAnalysisCompleted"
    <3>1. /\ loan.state = "AWAITING_ANALYSIS"
          /\ new.state = IF loan.fraud THEN "ANALYSIS_COMPLETE" ELSE "AWAITING_ANALYSIS"
          /\ new.fraud <=> loan.fraud
      BY <1>1, <1>8, <2>4 DEF Took, Accepts, Accepted, AnalysisState, LoanType
    <3>2. t = e.tier /\ t # None
      BY <1>5, <2>4, NoneAssumption DEF TierAfter, Reports
    <3>3. /\ s.fraud <=> loan.fraud
          /\ s.tier = t /\ s.state = "AWAITING_ANALYSIS"
          /\ sum.fraud <=> loan.fraud
      BY <1>3, <1>6, <1>7, <2>4, <3>1 DEF Shown
    <3>4. sum.state = IF loan.fraud /\ t # "" THEN "ANALYSIS_COMPLETE" ELSE "AWAITING_ANALYSIS"
      BY <1>7, <2>4, <3>2, <3>3 DEF StateAfter, BothScores
    <3> QED
      BY <3>1, <3>3, <3>4 DEF Shown
  <2>5. CASE e.type = "ComplianceReviewStarted"
    BY <1>1, <1>3, <1>6, <1>7, <1>8, <2>5 DEF Took, Accepts, Accepted, LoanType, StateAfter, Shown
  <2>6. CASE e.type = "DecisionGenerated"
    BY <1>1, <1>3, <1>6, <1>7, <1>8, <2>6 DEF Took, Accepts, Accepted, LoanType, StateAfter, Shown
  <2>7. CASE e.type = "HumanReviewRequested"
    BY <1>1, <1>3, <1>6, <1>7, <1>8, <2>7 DEF Took, Accepts, Accepted, LoanType, StateAfter, Shown
  <2>8. CASE e.type = "HumanReviewCompleted"
    BY <1>1, <1>3, <1>6, <1>7, <1>8, <2>8 DEF Took, Accepts, Accepted, LoanType, StateAfter, Shown
  <2>9. CASE e.type = "ApplicationApproved"
    BY <1>1, <1>3, <1>6, <1>7, <1>8, <2>9 DEF Took, Accepts, Accepted, LoanType, StateAfter, Shown
  <2> QED
    BY <2>1, <2>2, <2>3, <2>4, <2>5, <2>6, <2>7, <2>8, <2>9 DEF LoanEvents
<1>10. Life(sum) = [state |-> sum.state, tier |-> sum.tier, fraud |-> sum.fraud]
  BY <1>7, NoneAssumption DEF Life
<1>11. sum.fraud = new.fraud
  <2>1. new \in LoanType
    BY ApplyFacts DEF new
  <2> QED
    BY <1>7, <1>9, <2>1 DEF Row, LoanType
<1> QED
  BY <1>5, <1>7, <1>9, <1>10, <1>11 DEF Shown, sum, new

(* One event more: the last tier is its own, or the one before.              *)
LEMMA LastTierAppend ==
  ASSUME NEW q, q \in Seq(Range(q)), NEW e
  PROVE  LastTier(Append(q, e)) = TierAfter(LastTier(q), e)
<1> DEFINE a == Append(q, e)
           R == OfType(q, "CreditAnalysisCompleted")
           Z == OfType(a, "CreditAnalysisCompleted")
<1>1. /\ Len(q) \in Nat /\ DOMAIN q = 1..Len(q)
      /\ \A i \in 1..Len(q) : a[i] = q[i]
      /\ a[Len(q) + 1] = e
  BY AppendFacts
<1>2. R \subseteq 1..Len(q)
  BY <1>1 DEF OfType
<1>3. Z = IF e.type = "CreditAnalysisCompleted" THEN R \cup {Len(q) + 1} ELSE R
  BY OfTypeAppend
<1> HIDE DEF R, Z, a
<1>4. LastTier(a) = IF Z = {} THEN None ELSE a[CHOOSE i \in Z : \A j \in Z : j <= i].tier
  BY DEF LastTier, Z
<1>5. LastTier(q) = IF R = {} THEN None ELSE q[CHOOSE i \in R : \A j \in R : j <= i].tier
  BY DEF LastTier, R
<1>6. CASE e.type = "CreditAnalysisCompleted"
  <2>1. Z = R \cup {Len(q) + 1}
    BY <1>3, <1>6
  <2>2. PICK c : c = CHOOSE i \in Z : \A j \in Z : j <= i
    OBVIOUS
  <2>3. Len(q) + 1 \in Z /\ \A j \in Z : j <= Len(q) + 1
    BY <1>1, <1>2, <2>1
  <2>4. c \in Z /\ \A j \in Z : j <= c
    BY <2>2, <2>3
  <2>5. c = Len(q) + 1
    BY <1>1, <1>2, <2>1, <2>3, <2>4
  <2> QED
    BY <1>1, <1>4, <1>6, <2>2, <2>3, <2>5 DEF a, TierAfter
<1>7. CASE e.type # "CreditAnalysisCompleted"
  <2>1. Z = R
    BY <1>3, <1>7
  <2>2. CASE R # {}
    <3>1. PICK c : c = CHOOSE i \in R : \A j \in R : j <= i
      OBVIOUS
    <3>2. Max(R) \in R /\ \A y \in R : Max(R) >= y
      BY <1>1, <1>2, <2>2, MaxOfBounded
    <3>3. \A j \in R : j <= Max(R)
      BY <1>1, <1>2, <3>2
    <3>4. c \in R
      BY <3>1, <3>2, <3>3
    <3> QED
      BY <1>1, <1>2, <1>4, <1>5, <1>7, <2>1, <2>2, <3>1, <3>4 DEF a, TierAfter
  <2> QED
    BY <1>4, <1>5, <1>7, <2>1, <2>2 DEF a, TierAfter
<1> QED
  BY <1>6, <1>7

(* A stream has a last tier when it has a credit analysis.                   *)
LEMMA LastTierFacts ==
  ASSUME NEW q, q \in Seq(Range(q)), \A i \in DOMAIN q : Reports(q[i])
  PROVE  /\ LastTier(q) \in Tiers \cup {None}
         /\ LastTier(q) # None <=> OfType(q, "CreditAnalysisCompleted") # {}
<1> DEFINE R == OfType(q, "CreditAnalysisCompleted")
<1>1. LastTier(q) = IF R = {} THEN None ELSE q[CHOOSE i \in R : \A j \in R : j <= i].tier
  BY DEF LastTier
<1>2. Len(q) \in Nat /\ R \subseteq 1..Len(q)
  BY AppendFacts DEF OfType
<1>3. \A i \in R : q[i].tier \in Tiers
  BY DEF OfType, Reports
<1> HIDE DEF R
<1>4. CASE R # {}
  <2>1. PICK c : c = CHOOSE i \in R : \A j \in R : j <= i
    OBVIOUS
  <2>2. Max(R) \in R /\ \A y \in R : Max(R) >= y
    BY <1>2, <1>4, MaxOfBounded
  <2>3. \A j \in R : j <= Max(R)
    BY <1>2, <2>2
  <2>4. c \in R
    BY <2>1, <2>2, <2>3
  <2> QED
    BY <1>1, <1>3, <1>4, <2>1, <2>4, NoneAssumption DEF R
<1> QED
  BY <1>1, <1>4 DEF R
-------------------------------------------------------------------------------
(* The compliance stream *)

LEMMA RequiredAppend ==
  ASSUME NEW q, q \in Seq(Range(q)), NEW e
  PROVE  Required(Append(q, e)) =
           IF e.type = "ComplianceCheckRequested" THEN e.required ELSE Required(q)
<1> DEFINE a == Append(q, e)
           R == OfType(q, "ComplianceCheckRequested")
           Z == OfType(a, "ComplianceCheckRequested")
<1>1. /\ Len(q) \in Nat /\ DOMAIN q = 1..Len(q)
      /\ \A i \in 1..Len(q) : a[i] = q[i]
      /\ a[Len(q) + 1] = e
  BY AppendFacts
<1>2. R \subseteq 1..Len(q)
  BY <1>1 DEF OfType
<1>3. Z = IF e.type = "ComplianceCheckRequested" THEN R \cup {Len(q) + 1} ELSE R
  BY OfTypeAppend
<1> HIDE DEF R, Z, a
<1>4. Required(a) = IF Z = {} THEN {} ELSE a[CHOOSE i \in Z : \A j \in Z : j <= i].required
  BY DEF Required, Z
<1>5. Required(q) = IF R = {} THEN {} ELSE q[CHOOSE i \in R : \A j \in R : j <= i].required
  BY DEF Required, R
<1>6. CASE e.type = "ComplianceCheckRequested"
  <2>1. Z = R \cup {Len(q) + 1}
    BY <1>3, <1>6
  <2>2. PICK c : c = CHOOSE i \in Z : \A j \in Z : j <= i
    OBVIOUS
  <2>3. Len(q) + 1 \in Z /\ \A j \in Z : j <= Len(q) + 1
    BY <1>1, <1>2, <2>1
  <2>4. c \in Z /\ \A j \in Z : j <= c
    BY <2>2, <2>3
  <2>5. c = Len(q) + 1
    BY <1>1, <1>2, <2>1, <2>3, <2>4
  <2> QED
    BY <1>1, <1>4, <1>6, <2>2, <2>3, <2>5 DEF a
<1>7. CASE e.type # "ComplianceCheckRequested"
  <2>1. Z = R
    BY <1>3, <1>7
  <2>2. CASE R # {}
    <3>1. PICK c : c = CHOOSE i \in R : \A j \in R : j <= i
      OBVIOUS
    <3>2. Max(R) \in R /\ \A y \in R : Max(R) >= y
      BY <1>1, <1>2, <2>2, MaxOfBounded
    <3>3. \A j \in R : j <= Max(R)
      BY <1>1, <1>2, <3>2
    <3>4. c \in R
      BY <3>1, <3>2, <3>3
    <3> QED
      BY <1>1, <1>2, <1>4, <1>5, <1>7, <2>1, <2>2, <3>1, <3>4 DEF a
  <2> QED
    BY <1>4, <1>5, <1>7, <2>1, <2>2 DEF a
<1> QED
  BY <1>6, <1>7

LEMMA PassedAppend ==
  ASSUME NEW q, q \in Seq(Range(q)), NEW e
  PROVE  Passed(Append(q, e)) =
           IF e.type = "ComplianceRulePassed" THEN Passed(q) \cup {e.rule} ELSE Passed(q)
<1> DEFINE a == Append(q, e)
           R == OfType(q, "ComplianceRulePassed")
           Z == OfType(a, "ComplianceRulePassed")
<1>1. /\ Len(q) \in Nat /\ DOMAIN q = 1..Len(q)
      /\ \A i \in 1..Len(q) : a[i] = q[i]
      /\ a[Len(q) + 1] = e
  BY AppendFacts
<1>2. R \subseteq 1..Len(q)
  BY <1>1 DEF OfType
<1>3. Z = IF e.type = "ComplianceRulePassed" THEN R \cup {Len(q) + 1} ELSE R
  BY OfTypeAppend
<1> HIDE DEF R, Z, a
<1>4. Passed(a) = {a[i].rule : i \in Z} /\ Passed(q) = {q[i].rule : i \in R}
  BY DEF Passed, Z, R
<1>5. \A i \in R : a[i] = q[i]
  BY <1>1, <1>2
<1>6. {a[i].rule : i \in R} = Passed(q)
  BY <1>4, <1>5
<1>7. CASE e.type = "ComplianceRulePassed"
  <2>1. Z = R \cup {Len(q) + 1}
    BY <1>3, <1>7
  <2>2. {a[i].rule : i \in Z} = {a[i].rule : i \in R} \cup {a[Len(q) + 1].rule}
    BY <2>1
  <2> QED
    BY <1>1, <1>4, <1>6, <1>7, <2>2 DEF a
<1>8. CASE e.type # "ComplianceRulePassed"
  BY <1>3, <1>4, <1>6, <1>8 DEF a
<1> QED
  BY <1>7, <1>8

LEMMA AuditedFacts ==
  ASSUME NEW state \in Snapshot, NEW e, e.stream = "compliance", IsEvent(e)
  PROVE  /\ Audited(state, e) \in Snapshot
         /\ Audited(state, e).required =
              IF e.type = "ComplianceCheckRequested" THEN e.required ELSE state.required
         /\ Audited(state, e).passed =
              IF e.type = "ComplianceRulePassed" THEN state.passed \cup {e.rule} ELSE state.passed
  BY DEF Audited, Snapshot, IsEvent
-------------------------------------------------------------------------------
(* The invariant *)

Steps == {"idle", "select", "upsert", "commit"}

Entry == [gp : Nat, state : Snapshot]

(* The events whose effects the transaction of p has seen. *)
Position(p) ==
  CASE pc[p] = "idle" -> checkpoint[p]
    [] pc[p] = "commit" -> next[p]
    [] OTHER -> next[p] - 1

TypeInv ==
  /\ summary \in [Apps -> Row \cup {None}]
  /\ timeline \in [Apps -> Seq(Entry)]
  /\ snapshots \in [Apps -> Seq(Entry)]
  /\ checkpoint \in [Projections -> Nat]
  /\ dead \in [Projections -> SUBSET Nat]
  /\ pc \in [Projections -> Steps]
  /\ upto \in [Projections -> Nat]
  /\ next \in [Projections -> Nat]
  /\ attempts \in [Projections -> 0..MaxRetries]
  /\ seen = [p \in Projections |-> seen[p]]
  /\ rows \in [Projections -> [Apps -> Row \cup {None}]]
  /\ buried \in [Projections -> SUBSET Nat]
  /\ crashes \in 0..MaxCrashes

(* A batch goes through the events above the checkpoint of its projection.   *)
Batch(p) ==
  /\ checkpoint[p] <= Len(log)
  /\ pc[p] # "idle" => checkpoint[p] < next[p] /\ next[p] <= upto[p] /\ upto[p] <= Len(log)
  /\ pc[p] = "commit" => next[p] = upto[p]
  /\ pc[p] = "idle" => rows[p] = NoRows /\ buried[p] = {}
  /\ pc[p] = "upsert" => Current(p).stream = StreamOf(p)
  /\ dead[p] \subseteq 1..checkpoint[p]
  /\ buried[p] \subseteq 1..Position(p)

BatchInv == \A p \in Projections : Batch(p)

(* The row locks, and what keeps the two halves of a row apart: neither      *)
(* transaction has changed the columns of the other.                         *)
RowInv ==
  \A a \in Apps :
    /\ rows[AS][a] = None \/ rows[CV][a] = None
    /\ rows[AS][a] # None => StatusOf(rows[AS][a]) = StatusOf(summary[a])
    /\ rows[CV][a] # None => Life(rows[CV][a]) = Life(summary[a])
    /\ rows[CV][a] = None <=> snapshots[a] = <<>>
    /\ rows[CV][a] # None => rows[CV][a].status = OverallStatus(Last(snapshots[a]).state)
    /\ StatusOf(summary[a]) =
         IF timeline[a] = <<>> THEN "UNKNOWN" ELSE OverallStatus(Last(timeline[a]).state)

(* What a SELECT without a lock returned is out of date only in columns that *)
(* the upsert does not take from it.                                         *)
SeenLoan ==
  pc[AS] = "upsert" =>
    LET row == Stored(AS, Current(AS).app)
    IN /\ seen[AS] \in Row
       /\ Life(seen[AS]) = Life(Summarised(RowOr(row), Current(AS)))
       /\ row = None => seen[AS].status = "UNKNOWN"

SeenChecks ==
  pc[CV] = "upsert" =>
    LET a == Current(CV).app
    IN seen[CV] = Audited(Latest(timeline[a] \o snapshots[a]), Current(CV))

(* No event of the application was dead-lettered, by p and so far. *)
Unburied(p, a) == \A g \in dead[p] \cup buried[p] : log[g].app # a

LoanAt(events, a, n) ==
  Shown(LoanOf(EventsIn(events, a, "loan", n)), LastTier(EventsIn(events, a, "loan", n)))

LifeInv ==
  \A a \in Apps :
    /\ Untroubled(AS, a) => Life(summary[a]) = LoanAt(log, a, checkpoint[AS])
    /\ Unburied(AS, a) => Life(Stored(AS, a)) = LoanAt(log, a, Position(AS))

(* The state of a snapshot has the checks of the compliance stream. *)
Tells(state, events, a, n) ==
  /\ state.required = Required(EventsIn(events, a, "compliance", n))
  /\ state.passed = Passed(EventsIn(events, a, "compliance", n))

ChecksInv ==
  \A a \in Apps :
    /\ \A i \in DOMAIN timeline[a] : timeline[a][i].gp <= checkpoint[CV]
    /\ \A i \in DOMAIN snapshots[a] : snapshots[a][i].gp <= Position(CV)
    /\ Untroubled(CV, a) =>
         /\ Tells(Latest(timeline[a]), log, a, checkpoint[CV])
         /\ \A i \in DOMAIN timeline[a] : Tells(timeline[a][i].state, log, a, timeline[a][i].gp)
    /\ Unburied(CV, a) =>
         /\ Tells(Latest(timeline[a] \o snapshots[a]), log, a, Position(CV))
         /\ \A i \in DOMAIN snapshots[a] : Tells(snapshots[a][i].state, log, a, snapshots[a][i].gp)

ReadInv ==
  /\ IsLog(log)
  /\ TypeInv
  /\ BatchInv
  /\ RowInv
  /\ SeenLoan
  /\ SeenChecks
  /\ LifeInv
  /\ ChecksInv
-------------------------------------------------------------------------------
(* Facts *)

LEMMA ProjectionFacts ==
  /\ Projections = {AS, CV} /\ AS # CV
  /\ Rival(AS) = CV /\ Rival(CV) = AS
  /\ StreamOf(AS) = "loan" /\ StreamOf(CV) = "compliance"
<1>1. Projections = {AS, CV} /\ AS # CV /\ StreamOf(AS) = "loan" /\ StreamOf(CV) = "compliance"
  BY DEF Projections, AS, CV, StreamOf
<1>2. Rival(AS) = CV
  <2>1. \A q \in Projections : q # AS <=> q = CV
    BY <1>1
  <2> QED
    BY <1>1, <2>1 DEF Rival
<1>3. Rival(CV) = AS
  <2>1. \A q \in Projections : q # CV <=> q = AS
    BY <1>1
  <2> QED
    BY <1>1, <2>1 DEF Rival
<1> QED
  BY <1>1, <1>2, <1>3

LEMMA LogLength == ASSUME IsLog(log) PROVE Len(log) \in Nat /\ DOMAIN log = 1..Len(log)
  BY LenProperties DEF IsLog

LEMMA PositionFacts ==
  ASSUME IsLog(log), TypeInv, NEW p \in Projections, Batch(p)
  PROVE  /\ Position(p) \in Nat /\ Position(p) <= Len(log)
         /\ checkpoint[p] \in Nat /\ checkpoint[p] <= Position(p)
         /\ pc[p] = "idle" => Position(p) = checkpoint[p]
         /\ pc[p] = "commit" => Position(p) = next[p] /\ Position(p) = upto[p]
         /\ pc[p] \in {"select", "upsert"} =>
              /\ Position(p) = next[p] - 1 /\ next[p] = Position(p) + 1
              /\ next[p] \in 1..Len(log)
              /\ IsEvent(Current(p)) /\ Current(p).app \in Apps
<1>1. Len(log) \in Nat /\ DOMAIN log = 1..Len(log)
  BY LogLength
<1>2. checkpoint[p] \in Nat /\ next[p] \in Nat /\ upto[p] \in Nat /\ pc[p] \in Steps
  BY DEF TypeInv
<1>3. CASE pc[p] = "idle"
  BY <1>1, <1>2, <1>3 DEF Batch, Position
<1>4. CASE pc[p] = "commit"
  BY <1>1, <1>2, <1>4 DEF Batch, Position
<1>5. CASE pc[p] \in {"select", "upsert"}
  <2>1. /\ Position(p) = next[p] - 1 /\ next[p] \in 1..Len(log)
        /\ checkpoint[p] <= next[p] - 1
    BY <1>1, <1>2, <1>5 DEF Batch, Position
  <2>2. IsEvent(Current(p)) /\ Current(p).app \in Apps
    BY <1>1, <2>1 DEF IsLog, IsEvent, Current
  <2> QED
    BY <1>1, <1>2, <1>5, <2>1, <2>2
<1> QED
  BY <1>2, <1>3, <1>4, <1>5 DEF Steps

LEMMA LatestFacts ==
  /\ \A t \in Seq(Entry) : /\ t # <<>> => Last(t) \in Entry /\ Latest(t) = Last(t).state
                           /\ Latest(t) \in Snapshot
                           /\ t \o <<>> = t
  /\ \A t, s \in Seq(Entry) : /\ t \o s \in Seq(Entry)
                              /\ s # <<>> => t \o s # <<>> /\ Last(t \o s) = Last(s)
                              /\ DOMAIN t = 1..Len(t) /\ DOMAIN s = 1..Len(s)
                              /\ \A i \in DOMAIN (t \o s) :
                                   \/ i \in DOMAIN t /\ (t \o s)[i] = t[i]
                                   \/ i - Len(t) \in DOMAIN s /\ (t \o s)[i] = s[i - Len(t)]
  /\ \A s \in Seq(Entry), e \in Entry : /\ Append(s, e) \in Seq(Entry)
                                        /\ Append(s, e) # <<>> /\ Last(Append(s, e)) = e
                                        /\ \A i \in DOMAIN Append(s, e) :
                                             \/ i \in DOMAIN s /\ Append(s, e)[i] = s[i]
                                             \/ Append(s, e)[i] = e
<1>1. NewSnapshot \in Snapshot
  BY DEF NewSnapshot, Snapshot
<1>2. ASSUME NEW t \in Seq(Entry)
      PROVE  /\ t # <<>> => Last(t) \in Entry /\ Latest(t) = Last(t).state
             /\ Latest(t) \in Snapshot
             /\ t \o <<>> = t
  <2>1. t # <<>> => Last(t) \in Entry
    BY DEF Last
  <2>2. Latest(t) = IF t = <<>> THEN NewSnapshot ELSE Last(t).state
    BY DEF Latest
  <2>3. t \o <<>> = t
    OBVIOUS
  <2> QED
    BY <1>1, <2>1, <2>2, <2>3 DEF Entry
<1>3. ASSUME NEW t \in Seq(Entry), NEW s \in Seq(Entry)
      PROVE  /\ t \o s \in Seq(Entry)
             /\ s # <<>> => t \o s # <<>> /\ Last(t \o s) = Last(s)
             /\ DOMAIN t = 1..Len(t) /\ DOMAIN s = 1..Len(s)
             /\ \A i \in DOMAIN (t \o s) :
                  \/ i \in DOMAIN t /\ (t \o s)[i] = t[i]
                  \/ i - Len(t) \in DOMAIN s /\ (t \o s)[i] = s[i - Len(t)]
  <2> HIDE DEF Entry
  <2>1. /\ t \o s \in Seq(Entry) /\ Len(t \o s) = Len(t) + Len(s)
        /\ \A i \in 1..(Len(t) + Len(s)) :
             (t \o s)[i] = IF i <= Len(t) THEN t[i] ELSE s[i - Len(t)]
        /\ Len(t) \in Nat /\ Len(s) \in Nat
        /\ DOMAIN t = 1..Len(t) /\ DOMAIN s = 1..Len(s)
        /\ DOMAIN (t \o s) = 1..(Len(t) + Len(s))
    BY ConcatProperties, LenProperties
  <2>2. ASSUME s # <<>> PROVE t \o s # <<>> /\ Last(t \o s) = Last(s)
    <3>1. Len(s) # 0
      BY <2>2, EmptySeq
    <3>2. Len(t \o s) \in 1..(Len(t) + Len(s)) /\ ~ (Len(t \o s) <= Len(t))
          /\ Len(t \o s) - Len(t) = Len(s)
      BY <2>1, <3>1
    <3> QED
      BY <2>1, <3>1, <3>2, EmptySeq DEF Last
  <2> QED
    BY <2>1, <2>2
<1>4. ASSUME NEW s \in Seq(Entry), NEW e \in Entry
      PROVE  /\ Append(s, e) \in Seq(Entry)
             /\ Append(s, e) # <<>> /\ Last(Append(s, e)) = e
             /\ \A i \in DOMAIN Append(s, e) :
                  \/ i \in DOMAIN s /\ Append(s, e)[i] = s[i]
                  \/ Append(s, e)[i] = e
  <2> HIDE DEF Entry
  <2>1. /\ Append(s, e) \in Seq(Entry) /\ Append(s, e) # <<>>
        /\ Len(Append(s, e)) = Len(s) + 1
        /\ \A i \in 1..Len(s) : Append(s, e)[i] = s[i]
        /\ Append(s, e)[Len(s) + 1] = e
        /\ Len(s) \in Nat /\ DOMAIN s = 1..Len(s)
    BY AppendProperties, LenProperties, EmptySeq
  <2>2. DOMAIN Append(s, e) = 1..(Len(s) + 1)
    BY <2>1, LenProperties
  <2>3. Last(Append(s, e)) = e
    BY <2>1 DEF Last
  <2> QED
    BY <2>1, <2>2, <2>3
<1> QED
  BY <1>2, <1>3, <1>4

(* The last of a timeline and of snapshots that follow it is theirs.         *)
LEMMA LatestFollows ==
  ASSUME NEW t \in Seq(Entry), NEW s \in Seq(Entry), s # <<>>
  PROVE  Latest(t \o s) = Last(s).state
<1> HIDE DEF Entry
<1>1. PICK u : u = t \o s
  OBVIOUS
<1>2. u \in Seq(Entry)
  BY <1>1, ConcatProperties
<1>3. u # <<>> /\ Last(u) = Last(s)
  BY <1>1, LatestFacts
<1>4. Latest(u) = Last(u).state
  BY <1>3 DEF Latest
<1> QED
  BY <1>1, <1>3, <1>4

LEMMA InitRead == Init => ReadInv
<1> SUFFICES ASSUME Init PROVE ReadInv
  OBVIOUS
<1>1. IsLog(log)
  BY LogAssumption DEF Init
<1>2. Len(log) \in Nat
  BY <1>1, LogLength
<1>3. TypeInv
  BY BoundAssumption DEF Init, TypeInv, NoRows, NoSnapshots, Steps
<1>4. BatchInv
  BY <1>2, ProjectionFacts DEF Init, BatchInv, Batch, Position
<1>5. \A a \in Apps : /\ summary[a] = None /\ rows[AS][a] = None /\ rows[CV][a] = None
                      /\ snapshots[a] = <<>> /\ timeline[a] = <<>>
  BY ProjectionFacts DEF Init, NoRows, NoSnapshots
<1>6. RowInv
  BY <1>5 DEF RowInv, StatusOf
<1>7. SeenLoan /\ SeenChecks
  BY ProjectionFacts DEF Init, SeenLoan, SeenChecks
<1>8. /\ checkpoint[AS] = 0 /\ checkpoint[CV] = 0 /\ Position(AS) = 0 /\ Position(CV) = 0
  BY ProjectionFacts DEF Init, Position
<1>9. LifeInv
  <2>1. \A a \in Apps : LoanAt(log, a, 0) = [state |-> None, tier |-> None, fraud |-> FALSE]
    <3>1. Shown(NewLoan, None) = [state |-> None, tier |-> None, fraud |-> FALSE]
      BY DEF Shown, NewLoan
    <3>2. \A a \in Apps : /\ LoanOf(EventsIn(log, a, "loan", 0)) = NewLoan
                          /\ LastTier(EventsIn(log, a, "loan", 0)) = None
      BY EventsInNone, LoanOfEmpty DEF LastTier, OfType
    <3> QED
      BY <3>1, <3>2 DEF LoanAt
  <2>2. \A a \in Apps : Life(summary[a]) = [state |-> None, tier |-> None, fraud |-> FALSE]
                        /\ Stored(AS, a) = summary[a]
    BY <1>5 DEF Life, Stored
  <2> QED
    BY <1>8, <2>1, <2>2 DEF LifeInv
<1>10. ChecksInv
  <2>1. Required(<<>>) = {} /\ Passed(<<>>) = {}
    BY DEF Required, Passed, OfType
  <2>2. \A a \in Apps : Tells(NewSnapshot, log, a, 0)
    BY <2>1, EventsInNone DEF Tells, NewSnapshot
  <2>3. \A a \in Apps : /\ Latest(timeline[a]) = NewSnapshot
                        /\ timeline[a] \o snapshots[a] = <<>>
                        /\ Latest(<<>>) = NewSnapshot
                        /\ DOMAIN timeline[a] = {} /\ DOMAIN snapshots[a] = {}
    BY <1>5 DEF Latest
  <2> QED
    BY <1>8, <2>2, <2>3 DEF ChecksInv
<1> QED
  BY <1>1, <1>3, <1>4, <1>6, <1>7, <1>9, <1>10 DEF ReadInv
-------------------------------------------------------------------------------
(* Appends *)

LEMMA AppendStep ==
  ASSUME ReadInv, NEW event \in Catalogue, AppendEvent(event)
  PROVE  ReadInv'
<1> DEFINE same == <<summary, timeline, checkpoint, dead, pc, upto, next, attempts, seen,
                     rows, snapshots, buried, crashes>>
<1>1. /\ log' = Append(log, event) /\ UNCHANGED same
      /\ event.stream = "loan" =>
           LoanOf(Append(EventsUpTo(event.app, "loan", Len(log)), event)).ok
      /\ IsEvent(event)
  BY LogAssumption DEF AppendEvent, transaction
<1>2. /\ IsLog(log) /\ TypeInv /\ BatchInv /\ RowInv /\ SeenLoan /\ SeenChecks
      /\ LifeInv /\ ChecksInv
  BY DEF ReadInv
<1>3. /\ Len(log) \in Nat /\ DOMAIN log = 1..Len(log) /\ log \in Seq(Range(log))
      /\ Len(log') = Len(log) + 1 /\ DOMAIN log' = 1..(Len(log) + 1)
      /\ \A i \in 1..Len(log) : log'[i] = log[i]
      /\ log'[Len(log) + 1] = event
      /\ log' \in Seq(Range(log'))
  <2>1. log \in Seq(Range(log))
    BY <1>2 DEF IsLog
  <2> QED
    BY <1>1, <2>1, AppendFacts
<1>4. \A n \in 0..Len(log) : \A a, stream :
        EventsIn(log', a, stream, n) = EventsIn(log, a, stream, n)
  BY <1>3, EventsInSame DEF SamePrefix
<1>5. IsLog(log)'
  <2>1. \A i \in DOMAIN log' : IsEvent(log'[i])
    BY <1>1, <1>2, <1>3 DEF IsLog
  <2>2. ASSUME NEW a \in Apps, NEW n \in 0..Len(log')
        PROVE  LoanOf(EventsIn(log', a, "loan", n)).ok
    <3>1. CASE n \in 0..Len(log)
      BY <1>2, <1>4, <3>1 DEF IsLog
    <3>2. CASE n = Len(log) + 1
      <4>1. EventsIn(log', a, "loan", n) =
              IF event.app = a /\ event.stream = "loan"
              THEN Append(EventsIn(log, a, "loan", Len(log)), event)
              ELSE EventsIn(log, a, "loan", Len(log))
        <5>1. Len(log) \in 0..Len(log) /\ Len(log) \in Nat
          BY <1>3
        <5>2. EventsIn(log', a, "loan", Len(log)) = EventsIn(log, a, "loan", Len(log))
          BY <1>4, <5>1
        <5>3. EventsIn(log', a, "loan", Len(log) + 1) =
                IF log'[Len(log) + 1].app = a /\ log'[Len(log) + 1].stream = "loan"
                THEN Append(EventsIn(log', a, "loan", Len(log)), log'[Len(log) + 1])
                ELSE EventsIn(log', a, "loan", Len(log))
          BY <5>1, EventsInNext
        <5> QED
          BY <1>3, <3>2, <5>2, <5>3
      <4>2. LoanOf(EventsIn(log, a, "loan", Len(log))).ok
        BY <1>2, <1>3 DEF IsLog
      <4> QED
        BY <1>1, <4>1, <4>2 DEF EventsUpTo
    <3> QED
      BY <1>3, <3>1, <3>2
  <2> QED
    BY <1>3, <2>1, <2>2 DEF IsLog
<1>6. \A p \in Projections :
        /\ Position(p)' = Position(p) /\ Position(p) \in 0..Len(log)
        /\ checkpoint[p] \in 0..Len(log)
        /\ pc[p] = "upsert" => Current(p)' = Current(p)
        /\ \A g \in dead[p] \cup buried[p] : log'[g] = log[g]
  <2> TAKE p \in Projections
  <2>1. Batch(p)
    BY <1>2 DEF BatchInv
  <2>2. Position(p)' = Position(p)
    BY <1>1 DEF Position
  <2>3. /\ Position(p) \in 0..Len(log) /\ checkpoint[p] \in 0..Len(log)
        /\ checkpoint[p] <= Position(p)
        /\ pc[p] = "upsert" => next[p] \in 1..Len(log)
    BY <1>2, <1>3, <2>1, PositionFacts
  <2>4. dead[p] \cup buried[p] \subseteq 1..Len(log)
    BY <1>3, <2>1, <2>3 DEF Batch
  <2> QED
    BY <1>1, <1>3, <2>2, <2>3, <2>4 DEF Current
<1>7. TypeInv'
  BY <1>1, <1>2 DEF TypeInv
<1>8. BatchInv'
  <2> SUFFICES ASSUME NEW p \in Projections PROVE Batch(p)'
    BY DEF BatchInv
  <2>1. Batch(p)
    BY <1>2 DEF BatchInv
  <2>2. upto[p] \in Nat
    BY <1>2 DEF TypeInv
  <2> QED
    BY <1>1, <1>3, <1>6, <2>1, <2>2 DEF Batch
<1>9. RowInv'
  BY <1>1, <1>2 DEF RowInv
<1>10. SeenLoan' /\ SeenChecks'
  BY <1>1, <1>2, <1>6, ProjectionFacts DEF SeenLoan, SeenChecks, Stored
<1>11. LifeInv'
  <2>1. \A a \in Apps : /\ LoanAt(log, a, checkpoint[AS])' = LoanAt(log, a, checkpoint[AS])
                        /\ LoanAt(log, a, Position(AS))' = LoanAt(log, a, Position(AS))
    BY <1>1, <1>4, <1>6, ProjectionFacts DEF LoanAt
  <2>2. \A a \in Apps : /\ Untroubled(AS, a)' <=> Untroubled(AS, a)
                        /\ Unburied(AS, a)' <=> Unburied(AS, a)
    BY <1>1, <1>6, ProjectionFacts DEF Untroubled, Unburied
  <2> QED
    BY <1>1, <1>2, <2>1, <2>2 DEF LifeInv, Stored
<1>12. ChecksInv'
  <2>1. \A a \in Apps : \A n \in 0..Len(log) : \A state :
          Tells(state, log', a, n) <=> Tells(state, log, a, n)
    BY <1>4 DEF Tells
  <2>2. \A a \in Apps : /\ Untroubled(CV, a)' <=> Untroubled(CV, a)
                        /\ Unburied(CV, a)' <=> Unburied(CV, a)
    BY <1>1, <1>6, ProjectionFacts DEF Untroubled, Unburied
  <2>3. /\ checkpoint[CV] \in 0..Len(log) /\ Position(CV) \in 0..Len(log)
        /\ Position(CV)' = Position(CV) /\ checkpoint'[CV] = checkpoint[CV]
    BY <1>1, <1>6, ProjectionFacts
  <2>4. ASSUME NEW a \in Apps
        PROVE  /\ \A i \in DOMAIN timeline[a] : timeline[a][i].gp \in 0..Len(log)
               /\ \A i \in DOMAIN snapshots[a] : snapshots[a][i].gp \in 0..Len(log)
    <3>1. timeline[a] \in Seq(Entry) /\ snapshots[a] \in Seq(Entry)
      BY <1>2 DEF TypeInv
    <3>2. /\ \A i \in DOMAIN timeline[a] : timeline[a][i].gp \in Nat
          /\ \A i \in DOMAIN snapshots[a] : snapshots[a][i].gp \in Nat
      <4>1. \A t \in Seq(Entry) : \A i \in DOMAIN t : t[i] \in Entry
        BY ElementOfSeq, LenProperties
      <4> QED
        BY <3>1, <4>1 DEF Entry
    <3>3. /\ \A i \in DOMAIN timeline[a] : timeline[a][i].gp <= checkpoint[CV]
          /\ \A i \in DOMAIN snapshots[a] : snapshots[a][i].gp <= Position(CV)
      BY <1>2 DEF ChecksInv
    <3> QED
      BY <1>3, <2>3, <3>2, <3>3
  <2>5. timeline' = timeline /\ snapshots' = snapshots
    BY <1>1
  <2> QED
    BY <1>2, <2>1, <2>2, <2>3, <2>4, <2>5 DEF ChecksInv
<1> QED
  BY <1>5, <1>7, <1>8, <1>9, <1>10, <1>11, <1>12 DEF ReadInv
-------------------------------------------------------------------------------
(* Frames *)

LEMMA BatchFrame ==
  ASSUME NEW p \in Projections, Batch(p), log' = log, pc'[p] = pc[p], upto'[p] = upto[p],
         next'[p] = next[p], checkpoint'[p] = checkpoint[p], rows'[p] = rows[p],
         dead'[p] = dead[p], buried'[p] = buried[p]
  PROVE  Batch(p)' /\ Position(p)' = Position(p)
  BY DEF Batch, Position, Current

LEMMA LifeFrame ==
  ASSUME LifeInv, log' = log, checkpoint'[AS] = checkpoint[AS], dead'[AS] = dead[AS],
         buried'[AS] = buried[AS], Position(AS)' = Position(AS),
         \A a \in Apps : /\ Life(summary[a])' = Life(summary[a])
                         /\ Life(Stored(AS, a))' = Life(Stored(AS, a))
  PROVE  LifeInv'
<1>1. ASSUME NEW a \in Apps
      PROVE  /\ LoanAt(log, a, checkpoint[AS])' = LoanAt(log, a, checkpoint[AS])
             /\ LoanAt(log, a, Position(AS))' = LoanAt(log, a, Position(AS))
             /\ Untroubled(AS, a)' <=> Untroubled(AS, a)
             /\ Unburied(AS, a)' <=> Unburied(AS, a)
  BY DEF LoanAt, Untroubled, Unburied
<1> QED
  BY <1>1 DEF LifeInv

LEMMA ChecksFrame ==
  ASSUME ChecksInv, log' = log, checkpoint'[CV] = checkpoint[CV], dead'[CV] = dead[CV],
         buried'[CV] = buried[CV], Position(CV)' = Position(CV),
         timeline' = timeline, snapshots' = snapshots
  PROVE  ChecksInv'
<1>1. ASSUME NEW a \in Apps
      PROVE  /\ Untroubled(CV, a)' <=> Untroubled(CV, a)
             /\ Unburied(CV, a)' <=> Unburied(CV, a)
  BY DEF Untroubled, Unburied
<1> QED
  BY <1>1 DEF ChecksInv, Tells
(* A step of the batch of p leaves the other projection alone. *)
Aside(p) ==
  \A q \in Projections \ {p} :
    /\ pc'[q] = pc[q] /\ upto'[q] = upto[q] /\ next'[q] = next[q] /\ seen'[q] = seen[q]
    /\ checkpoint'[q] = checkpoint[q] /\ rows'[q] = rows[q]
    /\ dead'[q] = dead[q] /\ buried'[q] = buried[q]

(* What a step of the loan batch cannot disturb. *)
LEMMA LoanFrame ==
  ASSUME ReadInv, log' = log, Aside(AS), timeline' = timeline, snapshots' = snapshots
  PROVE  IsLog(log)' /\ Batch(CV)' /\ ChecksInv' /\ SeenChecks'
<1>1. /\ pc'[CV] = pc[CV] /\ upto'[CV] = upto[CV] /\ next'[CV] = next[CV]
      /\ seen'[CV] = seen[CV] /\ checkpoint'[CV] = checkpoint[CV] /\ rows'[CV] = rows[CV]
      /\ dead'[CV] = dead[CV] /\ buried'[CV] = buried[CV]
  BY ProjectionFacts DEF Aside
<1>2. CV \in Projections /\ Batch(CV) /\ IsLog(log) /\ ChecksInv /\ SeenChecks
  BY ProjectionFacts DEF ReadInv, BatchInv
<1>3. Batch(CV)' /\ Position(CV)' = Position(CV)
  BY <1>1, <1>2, BatchFrame
<1>4. ChecksInv'
  BY <1>1, <1>2, <1>3, ChecksFrame
<1>5. SeenChecks'
  BY <1>1, <1>2 DEF SeenChecks, Current
<1>6. IsLog(log)'
  BY <1>2
<1> QED
  BY <1>3, <1>4, <1>5, <1>6

LEMMA SummarisedLife ==
  ASSUME NEW r \in Row \cup {None}, NEW s \in Row \cup {None}, NEW e, Reports(e),
         Life(r) = Life(s)
  PROVE  Life(Summarised(RowOr(r), e)) = Life(Summarised(RowOr(s), e))
<1>1. PICK x, y : x = RowOr(r) /\ y = RowOr(s)
  OBVIOUS
<1>2. x \in Row /\ y \in Row /\ x.state = y.state /\ x.tier = y.tier /\ x.fraud = y.fraud
  BY <1>1, LifeOfRow
<1>3. PICK u, v : u = Summarised(x, e) /\ v = Summarised(y, e)
  OBVIOUS
<1>4. u \in Row /\ v \in Row /\ u.tier = v.tier /\ (u.fraud <=> v.fraud)
  <2>1. u \in Row /\ u.tier = TierAfter(x.tier, e)
        /\ (u.fraud <=> x.fraud \/ e.type = "FraudScreeningCompleted")
    BY <1>2, <1>3, SummarisedType
  <2>2. v \in Row /\ v.tier = TierAfter(y.tier, e)
        /\ (v.fraud <=> y.fraud \/ e.type = "FraudScreeningCompleted")
    BY <1>2, <1>3, SummarisedType
  <2> QED
    BY <1>2, <2>1, <2>2
<1>5. u.state = v.state
  <2>1. PICK p, q : p = Scored(x, e) /\ q = Scored(y, e)
    OBVIOUS
  <2>2. /\ p \in Row /\ p.state = x.state /\ p.tier = TierAfter(x.tier, e)
        /\ p.fraud <=> x.fraud \/ e.type = "FraudScreeningCompleted"
    BY <1>2, <2>1, ScoredType
  <2>3. /\ q \in Row /\ q.state = y.state /\ q.tier = TierAfter(y.tier, e)
        /\ q.fraud <=> y.fraud \/ e.type = "FraudScreeningCompleted"
    BY <1>2, <2>1, ScoredType
  <2>4. p.state = q.state /\ p.tier = q.tier /\ (p.fraud <=> q.fraud)
    BY <1>2, <2>2, <2>3
  <2>5. StateAfter(p, e) = StateAfter(q, e)
    BY <2>4 DEF StateAfter, BothScores
  <2>6. u.state = StateAfter(p, e) /\ v.state = StateAfter(q, e)
    BY <1>2, <1>3, <2>1, SummarisedType
  <2> QED
    BY <2>5, <2>6
<1>6. u.fraud = v.fraud
  BY <1>4 DEF Row
<1>7. Life(u) = Life(v)
  BY <1>4, <1>5, <1>6, NoneAssumption DEF Life
<1> QED
  BY <1>1, <1>3, <1>7

(* What a step of the compliance batch cannot disturb. *)
LEMMA ChecksStepFrame ==
  ASSUME ReadInv, TypeInv', log' = log, Aside(CV),
         \A a \in Apps : /\ Life(summary[a])' = Life(summary[a])
                         /\ Life(Stored(AS, a))' = Life(Stored(AS, a))
                         /\ Stored(AS, a)' = None => Stored(AS, a) = None
  PROVE  IsLog(log)' /\ Batch(AS)' /\ LifeInv' /\ SeenLoan'
<1>1. /\ pc'[AS] = pc[AS] /\ upto'[AS] = upto[AS] /\ next'[AS] = next[AS]
      /\ seen'[AS] = seen[AS] /\ checkpoint'[AS] = checkpoint[AS] /\ rows'[AS] = rows[AS]
      /\ dead'[AS] = dead[AS] /\ buried'[AS] = buried[AS]
  BY ProjectionFacts DEF Aside
<1>2. AS \in Projections /\ Batch(AS) /\ IsLog(log) /\ TypeInv /\ LifeInv /\ SeenLoan
  BY ProjectionFacts DEF ReadInv, BatchInv
<1>3. Batch(AS)' /\ Position(AS)' = Position(AS)
  BY <1>1, <1>2, BatchFrame
<1>4. LifeInv'
  BY <1>1, <1>2, <1>3, LifeFrame
<1>5. SeenLoan'
  <2> SUFFICES ASSUME pc[AS] = "upsert" PROVE SeenLoan'
    BY <1>1 DEF SeenLoan
  <2>1. PICK a, e : e = Current(AS) /\ a = e.app
    OBVIOUS
  <2>2. a \in Apps
    BY <1>2, <2>1, PositionFacts
  <2>3. Stored(AS, a) \in Row \cup {None} /\ Stored(AS, a)' \in Row \cup {None}
    BY <1>2, <2>2 DEF TypeInv, Stored
  <2>4. PICK r, s : r = Stored(AS, a)' /\ s = Stored(AS, a)
    OBVIOUS
  <2>5. r \in Row \cup {None} /\ s \in Row \cup {None} /\ Life(r) = Life(s) /\ (r = None => s = None)
    BY <2>2, <2>3, <2>4
  <2>6. Life(Summarised(RowOr(r), e)) = Life(Summarised(RowOr(s), e))
    <3>1. IsEvent(e) /\ e.stream = "loan"
      BY <1>2, <2>1, PositionFacts, ProjectionFacts DEF Batch
    <3>2. Reports(e)
      BY <3>1, LoanEventReports
    <3> QED
      BY <2>5, <3>2, SummarisedLife
  <2>7. /\ seen[AS] \in Row
        /\ Life(seen[AS]) = Life(Summarised(RowOr(s), e))
        /\ s = None => seen[AS].status = "UNKNOWN"
    BY <1>2, <2>1, <2>4 DEF SeenLoan
  <2>8. Current(AS)' = e
    BY <1>1, <2>1 DEF Current
  <2>9. Stored(AS, Current(AS).app)' = r
    BY <2>1, <2>4, <2>8 DEF Stored
  <2>10. /\ seen'[AS] \in Row
         /\ Life(seen'[AS]) = Life(Summarised(RowOr(r), e))
         /\ r = None => seen'[AS].status = "UNKNOWN"
    BY <1>1, <2>5, <2>6, <2>7
  <2> QED
    BY <2>8, <2>9, <2>10 DEF SeenLoan
<1>6. IsLog(log)'
  BY <1>2
<1> QED
  BY <1>3, <1>4, <1>5, <1>6
-------------------------------------------------------------------------------
(* One event further *)

LEMMA PassStep ==
  ASSUME IsLog(log), TypeInv, NEW p \in Projections, Batch(p), pc[p] \in {"select", "upsert"},
         Pass(p), log' = log, upto' = upto, checkpoint' = checkpoint
  PROVE  /\ pc' \in [Projections -> Steps] /\ next' \in [Projections -> Nat]
         /\ attempts' \in [Projections -> 0..MaxRetries]
         /\ seen' = [q \in Projections |-> seen'[q]]
         /\ Position(p)' = Position(p) + 1 /\ next[p] = Position(p) + 1
         /\ pc'[p] \in {"select", "commit"}
         /\ checkpoint'[p] < next'[p] /\ next'[p] <= upto'[p] /\ upto'[p] <= Len(log')
         /\ pc'[p] = "commit" => next'[p] = upto'[p]
         /\ \A q \in Projections \ {p} :
              pc'[q] = pc[q] /\ next'[q] = next[q] /\ seen'[q] = seen[q]
<1>1. /\ next[p] \in Nat /\ upto[p] \in Nat /\ checkpoint[p] \in Nat /\ Len(log) \in Nat
      /\ checkpoint[p] < next[p] /\ next[p] <= upto[p] /\ upto[p] <= Len(log)
  BY LogLength DEF TypeInv, Batch
<1>2. /\ attempts' = [attempts EXCEPT ![p] = 0] /\ seen' = [seen EXCEPT ![p] = None]
      /\ IF next[p] = upto[p]
         THEN pc' = [pc EXCEPT ![p] = "commit"] /\ next' = next
         ELSE pc' = [pc EXCEPT ![p] = "select"] /\ next' = [next EXCEPT ![p] = @ + 1]
  BY DEF Pass, Goto
<1>3. attempts' \in [Projections -> 0..MaxRetries] /\ seen' = [q \in Projections |-> seen'[q]]
  <2>1. 0 \in 0..MaxRetries
    BY BoundAssumption
  <2>2. attempts' \in [Projections -> 0..MaxRetries]
    BY <1>2, <2>1 DEF TypeInv
  <2>3. DOMAIN seen = Projections
    BY DEF TypeInv
  <2>4. seen' = [q \in Projections |-> IF q = p THEN None ELSE seen[q]]
    BY <1>2, <2>3
  <2> QED
    BY <2>2, <2>4
<1>4. Position(p) = next[p] - 1
  BY DEF Position
<1>5. CASE next[p] = upto[p]
  <2>1. pc' = [pc EXCEPT ![p] = "commit"] /\ next' = next
    BY <1>2, <1>5
  <2>2. pc' \in [Projections -> Steps] /\ pc'[p] = "commit" /\ next'[p] = next[p]
        /\ \A q \in Projections \ {p} : pc'[q] = pc[q]
    BY <2>1 DEF TypeInv, Steps
  <2>3. Position(p)' = next[p]
    BY <2>2 DEF Position
  <2> QED
    BY <1>1, <1>2, <1>3, <1>4, <1>5, <2>1, <2>2, <2>3 DEF TypeInv
<1>6. CASE next[p] # upto[p]
  <2>1. pc' = [pc EXCEPT ![p] = "select"] /\ next' = [next EXCEPT ![p] = @ + 1]
    BY <1>2, <1>6
  <2>2. pc' \in [Projections -> Steps] /\ pc'[p] = "select" /\ next'[p] = next[p] + 1
        /\ next' \in [Projections -> Nat]
        /\ \A q \in Projections \ {p} : pc'[q] = pc[q] /\ next'[q] = next[q]
    BY <1>1, <2>1 DEF TypeInv, Steps
  <2>3. Position(p)' = next[p]
    BY <1>1, <2>2 DEF Position
  <2>4. next[p] + 1 <= upto[p]
    BY <1>1, <1>6
  <2> QED
    BY <1>1, <1>2, <1>3, <1>4, <2>2, <2>3, <2>4 DEF TypeInv
<1> QED
  BY <1>5, <1>6

(* The streams as the batches come to the next event: it extends the stream  *)
(* of its own application, and no other.                                     *)
LEMMA StreamsNext ==
  ASSUME IsLog(log), NEW n \in Nat, n + 1 <= Len(log), NEW e, e = log[n + 1], NEW a \in Apps
  PROVE  /\ e.app # a \/ e.stream # "loan" => LoanAt(log, a, n + 1) = LoanAt(log, a, n)
         /\ e.app = a /\ e.stream = "loan" =>
              LET loan == LoanOf(EventsIn(log, a, "loan", n))
                  tier == LastTier(EventsIn(log, a, "loan", n))
              IN /\ loan \in LoanType /\ e.type \in LoanEvents /\ Reports(e)
                 /\ tier \in Tiers \cup {None}
                 /\ loan.credit <=> tier # None
                 /\ ApplyToLoan(loan, e).ok
                 /\ LoanAt(log, a, n) = Shown(loan, tier)
                 /\ LoanAt(log, a, n + 1) = Shown(ApplyToLoan(loan, e), TierAfter(tier, e))
         /\ e.app # a \/ e.stream # "compliance" =>
              EventsIn(log, a, "compliance", n + 1) = EventsIn(log, a, "compliance", n)
         /\ e.app = a /\ e.stream = "compliance" =>
              EventsIn(log, a, "compliance", n + 1) =
                Append(EventsIn(log, a, "compliance", n), e)
<1>1. Len(log) \in Nat /\ n \in 0..Len(log) /\ n + 1 \in 0..Len(log)
  BY LogLength
<1>2. \A stream : EventsIn(log, a, stream, n + 1) =
                    IF e.app = a /\ e.stream = stream
                    THEN Append(EventsIn(log, a, stream, n), e) ELSE EventsIn(log, a, stream, n)
  BY EventsInNext
<1>3. ASSUME e.app = a, e.stream = "loan"
      PROVE  LET loan == LoanOf(EventsIn(log, a, "loan", n))
                 tier == LastTier(EventsIn(log, a, "loan", n))
             IN /\ loan \in LoanType /\ e.type \in LoanEvents /\ Reports(e)
                /\ tier \in Tiers \cup {None}
                /\ loan.credit <=> tier # None
                /\ ApplyToLoan(loan, e).ok
                /\ LoanAt(log, a, n) = Shown(loan, tier)
                /\ LoanAt(log, a, n + 1) = Shown(ApplyToLoan(loan, e), TierAfter(tier, e))
  <2>1. PICK s : s = EventsIn(log, a, "loan", n)
    OBVIOUS
  <2> DEFINE S == {x \in Range(log) : x.app = a /\ x.stream = "loan"}
  <2>2. \A x \in S : x.type \in LoanEvents /\ Reports(x)
    BY DEF IsLog, IsEvent, Range, Reports
  <2>3. s \in Seq(S)
    BY <1>1, <2>1, EventsInType DEF IsLog
  <2> HIDE DEF S
  <2>4. s \in Seq(Range(s)) /\ \A i \in DOMAIN s : s[i] \in S
    <3>1. DOMAIN s = 1..Len(s) /\ \A i \in 1..Len(s) : s[i] \in S
      BY <2>3, ElementOfSeq, LenProperties
    <3> QED
      BY <2>3, <3>1, SeqOfRange
  <2>5. LoanOf(Append(s, e)) = ApplyToLoan(LoanOf(s), e) /\ LoanOf(s) \in LoanType
    BY <1>1, <2>1, <2>4, LoanOfNext, LoanOfLog
  <2>6. EventsIn(log, a, "loan", n + 1) = Append(s, e)
    BY <1>2, <1>3, <2>1
  <2>7. LoanOf(Append(s, e)).ok /\ LoanOf(s).ok
    BY <1>1, <2>1, <2>6 DEF IsLog
  <2>8. e.type \in LoanEvents /\ Reports(e)
    <3>1. IsEvent(e)
      BY <1>1, LogLength DEF IsLog
    <3> QED
      BY <1>3, <3>1 DEF IsEvent, Reports
  <2>9. LastTier(Append(s, e)) = TierAfter(LastTier(s), e)
    BY <2>4, LastTierAppend
  <2>10. /\ LastTier(s) \in Tiers \cup {None}
         /\ LoanOf(s).credit <=> LastTier(s) # None
    <3>1. Shape(s)
      BY <2>2, <2>4, ShapeOfLoan
    <3>2. \A i \in DOMAIN s : Reports(s[i])
      BY <2>2, <2>4
    <3> QED
      BY <2>4, <2>7, <3>1, <3>2, LastTierFacts DEF Shape
  <2> QED
    BY <2>1, <2>5, <2>6, <2>7, <2>8, <2>9, <2>10 DEF LoanAt
<1>4. e.app # a \/ e.stream # "loan" => LoanAt(log, a, n + 1) = LoanAt(log, a, n)
  BY <1>2 DEF LoanAt
<1> QED
  BY <1>2, <1>3, <1>4

(* A snapshot folded with the next event has the checks of the next stream.  *)
LEMMA TellsNext ==
  ASSUME IsLog(log), NEW n \in Nat, n + 1 <= Len(log), NEW e, e = log[n + 1], NEW a \in Apps,
         NEW state \in Snapshot, Tells(state, log, a, n)
  PROVE  /\ e.app # a \/ e.stream # "compliance" => Tells(state, log, a, n + 1)
         /\ e.app = a /\ e.stream = "compliance" => Tells(Audited(state, e), log, a, n + 1)
<1>1. ASSUME e.app # a \/ e.stream # "compliance" PROVE Tells(state, log, a, n + 1)
  <2>1. EventsIn(log, a, "compliance", n + 1) = EventsIn(log, a, "compliance", n)
    BY <1>1, StreamsNext
  <2> QED
    BY <2>1 DEF Tells
<1>2. ASSUME e.app = a, e.stream = "compliance" PROVE Tells(Audited(state, e), log, a, n + 1)
  <2>1. PICK s : s = EventsIn(log, a, "compliance", n)
    OBVIOUS
  <2>2. EventsIn(log, a, "compliance", n + 1) = Append(s, e)
    BY <1>2, <2>1, StreamsNext
  <2>3. s \in Seq(Range(s))
    <3> DEFINE S == {x \in Range(log) : x.app = a /\ x.stream = "compliance"}
    <3>1. n \in 0..Len(log) /\ log \in Seq(Range(log))
      BY LogLength DEF IsLog
    <3>2. s \in Seq(S)
      BY <2>1, <3>1, EventsInType
    <3> HIDE DEF S
    <3> QED
      BY <3>2, SeqOfRange
  <2>4. IsEvent(e)
    BY LogLength DEF IsLog
  <2>5. state.required = Required(s) /\ state.passed = Passed(s)
    BY <2>1 DEF Tells
  <2>6. /\ Required(Append(s, e)) =
             IF e.type = "ComplianceCheckRequested" THEN e.required ELSE Required(s)
        /\ Passed(Append(s, e)) =
             IF e.type = "ComplianceRulePassed" THEN Passed(s) \cup {e.rule} ELSE Passed(s)
    BY <2>3, RequiredAppend, PassedAppend
  <2>7. /\ Audited(state, e).required =
             IF e.type = "ComplianceCheckRequested" THEN e.required ELSE state.required
        /\ Audited(state, e).passed =
             IF e.type = "ComplianceRulePassed" THEN state.passed \cup {e.rule} ELSE state.passed
    BY <1>2, <2>4, AuditedFacts
  <2> QED
    BY <2>2, <2>5, <2>6, <2>7 DEF Tells
<1> QED
  BY <1>1, <1>2
-------------------------------------------------------------------------------
(* The steps that leave the tables and the rows alone *)

LEMMA MinOfTwo ==
  ASSUME NEW x \in Nat, NEW y \in Nat
  PROVE  Min({x, y}) = IF x <= y THEN x ELSE y
<1> DEFINE z == IF x <= y THEN x ELSE y
<1>1. z \in {x, y} /\ \A w \in {x, y} : z <= w
  OBVIOUS
<1>2. \A u \in {x, y} : (\A w \in {x, y} : u <= w) => u = z
  OBVIOUS
<1> HIDE DEF z
<1>3. Min({x, y}) = CHOOSE u \in {x, y} : \A w \in {x, y} : u <= w
  BY DEF Min
<1>4. Min({x, y}) = z
  BY <1>1, <1>2, <1>3
<1> QED
  BY <1>4 DEF z

(* Such a step of p keeps the invariant if it does for what p says. *)
LEMMA QuietStep ==
  ASSUME ReadInv, NEW p \in Projections, Aside(p), TypeInv', Batch(p)',
         UNCHANGED <<log, summary, timeline, checkpoint, rows, snapshots>>,
         p = AS => LifeInv' /\ SeenLoan',
         p = CV => ChecksInv' /\ SeenChecks'
  PROVE  ReadInv'
<1>1. RowInv'
  BY DEF ReadInv, RowInv
<1>2. CASE p = AS
  <2>1. IsLog(log)' /\ Batch(CV)' /\ ChecksInv' /\ SeenChecks'
    BY <1>2, LoanFrame
  <2>2. BatchInv'
    BY <1>2, <2>1, ProjectionFacts DEF BatchInv
  <2> QED
    BY <1>1, <1>2, <2>1, <2>2 DEF ReadInv
<1>3. CASE p = CV
  <2>1. \A a \in Apps : /\ Life(summary[a])' = Life(summary[a])
                        /\ Life(Stored(AS, a))' = Life(Stored(AS, a))
                        /\ Stored(AS, a)' = None => Stored(AS, a) = None
    BY DEF Stored
  <2>2. IsLog(log)' /\ Batch(AS)' /\ LifeInv' /\ SeenLoan'
    BY <1>3, <2>1, ChecksStepFrame
  <2>3. BatchInv'
    BY <1>3, <2>2, ProjectionFacts DEF BatchInv
  <2> QED
    BY <1>1, <1>3, <2>2, <2>3 DEF ReadInv
<1> QED
  BY <1>2, <1>3, ProjectionFacts

LEMMA BeginStep ==
  ASSUME ReadInv, NEW p \in Projections, Begin(p)
  PROVE  ReadInv'
<1>1. /\ pc[p] = "idle" /\ checkpoint[p] < Len(log)
      /\ upto' = [upto EXCEPT ![p] = Min({checkpoint[p] + BatchSize, Len(log)})]
      /\ next' = [next EXCEPT ![p] = checkpoint[p] + 1]
      /\ pc' = [pc EXCEPT ![p] = "select"]
      /\ UNCHANGED <<log, summary, timeline, checkpoint, dead, attempts, seen, rows, snapshots,
                     buried, crashes>>
  BY DEF Begin, Goto, tables, transaction
<1>2. IsLog(log) /\ TypeInv /\ Batch(p) /\ LifeInv /\ ChecksInv
  BY DEF ReadInv, BatchInv
<1>3. Len(log) \in Nat /\ checkpoint[p] \in Nat
  BY <1>2, LogLength DEF TypeInv
<1>4. PICK u : u = Min({checkpoint[p] + BatchSize, Len(log)})
  OBVIOUS
<1>5. u \in Nat /\ checkpoint[p] + 1 <= u /\ u <= Len(log)
  <2>1. checkpoint[p] + BatchSize \in Nat /\ BatchSize >= 1
    BY <1>3, BoundAssumption
  <2>2. u = IF checkpoint[p] + BatchSize <= Len(log) THEN checkpoint[p] + BatchSize ELSE Len(log)
    BY <1>3, <1>4, <2>1, MinOfTwo
  <2>3. PICK x, y, b : x = checkpoint[p] /\ y = Len(log) /\ b = BatchSize
    OBVIOUS
  <2>4. /\ x \in Nat /\ y \in Nat /\ b \in Nat /\ b >= 1 /\ x < y
        /\ u = IF x + b <= y THEN x + b ELSE y
    BY <1>1, <1>3, <2>1, <2>2, <2>3, BoundAssumption
  <2>5. u \in Nat /\ x + 1 <= u /\ u <= y
    BY <2>4
  <2> QED
    BY <2>3, <2>5
<1>6. /\ pc'[p] = "select" /\ next'[p] = checkpoint[p] + 1 /\ upto'[p] = u
      /\ pc' \in [Projections -> Steps] /\ next' \in [Projections -> Nat]
      /\ upto' \in [Projections -> Nat]
      /\ \A q \in Projections \ {p} : pc'[q] = pc[q] /\ next'[q] = next[q] /\ upto'[q] = upto[q]
  BY <1>1, <1>2, <1>3, <1>4, <1>5 DEF TypeInv, Steps
<1>7. TypeInv'
  BY <1>1, <1>2, <1>6 DEF TypeInv
<1>8. Position(p)' = Position(p)
  BY <1>1, <1>3, <1>6 DEF Position
<1>9. Batch(p)'
  BY <1>1, <1>2, <1>3, <1>5, <1>6, <1>8 DEF Batch
<1>10. Aside(p)
  BY <1>1, <1>6 DEF Aside
<1>11. CASE p = AS
  <2>1. \A a \in Apps : /\ Life(summary[a])' = Life(summary[a])
                        /\ Life(Stored(AS, a))' = Life(Stored(AS, a))
    BY <1>1 DEF Stored
  <2>2. LifeInv'
    BY <1>1, <1>2, <1>8, <1>11, <2>1, LifeFrame
  <2>3. SeenLoan'
    BY <1>6, <1>11 DEF SeenLoan
  <2> QED
    BY <1>1, <1>7, <1>9, <1>10, <1>11, <2>2, <2>3, QuietStep, ProjectionFacts
<1>12. CASE p = CV
  <2>1. ChecksInv'
    BY <1>1, <1>2, <1>8, <1>12, ChecksFrame
  <2>2. SeenChecks'
    BY <1>6, <1>12 DEF SeenChecks
  <2> QED
    BY <1>1, <1>7, <1>9, <1>10, <1>12, <2>1, <2>2, QuietStep, ProjectionFacts
<1> QED
  BY <1>11, <1>12, ProjectionFacts

LEMMA SelectStep ==
  ASSUME ReadInv, NEW p \in Projections, Select(p)
  PROVE  ReadInv'
<1>1. PICK a, e : e = Current(p) /\ a = e.app
  OBVIOUS
<1>2. /\ pc[p] = "select" /\ e.stream = StreamOf(p)
      /\ seen' = [seen EXCEPT ![p] =
           IF p = "ApplicationSummary"
           THEN Summarised(IF Stored(p, a) = None THEN NewRow ELSE Stored(p, a), e)
           ELSE Audited(Latest(timeline[a] \o snapshots[a]), e)]
      /\ pc' = [pc EXCEPT ![p] = "upsert"]
      /\ UNCHANGED <<log, summary, timeline, checkpoint, dead, upto, next, attempts, rows,
                     snapshots, buried, crashes>>
  BY <1>1 DEF Select, Goto, tables, transaction
<1>3. IsLog(log) /\ TypeInv /\ Batch(p) /\ LifeInv /\ ChecksInv
  BY DEF ReadInv, BatchInv
<1>4. a \in Apps
  BY <1>1, <1>2, <1>3, PositionFacts
<1>5. /\ pc' \in [Projections -> Steps] /\ pc'[p] = "upsert"
      /\ seen' = [q \in Projections |-> seen'[q]]
      /\ seen'[p] = IF p = "ApplicationSummary" THEN Summarised(RowOr(Stored(p, a)), e)
                    ELSE Audited(Latest(timeline[a] \o snapshots[a]), e)
      /\ \A q \in Projections \ {p} : pc'[q] = pc[q] /\ seen'[q] = seen[q]
  <2>1. DOMAIN seen = Projections
    BY <1>3 DEF TypeInv
  <2> QED
    BY <1>2, <1>3, <2>1 DEF TypeInv, Steps, RowOr
<1>6. TypeInv'
  BY <1>2, <1>3, <1>5 DEF TypeInv
<1>7. Position(p)' = Position(p) /\ Current(p)' = e
  BY <1>1, <1>2, <1>5 DEF Position, Current
<1>8. Batch(p)'
  BY <1>2, <1>3, <1>5, <1>7 DEF Batch
<1>9. Aside(p)
  BY <1>2, <1>5 DEF Aside
<1>10. CASE p = AS
  <2>1. \A b \in Apps : /\ Life(summary[b])' = Life(summary[b])
                        /\ Life(Stored(AS, b))' = Life(Stored(AS, b))
    BY <1>2 DEF Stored
  <2>2. LifeInv'
    BY <1>2, <1>3, <1>7, <1>10, <2>1, LifeFrame
  <2>3. PICK r : r = Stored(AS, a)
    OBVIOUS
  <2>4. r \in Row \cup {None}
    BY <1>3, <1>4, <2>3, ProjectionFacts DEF TypeInv, Stored
  <2>5. Stored(AS, Current(AS).app)' = r
    BY <1>1, <1>2, <1>7, <1>10, <2>3 DEF Stored
  <2>6. seen'[AS] = Summarised(RowOr(r), e)
    BY <1>5, <1>10, <2>3 DEF AS
  <2>7. Summarised(RowOr(r), e) \in Row /\ Summarised(RowOr(r), e).status = RowOr(r).status
    <3>1. IsEvent(e) /\ e.stream = "loan"
      BY <1>1, <1>2, <1>3, <1>10, PositionFacts, ProjectionFacts
    <3>2. Reports(e)
      BY <3>1, LoanEventReports
    <3> QED
      BY <2>4, <3>2, LifeOfRow, SummarisedType
  <2>8. r = None => RowOr(r).status = "UNKNOWN"
    BY DEF RowOr, NewRow
  <2>9. SeenLoan'
    BY <1>7, <1>10, <2>5, <2>6, <2>7, <2>8 DEF SeenLoan
  <2> QED
    BY <1>2, <1>6, <1>8, <1>9, <1>10, <2>2, <2>9, QuietStep, ProjectionFacts
<1>11. CASE p = CV
  <2>1. ChecksInv'
    BY <1>2, <1>3, <1>7, <1>11, ChecksFrame
  <2>2. seen'[CV] = Audited(Latest(timeline[a] \o snapshots[a]), e)
    BY <1>5, <1>11 DEF CV
  <2>3. SeenChecks'
    BY <1>1, <1>2, <1>7, <1>11, <2>2 DEF SeenChecks
  <2> QED
    BY <1>2, <1>6, <1>8, <1>9, <1>11, <2>1, <2>3, QuietStep, ProjectionFacts
<1> QED
  BY <1>10, <1>11, ProjectionFacts

(* An event that is passed without an effect on the rows: of the other       *)
(* stream, or dead-lettered.                                                 *)
LEMMA LoanPassed ==
  ASSUME ReadInv, AS \in Projections, pc[AS] \in {"select", "upsert"},
         Position(AS)' = Position(AS) + 1, log' = log, checkpoint' = checkpoint, dead' = dead,
         UNCHANGED <<summary, rows>>,
         buried'[AS] \subseteq buried[AS] \cup {next[AS]}, buried[AS] \subseteq buried'[AS],
         next[AS] \in buried'[AS] \/ Current(AS).stream # "loan"
  PROVE  LifeInv'
<1>1. IsLog(log) /\ TypeInv /\ Batch(AS) /\ LifeInv
  BY DEF ReadInv, BatchInv
<1>2. PICK n, e : n = Position(AS) /\ e = Current(AS)
  OBVIOUS
<1>3. n \in Nat /\ n + 1 <= Len(log) /\ e = log[n + 1] /\ next[AS] = n + 1
  BY <1>1, <1>2, LogLength, PositionFacts DEF Current
<1>4. SUFFICES ASSUME NEW a \in Apps
               PROVE  /\ Untroubled(AS, a)' =>
                           Life(summary[a])' = LoanAt(log, a, checkpoint[AS])'
                      /\ Unburied(AS, a)' =>
                           Life(Stored(AS, a))' = LoanAt(log, a, Position(AS))'
  BY DEF LifeInv
<1>5. Untroubled(AS, a)' <=> Untroubled(AS, a)
  BY DEF Untroubled
<1>6. Untroubled(AS, a)' => Life(summary[a])' = LoanAt(log, a, checkpoint[AS])'
  <2>1. Untroubled(AS, a) => Life(summary[a]) = LoanAt(log, a, checkpoint[AS])
    BY <1>1 DEF LifeInv
  <2> QED
    BY <1>5, <2>1 DEF LoanAt
<1>7. ASSUME Unburied(AS, a)' PROVE Life(Stored(AS, a))' = LoanAt(log, a, Position(AS))'
  <2>1. Unburied(AS, a)
    BY <1>7 DEF Unburied
  <2>2. e.app # a \/ e.stream # "loan"
    BY <1>2, <1>3, <1>7 DEF Unburied, Current
  <2>3. LoanAt(log, a, n + 1) = LoanAt(log, a, n)
    BY <1>1, <1>3, <2>2, StreamsNext
  <2>4. Life(Stored(AS, a)) = LoanAt(log, a, n)
    BY <1>1, <1>2, <2>1 DEF LifeInv
  <2>5. Life(Stored(AS, a))' = Life(Stored(AS, a))
    BY DEF Stored
  <2> QED
    BY <1>2, <2>3, <2>4, <2>5 DEF LoanAt
<1> QED
  BY <1>6, <1>7

LEMMA ChecksPassed ==
  ASSUME ReadInv, CV \in Projections, pc[CV] \in {"select", "upsert"},
         Position(CV)' = Position(CV) + 1, log' = log, checkpoint' = checkpoint, dead' = dead,
         UNCHANGED <<timeline, snapshots>>,
         buried'[CV] \subseteq buried[CV] \cup {next[CV]}, buried[CV] \subseteq buried'[CV],
         next[CV] \in buried'[CV] \/ Current(CV).stream # "compliance"
  PROVE  ChecksInv'
<1>1. IsLog(log) /\ TypeInv /\ Batch(CV) /\ ChecksInv
  BY DEF ReadInv, BatchInv
<1>2. PICK n, e : n = Position(CV) /\ e = Current(CV)
  OBVIOUS
<1>3. n \in Nat /\ n + 1 <= Len(log) /\ e = log[n + 1] /\ next[CV] = n + 1
  BY <1>1, <1>2, LogLength, PositionFacts DEF Current
<1>4. ASSUME NEW a \in Apps
      PROVE  /\ \A i \in DOMAIN timeline[a] : timeline[a][i].gp <= checkpoint[CV]
             /\ \A i \in DOMAIN snapshots[a] : snapshots[a][i].gp <= n + 1
             /\ Untroubled(CV, a) =>
                  /\ Tells(Latest(timeline[a]), log, a, checkpoint[CV])
                  /\ \A i \in DOMAIN timeline[a] :
                       Tells(timeline[a][i].state, log, a, timeline[a][i].gp)
             /\ Unburied(CV, a)' =>
                  /\ Tells(Latest(timeline[a] \o snapshots[a]), log, a, n + 1)
                  /\ \A i \in DOMAIN snapshots[a] :
                       Tells(snapshots[a][i].state, log, a, snapshots[a][i].gp)
  <2>1. timeline[a] \in Seq(Entry) /\ snapshots[a] \in Seq(Entry)
    BY <1>1 DEF TypeInv
  <2>2. \A i \in DOMAIN snapshots[a] : snapshots[a][i].gp <= n + 1
    <3>1. \A i \in DOMAIN snapshots[a] : snapshots[a][i].gp \in Nat
      <4>1. \A i \in DOMAIN snapshots[a] : snapshots[a][i] \in Entry
        BY <2>1, ElementOfSeq, LenProperties
      <4> QED
        BY <4>1 DEF Entry
    <3>2. \A i \in DOMAIN snapshots[a] : snapshots[a][i].gp <= n
      BY <1>1, <1>2 DEF ChecksInv
    <3> QED
      BY <1>3, <3>1, <3>2
  <2>3. ASSUME Unburied(CV, a)'
        PROVE  /\ Tells(Latest(timeline[a] \o snapshots[a]), log, a, n + 1)
               /\ \A i \in DOMAIN snapshots[a] :
                    Tells(snapshots[a][i].state, log, a, snapshots[a][i].gp)
    <3>1. Unburied(CV, a)
      BY <2>3 DEF Unburied
    <3>2. e.app # a \/ e.stream # "compliance"
      BY <1>2, <1>3, <2>3 DEF Unburied, Current
    <3>3. PICK s : s = Latest(timeline[a] \o snapshots[a])
      OBVIOUS
    <3>4. s \in Snapshot
      BY <2>1, <3>3, LatestFacts
    <3>5. /\ Tells(s, log, a, n)
          /\ \A i \in DOMAIN snapshots[a] :
               Tells(snapshots[a][i].state, log, a, snapshots[a][i].gp)
      BY <1>1, <1>2, <3>1, <3>3 DEF ChecksInv
    <3>6. Tells(s, log, a, n + 1)
      BY <1>1, <1>3, <3>2, <3>4, <3>5, TellsNext
    <3> QED
      BY <3>3, <3>5, <3>6
  <2> QED
    BY <1>1, <2>2, <2>3 DEF ChecksInv
<1>5. \A a \in Apps : Untroubled(CV, a)' <=> Untroubled(CV, a)
  BY DEF Untroubled
<1>6. Position(CV)' = n + 1 /\ checkpoint'[CV] = checkpoint[CV]
  BY <1>2
<1> QED
  BY <1>4, <1>5, <1>6 DEF ChecksInv

LEMMA SkipStep ==
  ASSUME ReadInv, NEW p \in Projections, Skip(p)
  PROVE  ReadInv'
<1>1. /\ pc[p] = "select" /\ Current(p).stream # StreamOf(p) /\ Pass(p)
      /\ UNCHANGED <<log, summary, timeline, checkpoint, dead, upto, rows, snapshots, buried,
                     crashes>>
  BY DEF Skip, tables, transaction
<1>2. IsLog(log) /\ TypeInv /\ Batch(p)
  BY DEF ReadInv, BatchInv
<1>3. /\ pc' \in [Projections -> Steps] /\ next' \in [Projections -> Nat]
      /\ attempts' \in [Projections -> 0..MaxRetries]
      /\ seen' = [q \in Projections |-> seen'[q]]
      /\ Position(p)' = Position(p) + 1 /\ next[p] = Position(p) + 1
      /\ pc'[p] \in {"select", "commit"}
      /\ checkpoint'[p] < next'[p] /\ next'[p] <= upto'[p] /\ upto'[p] <= Len(log')
      /\ pc'[p] = "commit" => next'[p] = upto'[p]
      /\ \A q \in Projections \ {p} : pc'[q] = pc[q] /\ next'[q] = next[q] /\ seen'[q] = seen[q]
  BY <1>1, <1>2, PassStep
<1>4. TypeInv'
  BY <1>1, <1>2, <1>3 DEF TypeInv
<1>5. Batch(p)'
  <2>1. Position(p) \in Nat
    BY <1>2, PositionFacts
  <2>2. 1..Position(p) \subseteq 1..(Position(p) + 1)
    BY <2>1
  <2> QED
    BY <1>1, <1>2, <1>3, <2>2 DEF Batch
<1>6. Aside(p)
  BY <1>1, <1>3 DEF Aside
<1>7. CASE p = AS
  <2>1. LifeInv'
    BY <1>1, <1>3, <1>7, LoanPassed, ProjectionFacts
  <2>2. SeenLoan'
    BY <1>3, <1>7 DEF SeenLoan
  <2> QED
    BY <1>1, <1>4, <1>5, <1>6, <1>7, <2>1, <2>2, QuietStep, ProjectionFacts
<1>8. CASE p = CV
  <2>1. ChecksInv'
    BY <1>1, <1>3, <1>8, ChecksPassed, ProjectionFacts
  <2>2. SeenChecks'
    BY <1>3, <1>8 DEF SeenChecks
  <2> QED
    BY <1>1, <1>4, <1>5, <1>6, <1>8, <2>1, <2>2, QuietStep, ProjectionFacts
<1> QED
  BY <1>7, <1>8, ProjectionFacts

LEMMA FailStep ==
  ASSUME ReadInv, NEW p \in Projections, Fail(p)
  PROVE  ReadInv'
<1>1. /\ pc[p] = "upsert"
      /\ UNCHANGED <<log, summary, timeline, checkpoint, dead, upto, rows, snapshots, crashes>>
      /\ \/ /\ attempts[p] < MaxRetries
            /\ attempts' = [attempts EXCEPT ![p] = @ + 1]
            /\ seen' = [seen EXCEPT ![p] = None]
            /\ pc' = [pc EXCEPT ![p] = "select"]
            /\ UNCHANGED <<next, buried>>
         \/ buried' = [buried EXCEPT ![p] = @ \cup {next[p]}] /\ Pass(p)
  BY DEF Fail, Deadlocked, Blocked, Goto, tables
<1>2. IsLog(log) /\ TypeInv /\ Batch(p) /\ LifeInv /\ ChecksInv
  BY DEF ReadInv, BatchInv
<1>3. Position(p) \in Nat /\ next[p] = Position(p) + 1
  BY <1>1, <1>2, PositionFacts
<1>4. CASE /\ attempts[p] < MaxRetries
           /\ attempts' = [attempts EXCEPT ![p] = @ + 1]
           /\ seen' = [seen EXCEPT ![p] = None]
           /\ pc' = [pc EXCEPT ![p] = "select"]
           /\ UNCHANGED <<next, buried>>
  <2>1. /\ pc' \in [Projections -> Steps] /\ pc'[p] = "select"
        /\ seen' = [q \in Projections |-> seen'[q]]
        /\ \A q \in Projections \ {p} : pc'[q] = pc[q] /\ seen'[q] = seen[q]
    <3>1. DOMAIN seen = Projections
      BY <1>2 DEF TypeInv
    <3> QED
      BY <1>2, <1>4, <3>1 DEF TypeInv, Steps
  <2>2. attempts' \in [Projections -> 0..MaxRetries]
    <3>1. attempts[p] + 1 \in 0..MaxRetries
      BY <1>2, <1>4, BoundAssumption DEF TypeInv
    <3> QED
      BY <1>2, <1>4, <3>1 DEF TypeInv
  <2>3. TypeInv'
    BY <1>1, <1>2, <1>4, <2>1, <2>2 DEF TypeInv
  <2>4. Position(p)' = Position(p)
    BY <1>1, <1>4, <2>1 DEF Position
  <2>5. Batch(p)'
    BY <1>1, <1>2, <1>4, <2>1, <2>4 DEF Batch
  <2>6. Aside(p)
    BY <1>1, <1>4, <2>1 DEF Aside
  <2>7. CASE p = AS
    <3>1. \A a \in Apps : /\ Life(summary[a])' = Life(summary[a])
                          /\ Life(Stored(AS, a))' = Life(Stored(AS, a))
      BY <1>1 DEF Stored
    <3>2. LifeInv'
      BY <1>1, <1>2, <1>4, <2>4, <2>7, <3>1, LifeFrame
    <3>3. SeenLoan'
      BY <2>1, <2>7 DEF SeenLoan
    <3> QED
      BY <1>1, <2>3, <2>5, <2>6, <2>7, <3>2, <3>3, QuietStep, ProjectionFacts
  <2>8. CASE p = CV
    <3>1. ChecksInv'
      BY <1>1, <1>2, <1>4, <2>4, <2>8, ChecksFrame
    <3>2. SeenChecks'
      BY <2>1, <2>8 DEF SeenChecks
    <3> QED
      BY <1>1, <2>3, <2>5, <2>6, <2>8, <3>1, <3>2, QuietStep, ProjectionFacts
  <2> QED
    BY <2>7, <2>8, ProjectionFacts
<1>5. CASE buried' = [buried EXCEPT ![p] = @ \cup {next[p]}] /\ Pass(p)
  <2>1. /\ pc' \in [Projections -> Steps] /\ next' \in [Projections -> Nat]
        /\ attempts' \in [Projections -> 0..MaxRetries]
        /\ seen' = [q \in Projections |-> seen'[q]]
        /\ Position(p)' = Position(p) + 1
        /\ pc'[p] \in {"select", "commit"}
        /\ checkpoint'[p] < next'[p] /\ next'[p] <= upto'[p] /\ upto'[p] <= Len(log')
        /\ pc'[p] = "commit" => next'[p] = upto'[p]
        /\ \A q \in Projections \ {p} : pc'[q] = pc[q] /\ next'[q] = next[q] /\ seen'[q] = seen[q]
    BY <1>1, <1>2, <1>5, PassStep
  <2>2. /\ buried' \in [Projections -> SUBSET Nat]
        /\ buried'[p] = buried[p] \cup {next[p]}
        /\ \A q \in Projections \ {p} : buried'[q] = buried[q]
    <3>1. next[p] \in Nat
      BY <1>3
    <3> QED
      BY <1>2, <1>5, <3>1 DEF TypeInv
  <2>3. TypeInv'
    BY <1>1, <1>2, <2>1, <2>2 DEF TypeInv
  <2>4. Batch(p)'
    <3>1. 1..Position(p) \subseteq 1..(Position(p) + 1) /\ next[p] \in 1..(Position(p) + 1)
      BY <1>3
    <3> QED
      BY <1>1, <1>2, <2>1, <2>2, <3>1 DEF Batch
  <2>5. Aside(p)
    BY <1>1, <2>1, <2>2 DEF Aside
  <2>6. CASE p = AS
    <3>1. LifeInv'
      BY <1>1, <2>1, <2>2, <2>6, LoanPassed, ProjectionFacts
    <3>2. SeenLoan'
      BY <2>1, <2>6 DEF SeenLoan
    <3> QED
      BY <1>1, <2>3, <2>4, <2>5, <2>6, <3>1, <3>2, QuietStep, ProjectionFacts
  <2>7. CASE p = CV
    <3>1. ChecksInv'
      BY <1>1, <2>1, <2>2, <2>7, ChecksPassed, ProjectionFacts
    <3>2. SeenChecks'
      BY <2>1, <2>7 DEF SeenChecks
    <3> QED
      BY <1>1, <2>3, <2>4, <2>5, <2>7, <3>1, <3>2, QuietStep, ProjectionFacts
  <2> QED
    BY <2>6, <2>7, ProjectionFacts
<1> QED
  BY <1>1, <1>4, <1>5
-------------------------------------------------------------------------------
(* The upserts *)

LEMMA LoanUpsertStep ==
  ASSUME ReadInv, Upsert(AS)
  PROVE  ReadInv'
<1>1. PICK a, e, n : a = Current(AS).app /\ e = Current(AS) /\ n = Position(AS)
  OBVIOUS
<1>2. PICK stored, mine, new : /\ stored = Stored(AS, a) /\ mine = seen[AS]
                               /\ new = LoanUpsert(stored, mine)
  OBVIOUS
<1>3. /\ pc[AS] = "upsert" /\ rows[CV][a] = None
      /\ rows' = [rows EXCEPT ![AS][a] = new]
      /\ Pass(AS)
      /\ UNCHANGED <<log, summary, timeline, checkpoint, dead, upto, snapshots, buried, crashes>>
  BY <1>1, <1>2, ProjectionFacts DEF Upsert, Blocked, tables, AS
<1>4. /\ IsLog(log) /\ TypeInv /\ Batch(AS) /\ RowInv /\ SeenLoan /\ LifeInv
      /\ AS \in Projections
  BY ProjectionFacts DEF ReadInv, BatchInv
<1>5. /\ a \in Apps /\ n \in Nat /\ n + 1 <= Len(log) /\ e = log[n + 1] /\ next[AS] = n + 1
      /\ e.app = a /\ e.stream = "loan"
  <2>1. e.stream = "loan"
    BY <1>1, <1>3, <1>4, ProjectionFacts DEF Batch
  <2> QED
    BY <1>1, <1>3, <1>4, <2>1, LogLength, PositionFacts DEF Current
<1>6. stored \in Row \cup {None}
  BY <1>2, <1>4, <1>5 DEF TypeInv, Stored
<1>7. /\ mine \in Row /\ Life(mine) = Life(Summarised(RowOr(stored), e))
      /\ stored = None => mine.status = "UNKNOWN"
  BY <1>1, <1>2, <1>3, <1>4 DEF SeenLoan
<1>8. stored = None \/ ((mine.tier = None => stored.tier = None) /\ (stored.fraud => mine.fraud))
  <2> SUFFICES ASSUME stored # None
               PROVE  (mine.tier = None => stored.tier = None) /\ (stored.fraud => mine.fraud)
    OBVIOUS
  <2>1. PICK s : s = Summarised(stored, e)
    OBVIOUS
  <2>2. /\ s \in Row /\ s.tier = TierAfter(stored.tier, e) /\ Reports(e)
        /\ (s.fraud <=> stored.fraud \/ e.type = "FraudScreeningCompleted")
    <3>1. Reports(e)
      BY <1>4, <1>5, StreamsNext
    <3> QED
      BY <1>6, <2>1, <3>1, SummarisedType
  <2>3. Life(mine) = Life(s)
    BY <1>7, <2>1 DEF RowOr
  <2>4. mine.tier = s.tier /\ mine.fraud = s.fraud
    BY <1>7, <2>2, <2>3, NoneAssumption DEF Life
  <2> QED
    BY <2>2, <2>4, NoneAssumption DEF TierAfter, Reports
<1>9. new \in Row /\ Life(new) = Life(mine) /\ new.status = StatusOf(stored) /\ new # None
  BY <1>2, <1>6, <1>7, <1>8, LoanUpsertFacts, NoneAssumption
<1>10. /\ rows' \in [Projections -> [Apps -> Row \cup {None}]]
       /\ rows'[CV] = rows[CV] /\ rows'[AS][a] = new
       /\ \A b \in Apps \ {a} : rows'[AS][b] = rows[AS][b]
  <2>1. rows'[AS] = [rows[AS] EXCEPT ![a] = new] /\ rows'[CV] = rows[CV]
        /\ rows' = [rows EXCEPT ![AS] = [rows[AS] EXCEPT ![a] = new]]
    BY <1>3, <1>4, ProjectionFacts DEF TypeInv
  <2>2. [rows[AS] EXCEPT ![a] = new] \in [Apps -> Row \cup {None}]
    BY <1>4, <1>5, <1>9 DEF TypeInv
  <2>3. rows' \in [Projections -> [Apps -> Row \cup {None}]]
    BY <1>4, <2>1, <2>2 DEF TypeInv
  <2>4. rows[AS] \in [Apps -> Row \cup {None}]
    BY <1>4 DEF TypeInv
  <2> QED
    BY <1>5, <2>1, <2>3, <2>4
<1>11. /\ pc' \in [Projections -> Steps] /\ next' \in [Projections -> Nat]
       /\ attempts' \in [Projections -> 0..MaxRetries]
       /\ seen' = [q \in Projections |-> seen'[q]]
       /\ Position(AS)' = n + 1
       /\ pc'[AS] \in {"select", "commit"}
       /\ checkpoint'[AS] < next'[AS] /\ next'[AS] <= upto'[AS] /\ upto'[AS] <= Len(log')
       /\ pc'[AS] = "commit" => next'[AS] = upto'[AS]
       /\ \A q \in Projections \ {AS} : pc'[q] = pc[q] /\ next'[q] = next[q] /\ seen'[q] = seen[q]
  BY <1>1, <1>3, <1>4, PassStep
<1>12. TypeInv'
  BY <1>3, <1>4, <1>10, <1>11 DEF TypeInv
<1>13. Batch(AS)'
  <2>1. 1..n \subseteq 1..(n + 1)
    BY <1>5
  <2> QED
    BY <1>1, <1>3, <1>4, <1>11, <2>1 DEF Batch
<1>14. Aside(AS)
  BY <1>3, <1>10, <1>11, ProjectionFacts DEF Aside
<1>15. IsLog(log)' /\ Batch(CV)' /\ ChecksInv' /\ SeenChecks'
  BY <1>3, <1>14, LoanFrame
<1>16. RowInv'
  <2>1. StatusOf(new) = StatusOf(summary[a])
    <3>1. CASE rows[AS][a] # None
      BY <1>2, <1>4, <1>5, <1>9, <3>1 DEF RowInv, Stored, StatusOf
    <3>2. CASE rows[AS][a] = None
      BY <1>2, <1>9, <3>2 DEF Stored, StatusOf
    <3> QED
      BY <3>1, <3>2
  <2> QED
    BY <1>3, <1>4, <1>10, <2>1 DEF RowInv
<1>17. SeenLoan'
  BY <1>11 DEF SeenLoan
<1>18. LifeInv'
  <2> SUFFICES ASSUME NEW b \in Apps
               PROVE  /\ Untroubled(AS, b)' =>
                           Life(summary[b])' = LoanAt(log, b, checkpoint[AS])'
                      /\ Unburied(AS, b)' =>
                           Life(Stored(AS, b))' = LoanAt(log, b, Position(AS))'
    BY DEF LifeInv
  <2>1. Untroubled(AS, b)' => Life(summary[b])' = LoanAt(log, b, checkpoint[AS])'
    BY <1>3, <1>4 DEF LifeInv, Untroubled, LoanAt
  <2>2. ASSUME Unburied(AS, b)' PROVE Life(Stored(AS, b))' = LoanAt(log, b, Position(AS))'
    <3>1. Life(Stored(AS, b)) = LoanAt(log, b, n)
      BY <1>1, <1>3, <1>4, <2>2 DEF LifeInv, Unburied
    <3>2. LoanAt(log, b, Position(AS))' = LoanAt(log, b, n + 1)
      BY <1>3, <1>11 DEF LoanAt
    <3>3. CASE b # a
      <4>1. Stored(AS, b)' = Stored(AS, b)
        BY <1>3, <1>10, <3>3 DEF Stored
      <4>2. LoanAt(log, b, n + 1) = LoanAt(log, b, n)
        BY <1>4, <1>5, <3>3, StreamsNext
      <4> QED
        BY <3>1, <3>2, <4>1, <4>2
    <3>4. CASE b = a
      <4>1. Stored(AS, b)' = new
        BY <1>9, <1>10, <3>4 DEF Stored
      <4>2. PICK loan, tier : /\ loan = LoanOf(EventsIn(log, a, "loan", n))
                              /\ tier = LastTier(EventsIn(log, a, "loan", n))
        OBVIOUS
      <4>3. /\ loan \in LoanType /\ e.type \in LoanEvents /\ Reports(e)
            /\ tier \in Tiers \cup {None}
            /\ loan.credit <=> tier # None
            /\ ApplyToLoan(loan, e).ok
            /\ LoanAt(log, a, n) = Shown(loan, tier)
            /\ LoanAt(log, a, n + 1) = Shown(ApplyToLoan(loan, e), TierAfter(tier, e))
        BY <1>4, <1>5, <4>2, StreamsNext
      <4>4. Life(stored) = Shown(loan, tier)
        BY <1>2, <3>1, <3>4, <4>3
      <4>5. Life(Summarised(RowOr(stored), e)) = Shown(ApplyToLoan(loan, e), TierAfter(tier, e))
        BY <1>6, <4>3, <4>4, ShownStep
      <4> QED
        BY <1>7, <1>9, <3>2, <3>4, <4>1, <4>3, <4>5
    <3> QED
      BY <3>3, <3>4
  <2> QED
    BY <2>1, <2>2
<1>19. BatchInv'
  BY <1>13, <1>15, ProjectionFacts DEF BatchInv
<1> QED
  BY <1>12, <1>15, <1>16, <1>17, <1>18, <1>19 DEF ReadInv

LEMMA ChecksUpsertStep ==
  ASSUME ReadInv, Upsert(CV)
  PROVE  ReadInv'
<1>1. PICK a, e, n : a = Current(CV).app /\ e = Current(CV) /\ n = Position(CV)
  OBVIOUS
<1>2. PICK stored, state, new, entry :
        /\ stored = Stored(CV, a) /\ state = seen[CV]
        /\ new = ComplianceUpsert(stored, state)
        /\ entry = [gp |-> next[CV], state |-> state]
  OBVIOUS
<1>3. /\ pc[CV] = "upsert" /\ rows[AS][a] = None
      /\ rows' = [rows EXCEPT ![CV][a] = new]
      /\ snapshots' = [snapshots EXCEPT ![a] = Append(snapshots[a], entry)]
      /\ Pass(CV)
      /\ UNCHANGED <<log, summary, timeline, checkpoint, dead, upto, buried, crashes>>
  BY <1>1, <1>2, ProjectionFacts DEF Upsert, Blocked, tables, CV
<1>4. /\ IsLog(log) /\ TypeInv /\ Batch(CV) /\ RowInv /\ SeenChecks /\ ChecksInv
      /\ CV \in Projections /\ AS \in Projections /\ AS # CV
  BY ProjectionFacts DEF ReadInv, BatchInv
<1>5. /\ a \in Apps /\ n \in Nat /\ n + 1 <= Len(log) /\ e = log[n + 1] /\ next[CV] = n + 1
      /\ e.app = a /\ e.stream = "compliance" /\ IsEvent(e)
  <2>1. e.stream = "compliance"
    BY <1>1, <1>3, <1>4, ProjectionFacts DEF Batch
  <2> QED
    BY <1>1, <1>3, <1>4, <2>1, LogLength, PositionFacts DEF Current
<1>6. /\ stored \in Row \cup {None}
      /\ timeline[a] \in Seq(Entry) /\ snapshots[a] \in Seq(Entry)
  BY <1>2, <1>4, <1>5 DEF TypeInv, Stored
<1>7. PICK last : last = Latest(timeline[a] \o snapshots[a])
  OBVIOUS
<1>8. last \in Snapshot /\ state = Audited(last, e)
  BY <1>1, <1>2, <1>3, <1>4, <1>6, <1>7, LatestFacts DEF SeenChecks
<1>9. state \in Snapshot /\ entry \in Entry /\ entry.state = state /\ entry.gp = n + 1
  <2>1. state \in Snapshot
    BY <1>5, <1>8, AuditedFacts
  <2> QED
    BY <1>2, <1>5, <2>1 DEF Entry
<1>10. /\ new \in Row /\ new # None /\ Life(new) = Life(stored)
       /\ new.status = OverallStatus(state)
  BY <1>2, <1>6, ComplianceUpsertFacts, NoneAssumption
<1>11. /\ rows' \in [Projections -> [Apps -> Row \cup {None}]]
       /\ rows'[AS] = rows[AS] /\ rows'[CV][a] = new
       /\ \A b \in Apps \ {a} : rows'[CV][b] = rows[CV][b]
  <2>1. rows'[CV] = [rows[CV] EXCEPT ![a] = new] /\ rows'[AS] = rows[AS]
        /\ rows' = [rows EXCEPT ![CV] = [rows[CV] EXCEPT ![a] = new]]
    BY <1>3, <1>4 DEF TypeInv
  <2>2. [rows[CV] EXCEPT ![a] = new] \in [Apps -> Row \cup {None}]
    BY <1>4, <1>5, <1>10 DEF TypeInv
  <2>3. rows' \in [Projections -> [Apps -> Row \cup {None}]]
    BY <1>4, <2>1, <2>2 DEF TypeInv
  <2>4. rows[CV] \in [Apps -> Row \cup {None}]
    BY <1>4 DEF TypeInv
  <2> QED
    BY <1>5, <2>1, <2>3, <2>4
<1>12. /\ snapshots' \in [Apps -> Seq(Entry)]
       /\ snapshots'[a] = Append(snapshots[a], entry)
       /\ \A b \in Apps \ {a} : snapshots'[b] = snapshots[b]
       /\ snapshots'[a] # <<>> /\ Last(snapshots'[a]) = entry
       /\ \A i \in DOMAIN snapshots'[a] :
            (i \in DOMAIN snapshots[a] /\ snapshots'[a][i] = snapshots[a][i])
              \/ snapshots'[a][i] = entry
  <2>1. PICK s : s = Append(snapshots[a], entry)
    OBVIOUS
  <2>2. /\ s \in Seq(Entry) /\ s # <<>> /\ Last(s) = entry
        /\ \A i \in DOMAIN s : (i \in DOMAIN snapshots[a] /\ s[i] = snapshots[a][i])
                                 \/ s[i] = entry
    BY <1>6, <1>9, <2>1, LatestFacts
  <2>3. snapshots' = [snapshots EXCEPT ![a] = s]
    BY <1>3, <2>1
  <2>4. /\ snapshots' \in [Apps -> Seq(Entry)] /\ snapshots'[a] = s
        /\ \A b \in Apps \ {a} : snapshots'[b] = snapshots[b]
    BY <1>4, <1>5, <2>2, <2>3 DEF TypeInv
  <2> QED
    BY <2>1, <2>2, <2>4
<1>13. /\ pc' \in [Projections -> Steps] /\ next' \in [Projections -> Nat]
       /\ attempts' \in [Projections -> 0..MaxRetries]
       /\ seen' = [q \in Projections |-> seen'[q]]
       /\ Position(CV)' = n + 1
       /\ pc'[CV] \in {"select", "commit"}
       /\ checkpoint'[CV] < next'[CV] /\ next'[CV] <= upto'[CV] /\ upto'[CV] <= Len(log')
       /\ pc'[CV] = "commit" => next'[CV] = upto'[CV]
       /\ \A q \in Projections \ {CV} : pc'[q] = pc[q] /\ next'[q] = next[q] /\ seen'[q] = seen[q]
  BY <1>1, <1>3, <1>4, PassStep
<1>14. TypeInv'
  BY <1>3, <1>4, <1>11, <1>12, <1>13 DEF TypeInv
<1>15. Batch(CV)'
  <2>1. 1..n \subseteq 1..(n + 1)
    BY <1>5
  <2> QED
    BY <1>1, <1>3, <1>4, <1>13, <2>1 DEF Batch
<1>16. Aside(CV)
  BY <1>3, <1>4, <1>11, <1>13, ProjectionFacts DEF Aside
<1>17. IsLog(log)' /\ Batch(AS)' /\ LifeInv' /\ SeenLoan'
  <2>1. \A b \in Apps : /\ Life(summary[b])' = Life(summary[b])
                        /\ Life(Stored(AS, b))' = Life(Stored(AS, b))
                        /\ Stored(AS, b)' = None => Stored(AS, b) = None
    BY <1>3, <1>11 DEF Stored
  <2> QED
    BY <1>3, <1>14, <1>16, <2>1, ChecksStepFrame
<1>18. RowInv'
  <2>1. Life(new) = Life(summary[a])
    <3>1. CASE rows[CV][a] # None
      BY <1>2, <1>4, <1>5, <1>10, <3>1 DEF RowInv, Stored
    <3>2. CASE rows[CV][a] = None
      BY <1>2, <1>10, <3>2 DEF Stored
    <3> QED
      BY <3>1, <3>2
  <2> SUFFICES ASSUME NEW b \in Apps
      PROVE  /\ rows'[AS][b] = None \/ rows'[CV][b] = None
             /\ rows'[AS][b] # None => StatusOf(rows'[AS][b]) = StatusOf(summary'[b])
             /\ rows'[CV][b] # None => Life(rows'[CV][b]) = Life(summary'[b])
             /\ rows'[CV][b] = None <=> snapshots'[b] = <<>>
             /\ rows'[CV][b] # None =>
                  rows'[CV][b].status = OverallStatus(Last(snapshots'[b]).state)
             /\ StatusOf(summary'[b]) =
                  IF timeline'[b] = <<>> THEN "UNKNOWN"
                  ELSE OverallStatus(Last(timeline'[b]).state)
    BY DEF RowInv
  <2>2. CASE b = a
    BY <1>3, <1>4, <1>5, <1>9, <1>10, <1>11, <1>12, <2>1, <2>2 DEF RowInv
  <2>3. CASE b # a
    BY <1>3, <1>4, <1>11, <1>12, <2>3 DEF RowInv
  <2> QED
    BY <2>2, <2>3
<1>19. SeenChecks'
  BY <1>13 DEF SeenChecks
<1>20. ChecksInv'
  <2>1. ASSUME NEW b \in Apps
        PROVE  /\ \A i \in DOMAIN snapshots'[b] : snapshots'[b][i].gp <= n + 1
               /\ Unburied(CV, b) =>
                    /\ Tells(Latest(timeline[b] \o snapshots'[b]), log, b, n + 1)
                    /\ \A i \in DOMAIN snapshots'[b] :
                         Tells(snapshots'[b][i].state, log, b, snapshots'[b][i].gp)
    <3>1. timeline[b] \in Seq(Entry) /\ snapshots[b] \in Seq(Entry)
      BY <1>4 DEF TypeInv
    <3>2. \A i \in DOMAIN snapshots[b] : snapshots[b][i].gp \in Nat
      <4>1. \A i \in DOMAIN snapshots[b] : snapshots[b][i] \in Entry
        BY <3>1, ElementOfSeq, LenProperties
      <4> QED
        BY <4>1 DEF Entry
    <3>3. \A i \in DOMAIN snapshots[b] : snapshots[b][i].gp <= n + 1
      <4>1. \A i \in DOMAIN snapshots[b] : snapshots[b][i].gp <= n
        BY <1>1, <1>4 DEF ChecksInv
      <4> QED
        BY <1>5, <3>2, <4>1
    <3>4. CASE b # a
      <4>1. snapshots'[b] = snapshots[b]
        BY <1>12, <3>4
      <4>2. ASSUME Unburied(CV, b)
            PROVE  Tells(Latest(timeline[b] \o snapshots[b]), log, b, n + 1)
        <5>1. PICK s : s = Latest(timeline[b] \o snapshots[b])
          OBVIOUS
        <5>2. s \in Snapshot /\ Tells(s, log, b, n)
          BY <1>1, <1>4, <3>1, <4>2, <5>1, LatestFacts DEF ChecksInv
        <5> QED
          BY <1>4, <1>5, <3>4, <5>1, <5>2, TellsNext
      <4> QED
        BY <1>4, <3>3, <4>1, <4>2 DEF ChecksInv
    <3>5. CASE b = a
      <4>1. Latest(timeline[a] \o snapshots'[a]) = state
        <5>1. snapshots'[a] \in Seq(Entry)
          BY <1>5, <1>12
        <5>2. snapshots'[a] # <<>> /\ Last(snapshots'[a]) = entry
          BY <1>12
        <5>3. Latest(timeline[a] \o snapshots'[a]) = Last(snapshots'[a]).state
          BY <1>6, <5>1, <5>2, LatestFollows
        <5> QED
          BY <1>9, <5>2, <5>3
      <4>2. ASSUME Unburied(CV, a) PROVE Tells(state, log, a, n + 1)
        <5>1. Tells(last, log, a, n)
          BY <1>1, <1>4, <1>5, <1>7, <4>2 DEF ChecksInv
        <5> QED
          BY <1>4, <1>5, <1>8, <5>1, TellsNext
      <4>3. \A i \in DOMAIN snapshots'[a] : snapshots'[a][i].gp <= n + 1
        BY <1>5, <1>9, <1>12, <3>3, <3>5
      <4>4. ASSUME Unburied(CV, a), NEW i \in DOMAIN snapshots'[a]
            PROVE  Tells(snapshots'[a][i].state, log, a, snapshots'[a][i].gp)
        <5>1. CASE snapshots'[a][i] = entry
          BY <1>9, <4>2, <4>4, <5>1
        <5>2. CASE i \in DOMAIN snapshots[a] /\ snapshots'[a][i] = snapshots[a][i]
          BY <1>4, <1>5, <4>4, <5>2 DEF ChecksInv
        <5> QED
          BY <1>12, <5>1, <5>2
      <4> QED
        BY <3>5, <4>1, <4>2, <4>3, <4>4
    <3> QED
      BY <3>4, <3>5
  <2>2. \A b \in Apps : /\ Untroubled(CV, b)' <=> Untroubled(CV, b)
                        /\ Unburied(CV, b)' <=> Unburied(CV, b)
    BY <1>3 DEF Untroubled, Unburied
  <2>3. Position(CV)' = n + 1 /\ checkpoint' = checkpoint /\ timeline' = timeline /\ log' = log
    BY <1>3, <1>13
  <2> QED
    BY <1>4, <2>1, <2>2, <2>3 DEF ChecksInv
<1>21. BatchInv'
  BY <1>15, <1>17, ProjectionFacts DEF BatchInv
<1> QED
  BY <1>14, <1>17, <1>18, <1>19, <1>20, <1>21 DEF ReadInv
-------------------------------------------------------------------------------
(* The end of a transaction *)

LEMMA EndStep ==
  ASSUME TypeInv, NEW p \in Projections, EndTransaction(p)
  PROVE  /\ pc' \in [Projections -> Steps] /\ pc'[p] = "idle"
         /\ upto' \in [Projections -> Nat] /\ next' \in [Projections -> Nat]
         /\ rows' \in [Projections -> [Apps -> Row \cup {None}]]
         /\ rows'[p] = NoRows
         /\ snapshots' \in [Apps -> Seq(Entry)]
         /\ p = AS => snapshots' = snapshots
         /\ p = CV => snapshots' = NoSnapshots
         /\ buried' \in [Projections -> SUBSET Nat] /\ buried'[p] = {}
         /\ \A q \in Projections \ {p} :
              /\ pc'[q] = pc[q] /\ upto'[q] = upto[q] /\ next'[q] = next[q]
              /\ rows'[q] = rows[q] /\ buried'[q] = buried[q]
<1>1. /\ pc' = [pc EXCEPT ![p] = "idle"]
      /\ upto' = [upto EXCEPT ![p] = 0] /\ next' = [next EXCEPT ![p] = 0]
      /\ rows' = [rows EXCEPT ![p] = NoRows]
      /\ snapshots' = IF p = CV THEN NoSnapshots ELSE snapshots
      /\ buried' = [buried EXCEPT ![p] = {}]
  BY DEF EndTransaction, Goto, CV
<1>2. NoRows \in [Apps -> Row \cup {None}] /\ NoSnapshots \in [Apps -> Seq(Entry)]
  BY DEF NoRows, NoSnapshots
<1>3. snapshots' \in [Apps -> Seq(Entry)]
  BY <1>1, <1>2 DEF TypeInv
<1>4. rows' \in [Projections -> [Apps -> Row \cup {None}]] /\ rows'[p] = NoRows
      /\ \A q \in Projections \ {p} : rows'[q] = rows[q]
  BY <1>1, <1>2 DEF TypeInv
<1>5. /\ pc' \in [Projections -> Steps] /\ pc'[p] = "idle"
      /\ \A q \in Projections \ {p} : pc'[q] = pc[q]
  BY <1>1 DEF TypeInv, Steps
<1>6. /\ upto' \in [Projections -> Nat] /\ next' \in [Projections -> Nat]
      /\ buried' \in [Projections -> SUBSET Nat] /\ buried'[p] = {}
      /\ \A q \in Projections \ {p} :
           upto'[q] = upto[q] /\ next'[q] = next[q] /\ buried'[q] = buried[q]
  BY <1>1 DEF TypeInv
<1> QED
  BY <1>1, <1>3, <1>4, <1>5, <1>6, ProjectionFacts

LEMMA CrashStep ==
  ASSUME ReadInv, NEW p \in Projections, Crash(p)
  PROVE  ReadInv'
<1>1. /\ crashes < MaxCrashes /\ crashes' = crashes + 1
      /\ attempts' = [attempts EXCEPT ![p] = 0] /\ seen' = [seen EXCEPT ![p] = None]
      /\ EndTransaction(p)
      /\ UNCHANGED <<log, summary, timeline, checkpoint, dead>>
  BY DEF Crash, tables
<1>2. /\ IsLog(log) /\ TypeInv /\ Batch(p) /\ RowInv /\ LifeInv /\ ChecksInv
      /\ AS \in Projections /\ CV \in Projections /\ AS # CV
  BY ProjectionFacts DEF ReadInv, BatchInv
<1>3. /\ pc' \in [Projections -> Steps] /\ pc'[p] = "idle"
      /\ upto' \in [Projections -> Nat] /\ next' \in [Projections -> Nat]
      /\ rows' \in [Projections -> [Apps -> Row \cup {None}]]
      /\ rows'[p] = NoRows
      /\ snapshots' \in [Apps -> Seq(Entry)]
      /\ p = AS => snapshots' = snapshots
      /\ p = CV => snapshots' = NoSnapshots
      /\ buried' \in [Projections -> SUBSET Nat] /\ buried'[p] = {}
      /\ \A q \in Projections \ {p} :
           /\ pc'[q] = pc[q] /\ upto'[q] = upto[q] /\ next'[q] = next[q]
           /\ rows'[q] = rows[q] /\ buried'[q] = buried[q]
  BY <1>1, <1>2, EndStep
<1>4. /\ attempts' \in [Projections -> 0..MaxRetries]
      /\ seen' = [q \in Projections |-> seen'[q]]
      /\ \A q \in Projections \ {p} : seen'[q] = seen[q]
  <2>1. 0 \in 0..MaxRetries
    BY BoundAssumption
  <2>2. attempts' \in [Projections -> 0..MaxRetries]
    BY <1>1, <1>2, <2>1 DEF TypeInv
  <2>3. seen' = [q \in Projections |-> IF q = p THEN None ELSE seen[q]]
    BY <1>1, <1>2 DEF TypeInv
  <2> QED
    BY <2>2, <2>3
<1>5. crashes' \in 0..MaxCrashes
  <2>1. MaxCrashes \in Nat /\ crashes \in 0..MaxCrashes
    BY <1>2, BoundAssumption DEF TypeInv
  <2>2. PICK c, m : c = crashes /\ m = MaxCrashes
    OBVIOUS
  <2>3. c + 1 \in 0..m
    BY <1>1, <2>1, <2>2
  <2> QED
    BY <1>1, <2>2, <2>3
<1>6. TypeInv'
  BY <1>1, <1>2, <1>3, <1>4, <1>5 DEF TypeInv
<1>7. Position(p)' = checkpoint[p]
  BY <1>1, <1>3 DEF Position
<1>8. Batch(p)'
  BY <1>1, <1>2, <1>3, <1>7 DEF Batch
<1>9. Aside(p)
  BY <1>1, <1>3, <1>4 DEF Aside
<1>10. \A a \in Apps : NoRows[a] = None /\ NoSnapshots[a] = <<>>
  BY DEF NoRows, NoSnapshots
<1>11. CASE p = AS
  <2>1. IsLog(log)' /\ Batch(CV)' /\ ChecksInv' /\ SeenChecks'
    BY <1>1, <1>3, <1>9, <1>11, LoanFrame
  <2>2. RowInv'
    <3> SUFFICES ASSUME NEW b \in Apps
        PROVE  /\ rows'[AS][b] = None \/ rows'[CV][b] = None
               /\ rows'[AS][b] # None => StatusOf(rows'[AS][b]) = StatusOf(summary'[b])
               /\ rows'[CV][b] # None => Life(rows'[CV][b]) = Life(summary'[b])
               /\ rows'[CV][b] = None <=> snapshots'[b] = <<>>
               /\ rows'[CV][b] # None =>
                    rows'[CV][b].status = OverallStatus(Last(snapshots'[b]).state)
               /\ StatusOf(summary'[b]) =
                    IF timeline'[b] = <<>> THEN "UNKNOWN"
                    ELSE OverallStatus(Last(timeline'[b]).state)
      BY DEF RowInv
    <3>1. rows'[AS][b] = None /\ rows'[CV] = rows[CV] /\ snapshots' = snapshots
      BY <1>2, <1>3, <1>10, <1>11
    <3>2. summary' = summary /\ timeline' = timeline
      BY <1>1
    <3> QED
      BY <1>2, <3>1, <3>2 DEF RowInv
  <2>3. SeenLoan'
    BY <1>3, <1>11 DEF SeenLoan
  <2>4. LifeInv'
    <3>1. ASSUME NEW a \in Apps
          PROVE  /\ Untroubled(AS, a)' <=> Untroubled(AS, a)
                 /\ Unburied(AS, a)' <=> Untroubled(AS, a)
                 /\ Stored(AS, a)' = summary[a]
                 /\ LoanAt(log, a, checkpoint[AS])' = LoanAt(log, a, checkpoint[AS])
                 /\ LoanAt(log, a, Position(AS))' = LoanAt(log, a, checkpoint[AS])
      BY <1>1, <1>3, <1>7, <1>10, <1>11 DEF Untroubled, Unburied, Stored, LoanAt
    <3> QED
      BY <1>1, <1>2, <3>1 DEF LifeInv
  <2>5. BatchInv'
    BY <1>8, <1>11, <2>1, ProjectionFacts DEF BatchInv
  <2> QED
    BY <1>6, <2>1, <2>2, <2>3, <2>4, <2>5 DEF ReadInv
<1>12. CASE p = CV
  <2>1. rows'[AS] = rows[AS]
    BY <1>2, <1>3, <1>12
  <2>2. \A a \in Apps : /\ Life(summary[a])' = Life(summary[a])
                        /\ Life(Stored(AS, a))' = Life(Stored(AS, a))
                        /\ Stored(AS, a)' = None => Stored(AS, a) = None
    BY <1>1, <2>1 DEF Stored
  <2>3. IsLog(log)' /\ Batch(AS)' /\ LifeInv' /\ SeenLoan'
    BY <1>1, <1>6, <1>9, <1>12, <2>2, ChecksStepFrame
  <2>4. RowInv'
    BY <1>1, <1>2, <1>3, <1>10, <1>12, <2>1 DEF RowInv
  <2>5. SeenChecks'
    BY <1>3, <1>12 DEF SeenChecks
  <2>6. ChecksInv'
    <3>1. ASSUME NEW a \in Apps
          PROVE  /\ Untroubled(CV, a)' <=> Untroubled(CV, a)
                 /\ Unburied(CV, a)' <=> Untroubled(CV, a)
                 /\ timeline'[a] \o snapshots'[a] = timeline[a]
                 /\ DOMAIN snapshots'[a] = {}
      <4>1. timeline[a] \in Seq(Entry) /\ snapshots'[a] = <<>>
        BY <1>2, <1>3, <1>10, <1>12 DEF TypeInv
      <4>2. timeline[a] \o <<>> = timeline[a]
        BY <4>1, LatestFacts
      <4> QED
        BY <1>1, <1>3, <1>12, <4>1, <4>2 DEF Untroubled, Unburied
    <3> QED
      BY <1>1, <1>2, <1>7, <1>12, <3>1 DEF ChecksInv
  <2>7. BatchInv'
    BY <1>8, <1>12, <2>3, ProjectionFacts DEF BatchInv
  <2> QED
    BY <1>6, <2>3, <2>4, <2>5, <2>6, <2>7 DEF ReadInv
<1> QED
  BY <1>11, <1>12, ProjectionFacts

LEMMA CommitStep ==
  ASSUME ReadInv, NEW p \in Projections, Commit(p)
  PROVE  ReadInv'
<1>1. /\ pc[p] = "commit"
      /\ summary' = [a \in Apps |-> Stored(p, a)]
      /\ timeline' = IF p = CV THEN [a \in Apps |-> timeline[a] \o snapshots[a]] ELSE timeline
      /\ dead' = [dead EXCEPT ![p] = @ \cup buried[p]]
      /\ checkpoint' = [checkpoint EXCEPT ![p] = upto[p]]
      /\ EndTransaction(p)
      /\ UNCHANGED <<log, attempts, seen, crashes>>
  BY DEF Commit, CV
<1>2. /\ IsLog(log) /\ TypeInv /\ Batch(p) /\ RowInv /\ LifeInv /\ ChecksInv
      /\ AS \in Projections /\ CV \in Projections /\ AS # CV
  BY ProjectionFacts DEF ReadInv, BatchInv
<1>3. /\ pc' \in [Projections -> Steps] /\ pc'[p] = "idle"
      /\ upto' \in [Projections -> Nat] /\ next' \in [Projections -> Nat]
      /\ rows' \in [Projections -> [Apps -> Row \cup {None}]]
      /\ rows'[p] = NoRows
      /\ snapshots' \in [Apps -> Seq(Entry)]
      /\ p = AS => snapshots' = snapshots
      /\ p = CV => snapshots' = NoSnapshots
      /\ buried' \in [Projections -> SUBSET Nat] /\ buried'[p] = {}
      /\ \A q \in Projections \ {p} :
           /\ pc'[q] = pc[q] /\ upto'[q] = upto[q] /\ next'[q] = next[q]
           /\ rows'[q] = rows[q] /\ buried'[q] = buried[q]
  BY <1>1, <1>2, EndStep
<1>4. PICK n : n = Position(p)
  OBVIOUS
<1>5. n \in Nat /\ n <= Len(log) /\ upto[p] = n /\ checkpoint[p] <= n /\ checkpoint[p] \in Nat
  BY <1>1, <1>2, <1>4, PositionFacts
<1>6. /\ checkpoint' \in [Projections -> Nat] /\ checkpoint'[p] = n
      /\ dead' \in [Projections -> SUBSET Nat] /\ dead'[p] = dead[p] \cup buried[p]
      /\ \A q \in Projections \ {p} : checkpoint'[q] = checkpoint[q] /\ dead'[q] = dead[q]
  BY <1>1, <1>2, <1>5 DEF TypeInv
<1>7. summary' \in [Apps -> Row \cup {None}] /\ \A a \in Apps : summary'[a] = Stored(p, a)
  BY <1>1, <1>2 DEF TypeInv, Stored
<1>8. /\ timeline' \in [Apps -> Seq(Entry)]
      /\ p = AS => timeline' = timeline
      /\ p = CV => \A a \in Apps : timeline'[a] = timeline[a] \o snapshots[a]
  <2>1. \A a \in Apps : timeline[a] \in Seq(Entry) /\ snapshots[a] \in Seq(Entry)
    BY <1>2 DEF TypeInv
  <2>2. \A a \in Apps : timeline[a] \o snapshots[a] \in Seq(Entry)
    BY <2>1, LatestFacts
  <2>3. [a \in Apps |-> timeline[a] \o snapshots[a]] \in [Apps -> Seq(Entry)]
    BY <2>2
  <2>4. timeline \in [Apps -> Seq(Entry)]
    BY <1>2 DEF TypeInv
  <2>5. CASE p = CV
    BY <1>1, <1>2, <2>3, <2>5
  <2>6. CASE p # CV
    BY <1>1, <1>2, <2>4, <2>6
  <2> QED
    BY <2>5, <2>6
<1>9. TypeInv'
  BY <1>1, <1>2, <1>3, <1>6, <1>7, <1>8 DEF TypeInv
<1>10. Position(p)' = n
  BY <1>3, <1>6 DEF Position
<1>11. Batch(p)'
  <2>1. 1..checkpoint[p] \subseteq 1..n
    BY <1>5
  <2> QED
    BY <1>1, <1>2, <1>3, <1>4, <1>5, <1>6, <1>10, <2>1 DEF Batch
<1>12. Aside(p)
  BY <1>1, <1>3, <1>6 DEF Aside
<1>13. \A a \in Apps : NoRows[a] = None /\ NoSnapshots[a] = <<>>
  BY DEF NoRows, NoSnapshots
<1>14. CASE p = AS
  <2>1. IsLog(log)' /\ Batch(CV)' /\ ChecksInv' /\ SeenChecks'
    BY <1>1, <1>3, <1>8, <1>12, <1>14, LoanFrame
  <2>2. \A a \in Apps : /\ StatusOf(summary'[a]) = StatusOf(summary[a])
                        /\ rows[AS][a] = None => summary'[a] = summary[a]
                        /\ rows'[AS][a] = None
                        /\ rows'[CV][a] = rows[CV][a]
    BY <1>2, <1>3, <1>7, <1>13, <1>14 DEF RowInv, Stored
  <2>3. RowInv'
    <3> SUFFICES ASSUME NEW b \in Apps
        PROVE  /\ rows'[AS][b] = None \/ rows'[CV][b] = None
               /\ rows'[AS][b] # None => StatusOf(rows'[AS][b]) = StatusOf(summary'[b])
               /\ rows'[CV][b] # None => Life(rows'[CV][b]) = Life(summary'[b])
               /\ rows'[CV][b] = None <=> snapshots'[b] = <<>>
               /\ rows'[CV][b] # None =>
                    rows'[CV][b].status = OverallStatus(Last(snapshots'[b]).state)
               /\ StatusOf(summary'[b]) =
                    IF timeline'[b] = <<>> THEN "UNKNOWN"
                    ELSE OverallStatus(Last(timeline'[b]).state)
      BY DEF RowInv
    <3>1. rows'[AS][b] = None /\ rows'[CV] = rows[CV]
          /\ snapshots' = snapshots /\ timeline' = timeline
      BY <1>2, <1>3, <1>8, <1>13, <1>14
    <3>2. StatusOf(summary'[b]) = StatusOf(summary[b])
      BY <2>2
    <3>3. rows[AS][b] = None => summary'[b] = summary[b]
      BY <2>2
    <3>4. /\ rows[AS][b] = None \/ rows[CV][b] = None
          /\ rows[CV][b] # None => Life(rows[CV][b]) = Life(summary[b])
          /\ rows[CV][b] = None <=> snapshots[b] = <<>>
          /\ rows[CV][b] # None => rows[CV][b].status = OverallStatus(Last(snapshots[b]).state)
          /\ StatusOf(summary[b]) =
               IF timeline[b] = <<>> THEN "UNKNOWN" ELSE OverallStatus(Last(timeline[b]).state)
      BY <1>2 DEF RowInv
    <3>5. rows'[CV][b] = rows[CV][b] /\ snapshots'[b] = snapshots[b] /\ timeline'[b] = timeline[b]
      BY <3>1
    <3>6. rows'[CV][b] # None => Life(rows'[CV][b]) = Life(summary'[b])
      BY <3>3, <3>4, <3>5
    <3> QED
      BY <3>1, <3>2, <3>4, <3>5, <3>6
  <2>4. SeenLoan'
    BY <1>3, <1>14 DEF SeenLoan
  <2>5. LifeInv'
    <3>1. ASSUME NEW a \in Apps
          PROVE  /\ Untroubled(AS, a)' <=> Unburied(AS, a)
                 /\ Unburied(AS, a)' <=> Unburied(AS, a)
                 /\ summary'[a] = Stored(AS, a)
                 /\ Stored(AS, a)' = summary'[a]
                 /\ LoanAt(log, a, checkpoint[AS])' = LoanAt(log, a, n)
                 /\ LoanAt(log, a, Position(AS))' = LoanAt(log, a, n)
      BY <1>1, <1>3, <1>6, <1>7, <1>10, <1>14, <2>2 DEF Untroubled, Unburied, Stored, LoanAt
    <3> QED
      BY <1>2, <1>4, <1>14, <3>1 DEF LifeInv
  <2>6. BatchInv'
    BY <1>11, <1>14, <2>1, ProjectionFacts DEF BatchInv
  <2> QED
    BY <1>9, <2>1, <2>3, <2>4, <2>5, <2>6 DEF ReadInv
<1>15. CASE p = CV
  <2>1. /\ rows'[AS] = rows[AS]
        /\ \A a \in Apps : /\ rows'[CV][a] = None /\ snapshots'[a] = <<>>
                           /\ timeline'[a] = timeline[a] \o snapshots[a]
                           /\ timeline[a] \in Seq(Entry) /\ snapshots[a] \in Seq(Entry)
    BY <1>2, <1>3, <1>8, <1>13, <1>15 DEF TypeInv
  <2>2. \A a \in Apps : /\ Life(summary'[a]) = Life(summary[a])
                        /\ rows[CV][a] = None => summary'[a] = summary[a]
                        /\ rows[CV][a] # None => summary'[a] = rows[CV][a]
    BY <1>2, <1>7, <1>15 DEF RowInv, Stored
  <2>3. \A a \in Apps : /\ Life(summary[a])' = Life(summary[a])
                        /\ Life(Stored(AS, a))' = Life(Stored(AS, a))
                        /\ Stored(AS, a)' = None => Stored(AS, a) = None
    BY <2>1, <2>2 DEF Stored
  <2>4. IsLog(log)' /\ Batch(AS)' /\ LifeInv' /\ SeenLoan'
    BY <1>1, <1>9, <1>12, <1>15, <2>3, ChecksStepFrame
  <2>5. RowInv'
    <3> SUFFICES ASSUME NEW b \in Apps
        PROVE  /\ rows'[AS][b] = None \/ rows'[CV][b] = None
               /\ rows'[AS][b] # None => StatusOf(rows'[AS][b]) = StatusOf(summary'[b])
               /\ rows'[CV][b] # None => Life(rows'[CV][b]) = Life(summary'[b])
               /\ rows'[CV][b] = None <=> snapshots'[b] = <<>>
               /\ rows'[CV][b] # None =>
                    rows'[CV][b].status = OverallStatus(Last(snapshots'[b]).state)
               /\ StatusOf(summary'[b]) =
                    IF timeline'[b] = <<>> THEN "UNKNOWN"
                    ELSE OverallStatus(Last(timeline'[b]).state)
      BY DEF RowInv
    <3>1. CASE rows[CV][b] = None
      <4>1. snapshots[b] = <<>> /\ summary'[b] = summary[b]
        BY <1>2, <2>2, <3>1 DEF RowInv
      <4>2. timeline'[b] = timeline[b]
        <5>1. PICK t : t = timeline[b]
          OBVIOUS
        <5>2. t \o <<>> = t
          BY <2>1, <5>1, LatestFacts
        <5> QED
          BY <2>1, <4>1, <5>1, <5>2
      <4> QED
        BY <1>2, <2>1, <4>1, <4>2 DEF RowInv
    <3>2. CASE rows[CV][b] # None
      <4>1. /\ snapshots[b] # <<>> /\ rows[AS][b] = None
            /\ rows[CV][b].status = OverallStatus(Last(snapshots[b]).state)
        BY <1>2, <3>2 DEF RowInv
      <4>2. timeline'[b] # <<>> /\ Last(timeline'[b]) = Last(snapshots[b])
        <5>1. PICK t, s : t = timeline[b] /\ s = snapshots[b]
          OBVIOUS
        <5>2. t \in Seq(Entry) /\ s \in Seq(Entry) /\ s # <<>>
          BY <2>1, <4>1, <5>1
        <5>3. t \o s # <<>> /\ Last(t \o s) = Last(s)
          BY <5>2, LatestFacts
        <5> QED
          BY <2>1, <5>1, <5>3
      <4>3. StatusOf(summary'[b]) = rows[CV][b].status
        BY <2>2, <3>2 DEF StatusOf
      <4> QED
        BY <2>1, <4>1, <4>2, <4>3
    <3> QED
      BY <3>1, <3>2
  <2>6. SeenChecks'
    BY <1>3, <1>15 DEF SeenChecks
  <2>7. ChecksInv'
    <3>1. ASSUME NEW a \in Apps
          PROVE  /\ Untroubled(CV, a)' <=> Unburied(CV, a)
                 /\ Unburied(CV, a)' <=> Unburied(CV, a)
                 /\ timeline'[a] \o snapshots'[a] = timeline'[a]
                 /\ DOMAIN snapshots'[a] = {}
                 /\ \A i \in DOMAIN timeline'[a] : timeline'[a][i].gp <= n
                 /\ Unburied(CV, a) =>
                      /\ Tells(Latest(timeline'[a]), log, a, n)
                      /\ \A i \in DOMAIN timeline'[a] :
                           Tells(timeline'[a][i].state, log, a, timeline'[a][i].gp)
      <4>1. /\ Untroubled(CV, a)' <=> Unburied(CV, a)
            /\ Unburied(CV, a)' <=> Unburied(CV, a)
        BY <1>1, <1>3, <1>6, <1>15 DEF Untroubled, Unburied
      <4>2. timeline'[a] \in Seq(Entry)
        BY <1>8
      <4>3. timeline'[a] \o <<>> = timeline'[a]
        <5>1. PICK t : t = timeline'[a]
          OBVIOUS
        <5>2. t \o <<>> = t
          BY <4>2, <5>1, LatestFacts
        <5> QED
          BY <5>1, <5>2
      <4>4. PICK t, s : t = timeline[a] /\ s = snapshots[a]
        OBVIOUS
      <4>5. /\ t \in Seq(Entry) /\ s \in Seq(Entry) /\ timeline'[a] = t \o s
            /\ \A i \in DOMAIN (t \o s) :
                 (i \in DOMAIN t /\ (t \o s)[i] = t[i])
                   \/ (i - Len(t) \in DOMAIN s /\ (t \o s)[i] = s[i - Len(t)])
        <5>1. t \in Seq(Entry) /\ s \in Seq(Entry) /\ timeline'[a] = t \o s
          BY <2>1, <4>4
        <5>2. \A i \in DOMAIN (t \o s) :
                 (i \in DOMAIN t /\ (t \o s)[i] = t[i])
                   \/ (i - Len(t) \in DOMAIN s /\ (t \o s)[i] = s[i - Len(t)])
          BY <5>1, LatestFacts
        <5> QED
          BY <5>1, <5>2
      <4>6. /\ \A i \in DOMAIN t : t[i].gp <= checkpoint[CV] /\ t[i] \in Entry
            /\ \A i \in DOMAIN s : s[i].gp <= n /\ s[i] \in Entry
        <5>1. /\ \A i \in DOMAIN t : t[i] \in Entry
              /\ \A i \in DOMAIN s : s[i] \in Entry
          BY <4>5, ElementOfSeq, LenProperties
        <5> QED
          BY <1>2, <1>4, <1>15, <4>4, <5>1 DEF ChecksInv
      <4>7. \A i \in DOMAIN t : t[i].gp <= n
        BY <1>5, <1>15, <4>6 DEF Entry
      <4>8. ASSUME Unburied(CV, a)
            PROVE  /\ Tells(Latest(t \o s), log, a, n)
                   /\ \A i \in DOMAIN t : Tells(t[i].state, log, a, t[i].gp)
                   /\ \A i \in DOMAIN s : Tells(s[i].state, log, a, s[i].gp)
        <5>1. Untroubled(CV, a)
          BY <4>8 DEF Unburied, Untroubled
        <5> QED
          BY <1>2, <1>4, <1>15, <4>4, <4>8, <5>1 DEF ChecksInv
      <4>9. snapshots'[a] = <<>>
        BY <2>1
      <4>10. \A i \in DOMAIN timeline'[a] : timeline'[a][i].gp <= n
        BY <4>5, <4>6, <4>7
      <4>11. ASSUME Unburied(CV, a)
             PROVE  \A i \in DOMAIN timeline'[a] :
                      Tells(timeline'[a][i].state, log, a, timeline'[a][i].gp)
        BY <4>5, <4>8, <4>11
      <4> QED
        BY <4>1, <4>3, <4>5, <4>8, <4>9, <4>10, <4>11
    <3>2. checkpoint'[CV] = n /\ Position(CV)' = n /\ log' = log
      BY <1>1, <1>6, <1>10, <1>15
    <3> QED
      BY <3>1, <3>2 DEF ChecksInv
  <2>8. BatchInv'
    BY <1>11, <1>15, <2>4, ProjectionFacts DEF BatchInv
  <2> QED
    BY <1>9, <2>4, <2>5, <2>6, <2>7, <2>8 DEF ReadInv
<1> QED
  BY <1>14, <1>15, ProjectionFacts
-------------------------------------------------------------------------------
(* The theorems *)

LEMMA StandStill ==
  ASSUME ReadInv, UNCHANGED vars
  PROVE  ReadInv'
<1>1. /\ log' = log /\ summary' = summary /\ timeline' = timeline /\ checkpoint' = checkpoint
      /\ dead' = dead /\ pc' = pc /\ upto' = upto /\ next' = next /\ attempts' = attempts
      /\ seen' = seen /\ rows' = rows /\ snapshots' = snapshots /\ buried' = buried
      /\ crashes' = crashes
  BY DEF vars, tables, transaction
<1>2. /\ IsLog(log)' /\ TypeInv'
  BY <1>1 DEF ReadInv, TypeInv
<1>3. \A p \in Projections : /\ Position(p)' = Position(p) /\ Current(p)' = Current(p)
                             /\ Batch(p)
  BY <1>1 DEF ReadInv, BatchInv, Position, Current
<1>4. BatchInv'
  BY <1>1, <1>3 DEF BatchInv, Batch
<1>5. RowInv'
  BY <1>1 DEF ReadInv, RowInv
<1>6. SeenLoan'
  BY <1>1, <1>3, ProjectionFacts DEF ReadInv, SeenLoan, Stored
<1>7. SeenChecks'
  BY <1>1, <1>3, ProjectionFacts DEF ReadInv, SeenChecks
<1>8. \A p \in Projections, a \in Apps : /\ Untroubled(p, a)' <=> Untroubled(p, a)
                                         /\ Unburied(p, a)' <=> Unburied(p, a)
                                         /\ Stored(p, a)' = Stored(p, a)
  BY <1>1 DEF Untroubled, Unburied, Stored
<1>9. LifeInv'
  BY <1>1, <1>3, <1>8, ProjectionFacts DEF ReadInv, LifeInv
<1>10. ChecksInv'
  BY <1>1, <1>3, <1>8, ProjectionFacts DEF ReadInv, ChecksInv
<1> QED
  BY <1>2, <1>4, <1>5, <1>6, <1>7, <1>9, <1>10 DEF ReadInv

LEMMA NextRead == ReadInv /\ [Next]_vars => ReadInv'
<1> SUFFICES ASSUME ReadInv, [Next]_vars PROVE ReadInv'
  OBVIOUS
<1>1. ASSUME NEW event \in Catalogue, AppendEvent(event) PROVE ReadInv'
  BY <1>1, AppendStep
<1>2. ASSUME NEW p \in Projections, Begin(p) PROVE ReadInv'
  BY <1>2, BeginStep
<1>3. ASSUME NEW p \in Projections, Skip(p) PROVE ReadInv'
  BY <1>3, SkipStep
<1>4. ASSUME NEW p \in Projections, Select(p) PROVE ReadInv'
  BY <1>4, SelectStep
<1>5. ASSUME NEW p \in Projections, Upsert(p) PROVE ReadInv'
  <2>1. CASE p = AS
    BY <1>5, <2>1, LoanUpsertStep
  <2>2. CASE p = CV
    BY <1>5, <2>2, ChecksUpsertStep
  <2> QED
    BY <2>1, <2>2, ProjectionFacts
<1>6. ASSUME NEW p \in Projections, Fail(p) PROVE ReadInv'
  BY <1>6, FailStep
<1>7. ASSUME NEW p \in Projections, Commit(p) PROVE ReadInv'
  BY <1>7, CommitStep
<1>8. ASSUME NEW p \in Projections, Crash(p) PROVE ReadInv'
  BY <1>8, CrashStep
<1>9. CASE UNCHANGED vars
  BY <1>9, StandStill
<1> QED
  BY <1>1, <1>2, <1>3, <1>4, <1>5, <1>6, <1>7, <1>8, <1>9 DEF Next, Step

(* However the two batches interleave, lock each other out, fail, crash and  *)
(* bury events, each transaction holds the state of its own half of a row    *)
(* as of its position, and the half of the other as it was committed.        *)
THEOREM ReadInvariant == Spec => []ReadInv
  BY InitRead, NextRead, PTL DEF Spec

(* Every row of the summary and every snapshot of the timeline has its       *)
(* columns, a batch stays between its checkpoint and the end of the log, and *)
(* only events behind the checkpoint are in the dead-letter table.           *)
THEOREM ReadTypeCorrect == Spec => []TypeOK
<1>1. ReadInv => TypeOK
  <2> SUFFICES ASSUME ReadInv PROVE TypeOK
    OBVIOUS
  <2>1. TypeInv /\ IsLog(log) /\ \A p \in Projections : Batch(p)
    BY DEF ReadInv, BatchInv
  <2>2. Len(log) \in Nat
    BY <2>1, LogLength
  <2>3. checkpoint = [p \in Projections |-> checkpoint[p]]
        /\ \A p \in Projections : checkpoint[p] \in 0..Len(log)
    BY <2>1, <2>2 DEF TypeInv, Batch
  <2>4. checkpoint \in [Projections -> 0..Len(log)]
    BY <2>3
  <2>5. \A p \in Projections :
          /\ pc[p] \in Steps /\ attempts[p] \in 0..MaxRetries
          /\ rows[p] \in [Apps -> Row \cup {None}] /\ dead[p] \subseteq 1..checkpoint[p]
    BY <2>1 DEF TypeInv, Batch
  <2>6. ASSUME NEW p \in Projections
        PROVE  pc[p] # "idle" => next[p] \in checkpoint[p] + 1 .. upto[p] /\ upto[p] <= Len(log)
    <3>1. checkpoint[p] \in Nat /\ next[p] \in Nat /\ upto[p] \in Nat
      BY <2>1 DEF TypeInv
    <3> QED
      BY <2>1, <3>1 DEF Batch
  <2>7. /\ summary \in [Apps -> Row \cup {None}]
        /\ timeline \in [Apps -> Seq([gp : Nat, state : Snapshot])]
        /\ crashes \in 0..MaxCrashes
    BY <2>1 DEF TypeInv, Entry
  <2> QED
    BY <2>4, <2>5, <2>6, <2>7 DEF TypeOK, Steps
<1> QED
  BY <1>1, ReadInvariant, PTL

(* The loan events upsert the row of the summary from a SELECT that took no  *)
(* lock, and still compliance_status is that of the last snapshot.           *)
THEOREM StatusMirrors == Spec => []StatusMirrorsTimeline
<1>1. ReadInv => StatusMirrorsTimeline
  <2> SUFFICES ASSUME ReadInv, NEW a \in Apps
      PROVE (IF summary[a] = None THEN "UNKNOWN" ELSE summary[a].status) =
              (IF timeline[a] = <<>> THEN "UNKNOWN" ELSE OverallStatus(Latest(timeline[a])))
    BY DEF StatusMirrorsTimeline
  <2>1. StatusOf(summary[a]) =
          IF timeline[a] = <<>> THEN "UNKNOWN" ELSE OverallStatus(Last(timeline[a]).state)
    BY DEF ReadInv, RowInv
  <2>2. timeline[a] # <<>> => Latest(timeline[a]) = Last(timeline[a]).state
    BY DEF Latest
  <2> QED
    BY <2>1, <2>2 DEF StatusOf
<1> QED
  BY <1>1, ReadInvariant, PTL

(* Unless one of its events was dead-lettered, the lifecycle state of a loan *)
(* that the summary computes by rules of its own is what its aggregate       *)
(* replays from the events up to the checkpoint, for any loan the handlers   *)
(* can load; but while the aggregate is at ANALYSIS_COMPLETE and its last    *)
(* credit analysis named no risk tier, the summary shows AWAITING_ANALYSIS.  *)
THEOREM SummaryFollows == Spec => []SummaryFollowsLoan
<1>1. ReadInv => SummaryFollowsLoan
  <2> SUFFICES ASSUME ReadInv, NEW a \in Apps, Untroubled(AS, a), NEW events,
                      events = EventsUpTo(a, "loan", checkpoint[AS])
      PROVE (IF summary[a] = None THEN None ELSE summary[a].state) =
               CASE LoanOf(events).state = "NONE" -> None
                 [] LoanOf(events).state = "FINAL_VERDICT" -> "FINAL_APPROVED"
                 [] LoanOf(events).state = "ANALYSIS_COMPLETE" /\ LastTier(events) = "" ->
                      "AWAITING_ANALYSIS"
                 [] OTHER -> LoanOf(events).state
    BY DEF SummaryFollowsLoan, AS
  <2>1. PICK loan, tier : loan = LoanOf(events) /\ tier = LastTier(events)
    OBVIOUS
  <2>2. Life(summary[a]) = Shown(loan, tier)
    BY <2>1 DEF ReadInv, LifeInv, LoanAt, EventsUpTo
  <2>3. Life(summary[a]).state = IF summary[a] = None THEN None ELSE summary[a].state
    BY DEF Life
  <2>4. Shown(loan, tier).state =
          CASE loan.state = "NONE" -> None
            [] loan.state = "FINAL_VERDICT" -> "FINAL_APPROVED"
            [] loan.state = "ANALYSIS_COMPLETE" /\ tier = "" -> "AWAITING_ANALYSIS"
            [] OTHER -> loan.state
    BY DEF Shown
  <2> QED
    BY <2>1, <2>2, <2>3, <2>4
<1> QED
  BY <1>1, ReadInvariant, PTL

(* Whatever the timeline shows as PASSED at some position, the Rule 5 gate   *)
(* of the command side would have let through at that position, unless an    *)
(* event of the application was dead-lettered.                               *)
THEOREM PassedIsGated == Spec => []PassedMeansGateOpen
<1>1. ReadInv => PassedMeansGateOpen
  <2> SUFFICES ASSUME ReadInv, NEW a \in Apps, NEW i \in DOMAIN timeline[a],
                      Untroubled(CV, a), OverallStatus(timeline[a][i].state) = "PASSED"
      PROVE AllMandatoryChecksPassed(EventsUpTo(a, "compliance", timeline[a][i].gp))
    BY DEF PassedMeansGateOpen, CV
  <2>1. PICK e, state : /\ e = EventsIn(log, a, "compliance", timeline[a][i].gp)
                        /\ state = timeline[a][i].state
    OBVIOUS
  <2>2. state.required = Required(e) /\ state.passed = Passed(e)
    BY <2>1 DEF ReadInv, ChecksInv, Tells
  <2>3. state.required # {} /\ state.required \subseteq state.passed
    BY <2>1 DEF OverallStatus
  <2> QED
    BY <2>1, <2>2, <2>3 DEF AllMandatoryChecksPassed, EventsUpTo
<1> QED
  BY <1>1, ReadInvariant, PTL
===============
