--------------------------- MODULE AggregatesProofs ---------------------------
(***************************************************************************)
(* Proofs about Aggregates: what LoanOf makes of a stream with one event   *)
(* more, by an induction that rests on the well-foundedness of the         *)
(* naturals, and what the replayed loan says of the events of its stream.  *)
(***************************************************************************)
EXTENDS Aggregates, FiniteSetTheorems, WellFoundedInduction, SequenceTheorems, TLAPS

(* Induction over the naturals, for a set of them. *)
LEMMA LessWellFounded == IsWellFoundedOn({p \in Nat \X Nat : p[1] < p[2]}, Nat)
  BY NatLessThanWellFounded DEF OpToRel

LEMMA LeastNatural ==
  ASSUME NEW T, T \subseteq Nat, T # {}
  PROVE  \E x \in T : \A y \in T : x <= y
<1> DEFINE R == {p \in Nat \X Nat : p[1] < p[2]}
<1>1. PICK x \in T : \A y \in T : ~ (<<y, x>> \in R)
  <2>1. IsWellFoundedOn(R, Nat)
    BY LessWellFounded
  <2> HIDE DEF R
  <2> QED
    BY <2>1, WFMin
<1>2. \A y \in T : x <= y
  <2> TAKE y \in T
  <2>1. y \in Nat /\ x \in Nat /\ <<y, x>> \in Nat \X Nat
    OBVIOUS
  <2>2. ~ (y < x)
    BY <1>1, <2>1
  <2> QED
    BY <2>1, <2>2
<1> QED
  BY <1>2

LEMMA Induction ==
  ASSUME NEW T, 0 \in T, \A n \in Nat : n \in T => n + 1 \in T
  PROVE  \A n \in Nat : n \in T
<1> SUFFICES ASSUME Nat \ T # {} PROVE FALSE
  OBVIOUS
<1>1. PICK x \in Nat \ T : \A y \in Nat \ T : x <= y
  <2> DEFINE U == Nat \ T
  <2>1. U \subseteq Nat /\ U # {}
    OBVIOUS
  <2> HIDE DEF U
  <2>2. \E z \in U : \A y \in U : z <= y
    BY <2>1, LeastNatural
  <2> QED
    BY <2>2 DEF U
<1>2. x # 0 /\ x - 1 \in Nat /\ x - 1 \in T
  BY <1>1
<1> QED
  BY <1>1, <1>2

LEMMA MaxOfBounded ==
  ASSUME NEW n \in Nat, NEW S, S \subseteq 1..n, S # {}
  PROVE  Max(S) \in S /\ \A y \in S : Max(S) >= y
<1> DEFINE T == {n - y : y \in S}
<1>1. T \subseteq Nat /\ T # {}
  <2>1. \A y \in S : n - y \in Nat
    OBVIOUS
  <2> QED
    BY <2>1
<1>2. PICK x \in T : \A y \in T : x <= y
  <2> HIDE DEF T
  <2> QED
    BY <1>1, LeastNatural
<1>3. PICK m \in S : x = n - m
  OBVIOUS
<1>4. \A y \in S : m >= y
  BY <1>2, <1>3
<1> QED
  BY <1>3, <1>4 DEF Max

(* The fold of LoanOf: what the recursive function inside it must satisfy,   *)
(* on the subsets of 1..n, for the first n events.                           *)
IsFold(f, events, n) ==
  f = [s \in SUBSET (1..n) |-> IF s = {} THEN NewLoan
                               ELSE ApplyToLoan(f[s \ {Max(s)}], events[Max(s)])]

LEMMA LoanOfFold ==
  ASSUME NEW events, DOMAIN events = 1..Len(events)
  PROVE  LoanOf(events) = (CHOOSE f : IsFold(f, events, Len(events)))[1..Len(events)]
  BY DEF LoanOf, FoldLeft, MapThenFoldSet, IsFold

LEMMA FoldStep ==
  ASSUME NEW events, NEW n \in Nat, NEW f, IsFold(f, events, n)
  PROVE  \E g : IsFold(g, events, n + 1)
<1> DEFINE Body(s) == IF s = {} THEN NewLoan
                      ELSE ApplyToLoan(f[s \ {Max(s)}], events[Max(s)])
           g == [s \in SUBSET (1..(n + 1)) |->
                   IF n + 1 \in s THEN ApplyToLoan(f[s \ {n + 1}], events[n + 1]) ELSE f[s]]
<1>1. SUBSET (1..n) \subseteq SUBSET (1..(n + 1))
  OBVIOUS
<1>2. ASSUME NEW s \in SUBSET (1..(n + 1)), n + 1 \in s
      PROVE  g[s] = ApplyToLoan(g[s \ {Max(s)}], events[Max(s)])
  <2>1. Max(s) = n + 1
    <3>1. Max(s) \in s /\ \A y \in s : Max(s) >= y
      <4>1. n + 1 \in Nat /\ s \subseteq 1..(n + 1) /\ s # {}
        BY <1>2
      <4> QED
        BY <4>1, MaxOfBounded
    <3>2. Max(s) \in 1..(n + 1) /\ Max(s) >= n + 1
      BY <3>1, <1>2
    <3> QED
      BY <3>2
  <2>2. s \ {n + 1} \in SUBSET (1..n)
    OBVIOUS
  <2>3. g[s \ {n + 1}] = f[s \ {n + 1}]
    BY <1>1, <2>2
  <2> QED
    BY <1>2, <2>1, <2>3
<1>3. ASSUME NEW s \in SUBSET (1..(n + 1)), n + 1 \notin s
      PROVE  g[s] = IF s = {} THEN NewLoan ELSE ApplyToLoan(g[s \ {Max(s)}], events[Max(s)])
  <2>1. s \in SUBSET (1..n)
    BY <1>3
  <2>2. s # {} => Max(s) \in s
    BY <2>1, MaxOfBounded
  <2>3. g[s] = f[s] /\ g[s \ {Max(s)}] = f[s \ {Max(s)}]
    BY <1>1, <1>3, <2>1
  <2>4. f[s] = IF s = {} THEN NewLoan ELSE ApplyToLoan(f[s \ {Max(s)}], events[Max(s)])
    BY <2>1 DEF IsFold
  <2> QED
    BY <2>3, <2>4
<1>4. \A s \in SUBSET (1..(n + 1)) :
        g[s] = IF s = {} THEN NewLoan ELSE ApplyToLoan(g[s \ {Max(s)}], events[Max(s)])
  BY <1>2, <1>3
<1>5. IsFold(g, events, n + 1)
  <2>1. g = [s \in SUBSET (1..(n + 1)) |-> g[s]]
    OBVIOUS
  <2> HIDE DEF g
  <2> QED
    BY <1>4, <2>1 DEF IsFold
<1> QED
  BY <1>5

LEMMA FoldExists ==
  ASSUME NEW events, NEW n \in Nat
  PROVE  \E f : IsFold(f, events, n)
<1> DEFINE T == {m \in Nat : \E f : IsFold(f, events, m)}
<1>1. 0 \in T
  <2> DEFINE f == [s \in SUBSET (1..0) |-> NewLoan]
  <2>1. \A s \in SUBSET (1..0) : s = {}
    OBVIOUS
  <2>2. IsFold(f, events, 0)
    BY <2>1 DEF IsFold
  <2> QED
    BY <2>2
<1>2. \A m \in Nat : m \in T => m + 1 \in T
  BY FoldStep
<1>3. \A m \in Nat : m \in T
  <2> HIDE DEF T
  <2> QED
    BY <1>1, <1>2, Induction
<1> QED
  BY <1>3

SamePrefix(s, t, n) == \A i \in 1..n : s[i] = t[i]

(* A fold of more events agrees with a fold of fewer on what they share. *)
LEMMA FoldPrefix ==
  ASSUME NEW s, NEW t, NEW n \in Nat, NEW m \in Nat, n <= m,
         SamePrefix(s, t, n), NEW f, IsFold(f, s, n), NEW g, IsFold(g, t, m)
  PROVE  f[1..n] = g[1..n]
<1> DEFINE T == {k \in Nat : k <= n => f[1..k] = g[1..k]}
<1>1. 0 \in T
  <2>1. 1..0 = {} /\ {} \in SUBSET (1..n) /\ {} \in SUBSET (1..m)
    OBVIOUS
  <2>2. f[{}] = NewLoan /\ g[{}] = NewLoan
    BY <2>1 DEF IsFold
  <2> QED
    BY <2>1, <2>2
<1>2. ASSUME NEW k \in Nat, k \in T PROVE k + 1 \in T
  <2> SUFFICES ASSUME k + 1 <= n PROVE f[1..(k + 1)] = g[1..(k + 1)]
    OBVIOUS
  <2> DEFINE I == 1..(k + 1)
  <2>1. I \in SUBSET (1..n) /\ I \in SUBSET (1..m) /\ I # {} /\ I \ {k + 1} = 1..k /\ k + 1 \in I
    OBVIOUS
  <2>2. Max(I) = k + 1
    <3>1. Max(I) \in I /\ \A y \in I : Max(I) >= y
      BY <2>1, MaxOfBounded
    <3> QED
      BY <3>1
  <2>3. f[I] = ApplyToLoan(f[I \ {Max(I)}], s[Max(I)])
    BY <2>1 DEF IsFold
  <2>4. g[I] = ApplyToLoan(g[I \ {Max(I)}], t[Max(I)])
    BY <2>1 DEF IsFold
  <2>5. f[1..k] = g[1..k] /\ s[k + 1] = t[k + 1]
    BY <1>2 DEF SamePrefix
  <2> HIDE DEF I
  <2> QED
    BY <2>1, <2>2, <2>3, <2>4, <2>5 DEF I
<1>3. \A k \in Nat : k \in T
  <2> HIDE DEF T
  <2> QED
    BY <1>1, <1>2, Induction
<1> QED
  BY <1>3

(* A load of an empty stream, and what one more event makes of it. *)
LEMMA LoanOfEmpty == LoanOf(<<>>) = NewLoan
<1> DEFINE f == CHOOSE f : IsFold(f, <<>>, 0)
<1>1. IsFold(f, <<>>, 0)
  BY FoldExists
<1>2. LoanOf(<<>>) = f[1..0]
  BY LoanOfFold
<1>3. {} \in SUBSET (1..0) /\ 1..0 = {}
  OBVIOUS
<1> HIDE DEF f
<1>4. f[{}] = NewLoan
  BY <1>1, <1>3 DEF IsFold
<1> QED
  BY <1>2, <1>3, <1>4

LEMMA LoanOfAppend ==
  ASSUME NEW S, NEW s \in Seq(S), NEW e \in S
  PROVE  LoanOf(Append(s, e)) = ApplyToLoan(LoanOf(s), e)
<1> DEFINE t == Append(s, e)
           n == Len(s)
           f == CHOOSE f : IsFold(f, s, n)
           g == CHOOSE g : IsFold(g, t, n + 1)
           I == 1..(n + 1)
<1>1. /\ n \in Nat /\ Len(t) = n + 1 /\ DOMAIN s = 1..n /\ DOMAIN t = I
      /\ \A i \in 1..n : s[i] = t[i]
      /\ t[n + 1] = e
  BY AppendProperties, LenProperties
<1> HIDE DEF t, n
<1>2. IsFold(f, s, n) /\ IsFold(g, t, n + 1)
  <2>1. (\E h : IsFold(h, s, n)) /\ (\E h : IsFold(h, t, n + 1))
    <3>1. n \in Nat /\ n + 1 \in Nat
      BY <1>1
    <3> QED
      BY <3>1, FoldExists
  <2> QED
    BY <2>1
<1>3. LoanOf(s) = f[1..n]
  BY <1>1, LoanOfFold DEF n
<1>4. LoanOf(t) = g[I]
  BY <1>1, LoanOfFold
<1> HIDE DEF f, g
<1>5. f[1..n] = g[1..n]
  <2>1. n <= n + 1 /\ n \in Nat /\ n + 1 \in Nat
    BY <1>1
  <2>2. SamePrefix(s, t, n)
    BY <1>1 DEF SamePrefix
  <2> DEFINE m == n + 1
  <2>3. n \in Nat /\ m \in Nat /\ n <= m /\ IsFold(f, s, n) /\ IsFold(g, t, m)
    BY <1>2, <2>1
  <2> HIDE DEF m
  <2> QED
    BY <2>2, <2>3, FoldPrefix
<1>6. I # {} /\ I \ {n + 1} = 1..n /\ I \in SUBSET (1..(n + 1)) /\ n + 1 \in I
  <2>1. n \in Nat
    BY <1>1
  <2> QED
    BY <2>1
<1>7. Max(I) = n + 1
  <2>1. Max(I) \in I /\ \A y \in I : Max(I) >= y
    <3>1. n + 1 \in Nat /\ I \subseteq 1..(n + 1) /\ I # {}
      BY <1>1, <1>6
    <3> HIDE DEF I
    <3> QED
      BY <3>1, MaxOfBounded
  <2>2. n + 1 \in I /\ n \in Nat
    BY <1>1, <1>6
  <2> QED
    BY <2>1, <2>2
<1>8. g[I] = ApplyToLoan(g[I \ {Max(I)}], t[Max(I)])
  BY <1>2, <1>6 DEF IsFold
<1> QED
  BY <1>1, <1>3, <1>4, <1>5, <1>6, <1>7, <1>8 DEF t
-------------------------------------------------------------------------------
(* One event more *)

LEMMA AppendFacts ==
  ASSUME NEW q, q \in Seq(Range(q)), NEW e
  PROVE  /\ Append(q, e) \in Seq(Range(Append(q, e)))
         /\ Len(q) \in Nat /\ Len(Append(q, e)) = Len(q) + 1
         /\ DOMAIN q = 1..Len(q) /\ DOMAIN Append(q, e) = 1..(Len(q) + 1)
         /\ \A i \in 1..Len(q) : Append(q, e)[i] = q[i]
         /\ Append(q, e)[Len(q) + 1] = e
         /\ q = <<>> <=> Len(q) = 0
         /\ Append(q, e) # <<>>
         /\ \A n \in 1..Len(q) : SubSeq(Append(q, e), 1, n) = SubSeq(q, 1, n)
<1> DEFINE S == Range(q) \cup {e}
           a == Append(q, e)
<1>1. q \in Seq(S)
  BY SeqMonotonic
<1>2. a \in Seq(S)
  BY <1>1, AppendProperties
<1>3. a \in Seq(Range(a))
  BY <1>2, SeqOfRange
<1>4. Len(q) \in Nat /\ Len(a) = Len(q) + 1 /\ a[Len(q) + 1] = e
  BY <1>1, AppendProperties, LenProperties
<1>5. DOMAIN q = 1..Len(q) /\ DOMAIN a = 1..(Len(q) + 1)
  BY <1>1, <1>2, <1>4, LenProperties
<1>6. \A i \in 1..Len(q) : a[i] = q[i]
  BY <1>1, AppendProperties
<1>7. (q = <<>> <=> Len(q) = 0) /\ a # <<>>
  BY <1>1, <1>2, <1>4, EmptySeq
<1>8. ASSUME NEW n \in 1..Len(q) PROVE SubSeq(a, 1, n) = SubSeq(q, 1, n)
  <2>1. /\ SubSeq(a, 1, n) = [i \in 1..n |-> a[i]]
        /\ SubSeq(q, 1, n) = [i \in 1..n |-> q[i]]
    BY <1>1, <1>2, <1>4
  <2>2. \A i \in 1..n : a[i] = q[i]
    BY <1>4, <1>6
  <2> QED
    BY <2>1, <2>2
<1> QED
  BY <1>3, <1>4, <1>5, <1>6, <1>7, <1>8

-------------------------------------------------------------------------------
(* The states of a loan *)

LoanType ==
  [ok : BOOLEAN, version : Nat, state : States, fraud : BOOLEAN, credit : BOOLEAN,
   human : {"NONE", "APPROVE", "DECLINE"}]

(* The states of an application before its compliance review. *)
BeforeReview == {"NONE", "SUBMITTED", "AWAITING_ANALYSIS", "ANALYSIS_COMPLETE"}

(* And those in which a credit analysis may still be missing. *)
Unanalysed == {"NONE", "SUBMITTED", "AWAITING_ANALYSIS"}

AtMostOne(S) == \A i, j \in S : i = j

(* What the replayed loan says of the events of its stream. *)
Shape(q) ==
  LET loan == LoanOf(q)
  IN /\ loan \in LoanType
     /\ loan.version \in 0..Len(q)
     /\ loan.ok <=> loan.version = Len(q)
     /\ loan.ok =>
          /\ loan.credit <=> OfType(q, "CreditAnalysisCompleted") # {}
          /\ loan.state \in BeforeReview => OfType(q, "ComplianceReviewStarted") = {}
          /\ AtMostOne(OfType(q, "ComplianceReviewStarted"))
          /\ loan.state \notin Unanalysed => loan.credit
          /\ \A i \in OfType(q, "DecisionGenerated") :
               \E k \in OfType(q, "CreditAnalysisCompleted") : k < i

LEMMA AtMostOneCardinality ==
  ASSUME NEW S, AtMostOne(S)
  PROVE  IsFiniteSet(S) /\ Cardinality(S) <= 1
<1>1. CASE S = {}
  BY <1>1, FS_EmptySet
<1>2. CASE S # {}
  <2>1. PICK x : S = {x}
    BY <1>2 DEF AtMostOne
  <2>2. IsFiniteSet({x}) /\ Cardinality({x}) = 1
    BY FS_Singleton
  <2> QED
    BY <2>1, <2>2
<1> QED
  BY <1>1, <1>2

(* One event more on an aggregate. *)
Took(loan, e) ==
  /\ loan.ok
  /\ loan.state \in Accepts(e.type)
  /\ e.type = "ApplicationApproved" => loan.human = "APPROVE"

LEMMA ApplyFacts ==
  ASSUME NEW loan \in LoanType, NEW e, e.type \in LoanEvents
  PROVE  LET next == ApplyToLoan(loan, e)
         IN /\ next \in LoanType
            /\ next.ok <=> Took(loan, e)
            /\ next.version = IF Took(loan, e) THEN loan.version + 1 ELSE loan.version
            /\ next.ok =>
                 /\ next.credit <=> loan.credit \/ e.type = "CreditAnalysisCompleted"
                 /\ next.state \in BeforeReview =>
                      loan.state \in BeforeReview /\ e.type # "ComplianceReviewStarted"
                 /\ e.type = "ComplianceReviewStarted" => loan.state = "ANALYSIS_COMPLETE"
                 /\ e.type = "DecisionGenerated" => loan.state \notin Unanalysed
                 /\ next.state \notin Unanalysed => loan.state \notin Unanalysed \/ next.credit
<1> DEFINE n == Accepted(loan, e)
<1>1. CASE Took(loan, e)
  <2>1. ApplyToLoan(loan, e) = [n EXCEPT !.version = loan.version + 1]
    BY <1>1 DEF ApplyToLoan, Took
  <2>2. /\ n \in LoanType /\ n.ok
        /\ n.credit <=> loan.credit \/ e.type = "CreditAnalysisCompleted"
        /\ n.state \in BeforeReview =>
             loan.state \in BeforeReview /\ e.type # "ComplianceReviewStarted"
        /\ e.type = "ComplianceReviewStarted" => loan.state = "ANALYSIS_COMPLETE"
        /\ e.type = "DecisionGenerated" => loan.state \notin Unanalysed
        /\ n.state \notin Unanalysed => loan.state \notin Unanalysed \/ n.credit
    <3>1. CASE e.type = "ApplicationSubmitted"
      BY <1>1, <3>1 DEF Took, Accepts, Accepted, LoanType, States, BeforeReview, Unanalysed
    <3>2. CASE e.type = "CreditAnalysisRequested"
      BY <1>1, <3>2 DEF Took, Accepts, Accepted, LoanType, States, BeforeReview, Unanalysed
    <3>3. CASE e.type = "FraudScreeningCompleted"
      BY <1>1, <3>3 DEF Took, Accepts, Accepted, AnalysisState, LoanType, States, BeforeReview, Unanalysed
    <3>4. CASE e.type = "CreditAnalysisCompleted"
      BY <1>1, <3>4 DEF Took, Accepts, Accepted, AnalysisState, LoanType, States, BeforeReview, Unanalysed
    <3>5. CASE e.type = "ComplianceReviewStarted"
      BY <1>1, <3>5 DEF Took, Accepts, Accepted, LoanType, States, BeforeReview, Unanalysed
    <3>6. CASE e.type = "DecisionGenerated"
      BY <1>1, <3>6 DEF Took, Accepts, Accepted, LoanType, States, BeforeReview, Unanalysed
    <3>7. CASE e.type = "HumanReviewRequested"
      BY <1>1, <3>7 DEF Took, Accepts, Accepted, LoanType, States, BeforeReview, Unanalysed
    <3>8. CASE e.type = "HumanReviewCompleted"
      BY <1>1, <3>8 DEF Took, Accepts, Accepted, LoanType, States, BeforeReview, Unanalysed
    <3>9. CASE e.type = "ApplicationApproved"
      BY <1>1, <3>9 DEF Took, Accepts, Accepted, LoanType, States, BeforeReview, Unanalysed
    <3> QED
      BY <3>1, <3>2, <3>3, <3>4, <3>5, <3>6, <3>7, <3>8, <3>9 DEF LoanEvents
  <2> HIDE DEF n
  <2>3. loan.version + 1 \in Nat
    BY DEF LoanType
  <2> QED
    BY <1>1, <2>1, <2>2, <2>3 DEF LoanType
<1>2. CASE ~ Took(loan, e)
  <2>1. ApplyToLoan(loan, e) = [loan EXCEPT !.ok = FALSE]
    BY <1>2 DEF ApplyToLoan, Took
  <2> QED
    BY <1>2, <2>1 DEF LoanType
<1> QED
  BY <1>1, <1>2

LEMMA OfTypeAppend ==
  ASSUME NEW q, q \in Seq(Range(q)), NEW e, NEW type
  PROVE  OfType(Append(q, e), type) =
           IF e.type = type THEN OfType(q, type) \cup {Len(q) + 1} ELSE OfType(q, type)
<1> DEFINE a == Append(q, e)
<1>1. /\ Len(q) \in Nat /\ DOMAIN q = 1..Len(q) /\ DOMAIN a = 1..(Len(q) + 1)
      /\ \A i \in 1..Len(q) : a[i] = q[i]
      /\ a[Len(q) + 1] = e
  BY AppendFacts
<1>2. 1..(Len(q) + 1) = 1..Len(q) \cup {Len(q) + 1} /\ Len(q) + 1 \notin 1..Len(q)
  BY <1>1
<1> HIDE DEF a
<1>3. \A i : i \in OfType(a, type) <=> i \in OfType(q, type) \/ (i = Len(q) + 1 /\ e.type = type)
  BY <1>1, <1>2 DEF OfType
<1> QED
  BY <1>3 DEF a

LEMMA LoanOfNext ==
  ASSUME NEW q, q \in Seq(Range(q)), NEW e
  PROVE  LoanOf(Append(q, e)) = ApplyToLoan(LoanOf(q), e)
<1> DEFINE S == Range(q) \cup {e}
<1>1. q \in Seq(S) /\ e \in S
  BY SeqMonotonic
<1> HIDE DEF S
<1> QED
  BY <1>1, LoanOfAppend

LEMMA ShapeStep ==
  ASSUME NEW q, q \in Seq(Range(q)), Shape(q), NEW e, e.type \in LoanEvents
  PROVE  Shape(Append(q, e))
<1> DEFINE a == Append(q, e)
           loan == LoanOf(q)
           next == LoanOf(a)
           C == "CreditAnalysisCompleted"
           B == "ComplianceReviewStarted"
           D == "DecisionGenerated"
<1>1. loan \in LoanType /\ next = ApplyToLoan(loan, e)
  BY LoanOfNext DEF Shape
<1>2. /\ loan.version \in 0..Len(q)
      /\ loan.ok <=> loan.version = Len(q)
      /\ loan.ok => /\ loan.credit <=> OfType(q, C) # {}
                    /\ loan.state \in BeforeReview => OfType(q, B) = {}
                    /\ AtMostOne(OfType(q, B))
                    /\ loan.state \notin Unanalysed => loan.credit
                    /\ \A i \in OfType(q, D) : \E k \in OfType(q, C) : k < i
  BY DEF Shape
<1>3. Len(q) \in Nat /\ Len(a) = Len(q) + 1
  BY AppendFacts
<1> HIDE DEF a, loan, next
<1>4. /\ next \in LoanType
      /\ next.ok <=> Took(loan, e)
      /\ next.version = IF Took(loan, e) THEN loan.version + 1 ELSE loan.version
      /\ next.ok => /\ next.credit <=> loan.credit \/ e.type = C
                    /\ next.state \in BeforeReview => loan.state \in BeforeReview /\ e.type # B
                    /\ e.type = B => loan.state = "ANALYSIS_COMPLETE"
                    /\ e.type = D => loan.state \notin Unanalysed
                    /\ next.state \notin Unanalysed => loan.state \notin Unanalysed \/ next.credit
  BY <1>1, ApplyFacts
<1>5. next.version \in 0..Len(a) /\ (next.ok <=> next.version = Len(a))
  BY <1>2, <1>3, <1>4 DEF Took
<1>6. ASSUME next.ok
      PROVE  /\ next.credit <=> OfType(a, C) # {}
             /\ next.state \in BeforeReview => OfType(a, B) = {}
             /\ AtMostOne(OfType(a, B))
             /\ next.state \notin Unanalysed => next.credit
             /\ \A i \in OfType(a, D) : \E k \in OfType(a, C) : k < i
  <2>1. loan.ok
    BY <1>4, <1>6 DEF Took
  <2>2. /\ OfType(a, C) = IF e.type = C THEN OfType(q, C) \cup {Len(q) + 1} ELSE OfType(q, C)
        /\ OfType(a, B) = IF e.type = B THEN OfType(q, B) \cup {Len(q) + 1} ELSE OfType(q, B)
    BY OfTypeAppend DEF a
  <2>3. next.credit <=> OfType(a, C) # {}
    BY <1>2, <1>4, <1>6, <2>1, <2>2
  <2>4. e.type = B => OfType(q, B) = {}
    BY <1>2, <1>4, <1>6, <2>1 DEF BeforeReview
  <2>5. next.state \notin Unanalysed => next.credit
    BY <1>2, <1>4, <1>6, <2>1
  <2>6. ASSUME NEW i \in OfType(a, D) PROVE \E k \in OfType(a, C) : k < i
    <3>1. OfType(a, D) = IF e.type = D THEN OfType(q, D) \cup {Len(q) + 1} ELSE OfType(q, D)
      BY OfTypeAppend DEF a
    <3>2. OfType(q, C) \subseteq OfType(a, C)
      BY <2>2
    <3>3. CASE i \in OfType(q, D)
      BY <1>2, <2>1, <3>2, <3>3
    <3>4. CASE i = Len(q) + 1 /\ e.type = D
      <4>1. OfType(q, C) # {} /\ OfType(q, C) \subseteq 1..Len(q)
        BY <1>2, <1>4, <1>6, <2>1, <3>4, LenProperties DEF OfType
      <4>2. PICK k \in OfType(q, C) : k \in 1..Len(q)
        BY <4>1
      <4> QED
        BY <1>3, <3>2, <3>4, <4>2
    <3> QED
      BY <3>1, <3>3, <3>4
  <2> QED
    BY <1>2, <1>4, <1>6, <2>1, <2>2, <2>3, <2>4, <2>5, <2>6 DEF AtMostOne
<1> QED
  BY <1>4, <1>5, <1>6 DEF Shape, next, a

LEMMA ShapeOfEmpty == Shape(<<>>)
<1>1. NewLoan \in LoanType
  BY DEF NewLoan, LoanType, States
<1>2. /\ NewLoan.version = 0 /\ NewLoan.ok /\ ~ NewLoan.credit /\ NewLoan.state \in Unanalysed
  BY DEF NewLoan, Unanalysed
<1>3. \A type : OfType(<<>>, type) = {}
  BY DEF OfType
<1> QED
  BY <1>1, <1>2, <1>3, LoanOfEmpty DEF Shape, AtMostOne

(* Every stream of loan events has this shape. *)
LEMMA ShapeOfLoan ==
  ASSUME NEW q, q \in Seq(Range(q)), \A i \in DOMAIN q : q[i].type \in LoanEvents
  PROVE  Shape(q)
<1> DEFINE P(n) == SubSeq(q, 1, n)
           T == {n \in Nat : n <= Len(q) => P(n) \in Seq(Range(P(n))) /\ Shape(P(n))}
<1>1. Len(q) \in Nat /\ DOMAIN q = 1..Len(q)
  BY LenProperties
<1>2. 0 \in T
  <2>1. P(0) = <<>>
    OBVIOUS
  <2>2. <<>> \in Seq(Range(<<>>))
    OBVIOUS
  <2> QED
    BY <2>1, <2>2, ShapeOfEmpty
<1>3. ASSUME NEW n \in Nat, n \in T PROVE n + 1 \in T
  <2> SUFFICES ASSUME n + 1 <= Len(q)
               PROVE  P(n + 1) \in Seq(Range(P(n + 1))) /\ Shape(P(n + 1))
    OBVIOUS
  <2> DEFINE p == P(n)
             e == q[n + 1]
  <2>1. p \in Seq(Range(p)) /\ Shape(p)
    BY <1>1, <1>3
  <2>2. e.type \in LoanEvents
    BY <1>1
  <2>3. P(n + 1) = Append(p, e)
    <3>1. /\ P(n + 1) = [i \in 1..(n + 1) |-> q[i]]
          /\ p = [i \in 1..n |-> q[i]] /\ Len(p) = n
      BY <1>1
    <3>2. /\ Append(p, e) \in Seq(Range(Append(p, e)))
          /\ Len(Append(p, e)) = n + 1
          /\ \A i \in 1..n : Append(p, e)[i] = p[i]
          /\ Append(p, e)[n + 1] = e
      <4>1. Len(p) = n
        BY <3>1
      <4> HIDE DEF p, e
      <4> QED
        BY <2>1, <4>1, AppendFacts
    <3>3. Append(p, e) = [i \in 1..(n + 1) |-> Append(p, e)[i]]
      BY <3>2, LenProperties
    <3>4. \A i \in 1..(n + 1) : Append(p, e)[i] = q[i]
      BY <3>1, <3>2
    <3> QED
      BY <3>1, <3>3, <3>4
  <2> HIDE DEF p, e
  <2>4. Append(p, e) \in Seq(Range(Append(p, e))) /\ Shape(Append(p, e))
    BY <2>1, <2>2, ShapeStep, AppendFacts
  <2> QED
    BY ONLY <2>3, <2>4
<1>4. \A n \in Nat : n \in T
  <2> HIDE DEF T
  <2> QED
    BY <1>2, <1>3, Induction
<1>5. P(Len(q)) = q
  BY <1>1
<1> HIDE DEF P
<1>6. Shape(P(Len(q)))
  BY <1>1, <1>4
<1> QED
  BY <1>5, <1>6
===============================================================================
