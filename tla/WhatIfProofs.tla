------------------------------ MODULE WhatIfProofs ------------------------------
(***************************************************************************)
(* Proofs about WhatIf and CausalChain: the causes that the handlers write *)
(* always lead back in time, and what a counterfactual history and a       *)
(* causal chain make of them, whatever callers raced on the streams.       *)
(***************************************************************************)
EXTENDS CausalChain, LoanCommandsProofs

-------------------------------------------------------------------------------
(* The causes that the handlers write *)

CauseInv ==
  /\ OnePosition(streams, clock)
  /\ CausesPrecede(streams)
  /\ \A i \in DOMAIN streams["loan"] : streams["loan"][i].type \in LoanEvents
  /\ \A c \in Clients : seen[c].cause \in 0..clock

(* A load, or the end of a call. *)
Looks(c, what) ==
  /\ Frame
  /\ \/ seen' = [seen EXCEPT ![c] = what]
     \/ seen' = [seen EXCEPT ![c] = Nothing]

(* An append, or the end of a call. *)
Tells(c, s, e) ==
  /\ \/ seen' = seen
     \/ seen' = [seen EXCEPT ![c] = Nothing]
  /\ \/ Frame
     \/ /\ streams' = [streams EXCEPT ![s] = Append(@, e)]
        /\ clock' = e.gp

(* An event that names an earlier one. *)
Traced(s, e) ==
  /\ s \in StreamIds
  /\ e.gp = clock + 1
  /\ e.cause \in 0..clock
  /\ s = "loan" => /\ e.type \in LoanEvents
                   /\ e.type = "DecisionGenerated" =>
                        streams["loan"] # <<>> /\ e.cause = LastEvent("loan")

(* What is written of causes after a step of a call. *)
Traces(c) ==
  \/ \E what : Looks(c, what) /\ what.cause \in 0..clock
  \/ \E s, e : Tells(c, s, e) /\ (~ Frame => Traced(s, e))

LEMMA LastEventDrawn ==
  ASSUME LoanInv, NEW s \in StreamIds
  PROVE  LastEvent(s) \in 0..clock /\ (streams[s] # <<>> => LastEvent(s) = streams[s][Len(streams[s])].gp)
<1>1. /\ streams[s] \in Seq(Range(streams[s])) /\ clock \in Nat
      /\ \A i \in DOMAIN streams[s] : streams[s][i].gp \in 1..clock
  BY DEF LoanInv, StoreInv, WellFormed
<1>2. streams[s] # <<>> => Len(streams[s]) \in DOMAIN streams[s]
  BY <1>1, LenProperties, EmptySeq
<1> QED
  BY <1>1, <1>2 DEF LastEvent, Last

LEMMA LoadsTrace ==
  ASSUME LoanInv, StateInv, CauseInv, NEW c \in Clients,
         \/ SubmitLoad(c) \/ SubmitReload(c) \/ CreditLoadLoan(c) \/ CreditReloadLoan(c) \/ CreditCheckBridge(c)
         \/ FraudLoad(c) \/ FraudReloadLoan(c) \/ DecisionLoad(c) \/ DecisionReload(c)
         \/ RequestReviewLoad(c) \/ ReviewLoad(c) \/ ReviewReload(c)
  PROVE  Traces(c)
<1> DEFINE what == [seen[c] EXCEPT !.loan = Loan]
<1>1. what.cause \in 0..clock
  BY DEF StateInv, GoodSeen, Nothing, CauseInv
<1> SUFFICES Looks(c, what)
  BY <1>1 DEF Traces
<1> QED
  BY DEF Looks, Frame, Read, LoadLoan, Goto, Finish, SubmitLoad, SubmitReload, CreditLoadLoan,
         CreditReloadLoan, CreditCheckBridge, FraudLoad, FraudReloadLoan, DecisionLoad,
         DecisionReload, RequestReviewLoad, ReviewLoad, ReviewReload

LEMMA ReadsTrace ==
  ASSUME LoanInv, StateInv, CauseInv, NEW c \in Clients,
         \/ StartLoad(c) \/ CreditLoadSession(c) \/ CreditLoadLoanEvents(c) \/ CreditValidate(c)
         \/ CreditReloadAgent(c) \/ FraudSummaryVersion(c) \/ FraudLoadAgent(c)
         \/ FraudCheckBridge(c) \/ ComplianceLoad(c) \/ ComplianceReload(c)
         \/ DecisionValidateCausalChain(c) \/ ReviewGate(c)
  PROVE  Traces(c)
<1>1. DOMAIN seen[c] = DOMAIN Nothing /\ seen[c].cause \in 0..clock
  BY DEF StateInv, GoodSeen, CauseInv
<1>2. ASSUME NEW what, Looks(c, what), what.cause = seen[c].cause
      PROVE  Traces(c)
  BY <1>1, <1>2 DEF Traces
<1> USE <1>1 DEF Looks, Frame, Read, Goto, Finish
<1>3. CASE \/ StartLoad(c) \/ FraudCheckBridge(c) \/ DecisionValidateCausalChain(c)
           \/ ReviewGate(c)
  <2>1. Looks(c, seen[c])
    BY <1>3 DEF StartLoad, FraudCheckBridge, DecisionValidateCausalChain, ReviewGate
  <2> QED
    BY <1>2, <2>1
<1>4. CASE CreditLoadSession(c)
  <2>1. PICK n : Looks(c, [seen[c] EXCEPT !.lastCredit = n])
    BY <1>4 DEF CreditLoadSession
  <2> QED
    BY <1>2, <2>1 DEF Nothing
<1>5. CASE CreditLoadLoanEvents(c)
  <2>1. PICK n : Looks(c, [seen[c] EXCEPT !.overridden = n])
    BY <1>5 DEF CreditLoadLoanEvents
  <2> QED
    BY <1>2, <2>1 DEF Nothing
<1>6. CASE CreditValidate(c) \/ CreditReloadAgent(c) \/ FraudLoadAgent(c)
  <2>1. PICK n : Looks(c, [seen[c] EXCEPT !.agent = n])
    BY <1>6 DEF CreditValidate, CreditReloadAgent, FraudLoadAgent
  <2> QED
    BY <1>2, <2>1 DEF Nothing
<1>7. CASE FraudSummaryVersion(c) \/ ComplianceLoad(c)
  <2>1. PICK n : Looks(c, [seen[c] EXCEPT !.version = n])
    BY <1>7 DEF FraudSummaryVersion, ComplianceLoad
  <2> QED
    BY <1>2, <2>1 DEF Nothing
<1>8. CASE ComplianceReload(c)
  <2>1. Looks(c, [seen[c] EXCEPT !.version = Len(streams["compliance"]), !.passes = @ + 1])
    BY <1>8 DEF ComplianceReload
  <2> QED
    BY <1>2, <2>1 DEF Nothing
<1> QED
  BY <1>3, <1>4, <1>5, <1>6, <1>7, <1>8

LEMMA IdsTrace ==
  ASSUME LoanInv, StateInv, CauseInv, NEW c \in Clients,
         CreditAnchorId(c) \/ CreditId(c) \/ FraudId(c)
  PROVE  Traces(c)
<1>1. DOMAIN seen[c] = DOMAIN Nothing /\ Commanded(c)
  BY DEF StateInv, GoodSeen, LoanInv, CallInv
<1>2. PICK s \in StreamIds : Looks(c, [seen[c] EXCEPT !.cause = LastEvent(s)])
  <2>1. CASE CreditAnchorId(c) \/ CreditId(c)
    <3>1. cmd[c].session \in StreamIds
      BY <1>1, <2>1, SessionsApart, CommandFacts DEF CreditAnchorId, CreditId, Commanded, CreditSteps
    <3> QED
      BY <2>1, <3>1 DEF Looks, Frame, Read, ReadLastEvent, Goto, Finish, CreditAnchorId, CreditId
  <2>2. CASE FraudId(c)
    BY <2>2, SessionsApart DEF Looks, Frame, Read, ReadLastEvent, Goto, Finish, FraudId
  <2> QED
    BY <2>1, <2>2
<1> QED
  BY <1>1, <1>2, LastEventDrawn DEF Traces, Nothing

LEMMA AppendTraces ==
  ASSUME StateInv, NEW c \in Clients, NEW s, NEW expected, NEW e, NEW step,
         AppendTo(c, s, expected, e, step), Matches(expected, streams[s]) => Traced(s, e)
  PROVE  Traces(c)
<1>1. Tells(c, s, e)
  BY DEF AppendTo, Goto, Finish, Frame, Tells
<1>2. ~ Frame => Traced(s, e)
  BY DEF AppendTo, Frame
<1> QED
  BY <1>1, <1>2 DEF Traces

LEMMA LoanAppendsTrace ==
  ASSUME LoanInv, StateInv, CauseInv, NEW c \in Clients,
         \/ SubmitAppend(c) \/ SubmitRequest(c) \/ CreditAppendLoan(c) \/ AppendBridge(c)
         \/ FraudAppendLoan(c) \/ DecisionAppend(c) \/ RequestReviewAppend(c)
         \/ ReviewAppend(c) \/ ReviewApprove(c)
  PROVE  Traces(c)
<1>1. /\ LastEvent("loan") \in 0..clock /\ seen[c].cause \in 0..clock /\ 0 \in 0..clock
      /\ "loan" \in StreamIds
  BY LoanSeq, SessionsApart, LastEventDrawn DEF CauseInv
<1>2. ASSUME NEW e, NEW expected, NEW step, AppendTo(c, "loan", expected, e, step),
             e.gp = clock + 1, e.type \in LoanEvents, e.cause \in 0..clock,
             e.type = "DecisionGenerated" => FALSE
      PROVE  Traces(c)
  BY <1>1, <1>2, AppendTraces DEF Traced
<1>3. ASSUME NEW type \in LoanEvents, NEW cause \in 0..clock, NEW expected, NEW step,
             AppendTo(c, "loan", expected, Event(type, cause), step), type # "DecisionGenerated"
      PROVE  Traces(c)
  <2>1. /\ Event(type, cause).gp = clock + 1 /\ Event(type, cause).type = type
        /\ Event(type, cause).cause = cause
    BY DEF Event
  <2> QED
    BY <1>2, <1>3, <2>1
<1> USE DEF LoanEvents
<1>4. CASE SubmitAppend(c)
  BY <1>1, <1>3, <1>4 DEF SubmitAppend
<1>5. CASE SubmitRequest(c)
  BY <1>1, <1>3, <1>5 DEF SubmitRequest
<1>6. CASE CreditAppendLoan(c)
  <2> DEFINE e == Credit(cmd[c].session, cmd[c].model, seen[c].cause)
  <2>1. e.gp = clock + 1 /\ e.type = "CreditAnalysisCompleted" /\ e.cause = seen[c].cause
    BY DEF Credit
  <2>2. AppendTo(c, "loan", seen[c].loan.version, e, "credit_check_bridge")
    BY <1>6 DEF CreditAppendLoan
  <2> HIDE DEF e
  <2> QED
    BY <1>1, <1>2, <2>1, <2>2
<1>7. CASE AppendBridge(c)
  BY <1>1, <1>3, <1>7 DEF AppendBridge
<1>8. CASE FraudAppendLoan(c)
  BY <1>1, <1>3, <1>8 DEF FraudAppendLoan
<1>9. CASE DecisionAppend(c)
  <2> DEFINE expected == seen[c].loan.version
             e == [type |-> "DecisionGenerated", gp |-> clock + 1, cause |-> LastEvent("loan"),
                   sessions |-> cmd[c].sessions]
  <2>1. AppendTo(c, "loan", expected, e, "idle")
    BY <1>9 DEF DecisionAppend
  <2>2. expected \in Nat
    BY LoanSeq DEF StateInv, GoodSeen
  <2> HIDE DEF expected
  <2>3. Matches(expected, streams["loan"]) => streams["loan"] # <<>>
    BY <2>2 DEF Matches, NewStream
  <2>4. /\ e.gp = clock + 1 /\ e.type = "DecisionGenerated" /\ e.cause = LastEvent("loan")
    OBVIOUS
  <2> HIDE DEF e
  <2> QED
    BY <1>1, <2>1, <2>3, <2>4, AppendTraces DEF Traced
<1>10. CASE RequestReviewAppend(c)
  BY <1>1, <1>3, <1>10 DEF RequestReviewAppend
<1>11. CASE ReviewAppend(c)
  <2> DEFINE e == [type |-> "HumanReviewCompleted", gp |-> clock + 1, cause |-> 0,
                   final |-> cmd[c].final, override |-> cmd[c].override]
             step == IF cmd[c].emit THEN "review_reload" ELSE "idle"
  <2>1. AppendTo(c, "loan", seen[c].loan.version, e, step)
    BY <1>11 DEF ReviewAppend
  <2>2. e.gp = clock + 1 /\ e.type = "HumanReviewCompleted" /\ e.cause = 0
    OBVIOUS
  <2> HIDE DEF e, step
  <2> QED
    BY <1>1, <1>2, <2>1, <2>2
<1>12. CASE ReviewApprove(c)
  BY <1>1, <1>3, <1>12 DEF ReviewApprove
<1> QED
  BY <1>4, <1>5, <1>6, <1>7, <1>8, <1>9, <1>10, <1>11, <1>12

LEMMA OtherAppendsTrace ==
  ASSUME LoanInv, StateInv, CauseInv, NEW c \in Clients,
         \/ StartAppend(c) \/ CreditAnchor(c) \/ CreditAppendAgent(c)
         \/ ComplianceAppendRequest(c) \/ ComplianceAppendPass(c)
         \/ FraudAppendSummary(c) \/ FraudAppendAgent(c)
  PROVE  Traces(c)
<1>0. Commanded(c)
  BY DEF LoanInv, CallInv
<1>1. 0 \in 0..clock /\ seen[c].cause \in 0..clock
  BY LoanSeq DEF CauseInv
<1>2. ASSUME NEW s \in StreamIds, s # "loan", NEW e, NEW expected, NEW step,
             AppendTo(c, s, expected, e, step), e.gp = clock + 1, e.cause \in 0..clock
      PROVE  Traces(c)
  BY <1>2, AppendTraces DEF Traced
<1>3. CASE StartAppend(c) \/ CreditAnchor(c)
  <2> DEFINE s == cmd[c].session
             e == Anchor(cmd[c].model)
  <2>1. PICK step : AppendTo(c, s, NewStream, e, step)
    BY <1>3 DEF StartAppend, CreditAnchor
  <2>2. e.gp = clock + 1 /\ e.cause = 0
    BY DEF Anchor
  <2>3. s \in StreamIds /\ s # "loan"
    BY <1>0, <1>3, SessionsApart, CommandFacts
       DEF StartAppend, CreditAnchor, Commanded, StartSteps, CreditSteps
  <2> HIDE DEF s, e
  <2> QED
    BY <1>1, <1>2, <2>1, <2>2, <2>3
<1>4. CASE CreditAppendAgent(c)
  <2> DEFINE s == cmd[c].session
             e == Credit(s, cmd[c].model, CreditCause(c))
  <2>1. AppendTo(c, s, seen[c].agent.version, e, "credit_id")
    BY <1>4 DEF CreditAppendAgent
  <2>2. s \in StreamIds /\ s # "loan"
    BY <1>0, <1>4, SessionsApart, CommandFacts DEF CreditAppendAgent, Commanded, CreditSteps
  <2>3. e.gp = clock + 1 /\ e.cause = CreditCause(c)
    BY DEF Credit
  <2>4. CreditCause(c) \in 0..clock
    BY <1>1, <2>2, LastEventDrawn DEF CreditCause
  <2> HIDE DEF s, e
  <2> QED
    BY <1>2, <2>1, <2>2, <2>3, <2>4
<1>5. CASE ComplianceAppendRequest(c)
  <2> DEFINE e == [type |-> "ComplianceCheckRequested", gp |-> clock + 1, cause |-> 0,
                   required |-> cmd[c].required]
  <2>1. PICK step : AppendTo(c, "compliance", OrNew(seen[c].version), e, step)
    BY <1>5 DEF ComplianceAppendRequest
  <2>2. e.gp = clock + 1 /\ e.cause = 0
    OBVIOUS
  <2> HIDE DEF e
  <2> QED
    BY <1>1, <1>2, <2>1, <2>2, SessionsApart
<1>6. CASE ComplianceAppendPass(c)
  <2> DEFINE e == [type |-> "ComplianceRulePassed", gp |-> clock + 1, cause |-> 0,
                   rule |-> cmd[c].passes[seen[c].passes]]
  <2>1. PICK step : AppendTo(c, "compliance", seen[c].version, e, step)
    BY <1>6 DEF ComplianceAppendPass
  <2>2. e.gp = clock + 1 /\ e.cause = 0
    OBVIOUS
  <2> HIDE DEF e
  <2> QED
    BY <1>1, <1>2, <2>1, <2>2, SessionsApart
<1>7. CASE FraudAppendSummary(c)
  <2> DEFINE e == Event("FraudScreeningCompleted", seen[c].cause)
  <2>1. PICK step : AppendTo(c, "fraud", OrNew(seen[c].version), e, step)
    BY <1>7 DEF FraudAppendSummary
  <2>2. e.gp = clock + 1 /\ e.cause = seen[c].cause
    BY DEF Event
  <2> HIDE DEF e
  <2> QED
    BY <1>1, <1>2, <2>1, <2>2, SessionsApart
<1>8. CASE FraudAppendAgent(c)
  <2> DEFINE s == cmd[c].mirror
             e == Event("FraudScreeningCompleted", LastEvent(s))
  <2>1. AppendTo(c, s, seen[c].agent.version, e, "fraud_reload_loan")
    BY <1>8 DEF FraudAppendAgent
  <2>2. s \in StreamIds /\ s # "loan"
    BY <1>0, <1>8, SessionsApart, CommandFacts DEF FraudAppendAgent, Commanded, FraudSteps
  <2>3. e.gp = clock + 1 /\ e.cause = LastEvent(s)
    BY DEF Event
  <2> HIDE DEF s, e
  <2> QED
    BY <1>2, <2>1, <2>2, <2>3, LastEventDrawn
<1> QED
  BY <1>3, <1>4, <1>5, <1>6, <1>7, <1>8

LEMMA CauseNext ==
  ASSUME LoanInv, LoanInv', StateInv, CauseInv, NEW c \in Clients, Traces(c)
  PROVE  CauseInv'
<1>0. /\ clock \in Nat
      /\ seen = [d \in Clients |-> seen[d]]
      /\ \A d \in Clients : seen[d].cause \in 0..clock
      /\ Nothing.cause = 0
  BY LoanSeq DEF StateInv, CauseInv, Nothing
<1>1. ASSUME Frame, NEW what, what.cause \in 0..clock, seen' = [seen EXCEPT ![c] = what]
      PROVE  CauseInv'
  BY <1>0, <1>1 DEF Frame, CauseInv
<1>2. CASE \E what : Looks(c, what) /\ what.cause \in 0..clock
  <2>1. Nothing.cause \in 0..clock
    BY <1>0
  <2> QED
    BY <1>1, <1>2, <2>1 DEF Looks
<1>3. ASSUME NEW s, NEW e, Tells(c, s, e), ~ Frame => Traced(s, e)
      PROVE  CauseInv'
  <2>1. CASE Frame
    <3>1. seen' = seen => CauseInv'
      BY <2>1 DEF Frame, CauseInv
    <3> QED
      BY <1>0, <1>1, <1>3, <2>1, <3>1 DEF Tells
  <2>2. CASE ~ Frame
    <3>1. /\ streams' = [streams EXCEPT ![s] = Append(@, e)] /\ clock' = clock + 1
          /\ s \in StreamIds /\ e.gp = clock + 1 /\ e.cause \in 0..clock
          /\ s = "loan" => /\ e.type \in LoanEvents
                           /\ e.type = "DecisionGenerated" =>
                                streams["loan"] # <<>> /\ e.cause = LastEvent("loan")
      BY <1>3, <2>2 DEF Tells, Traced
    <3>2. \A d \in Clients : seen'[d].cause \in 0..clock'
      <4>1. \A d \in Clients : seen'[d].cause \in {seen[d].cause, 0}
        BY <1>0, <1>3 DEF Tells
      <4> QED
        BY <1>0, <3>1, <4>1
    <3>3. ASSUME NEW t \in StreamIds
          PROVE  /\ Len(streams[t]) \in Nat /\ DOMAIN streams[t] = 1..Len(streams[t])
                 /\ \A i \in DOMAIN streams[t] : /\ i \in DOMAIN streams'[t]
                                                 /\ streams'[t][i] = streams[t][i]
                                                 /\ streams[t][i].gp \in 1..clock
                 /\ \A i \in DOMAIN streams'[t] :
                      \/ i \in DOMAIN streams[t]
                      \/ t = s /\ i = Len(streams[t]) + 1 /\ streams'[t][i] = e
      BY <3>1, Appended DEF LoanInv, StoreInv, WellFormed
    <3>4. /\ Len(streams[s]) + 1 \in DOMAIN streams'[s]
          /\ streams'[s][Len(streams[s]) + 1] = e
      <4>1. DOMAIN streams = StreamIds /\ streams[s] \in Seq(Range(streams[s]))
        BY <3>1, LoanSeq DEF LoanInv, StoreInv, WellFormed
      <4>2. PICK q : q = streams[s]
        OBVIOUS
      <4>3. streams'[s] = Append(q, e)
        BY <3>1, <4>1, <4>2
      <4>4. /\ Len(q) \in Nat /\ DOMAIN Append(q, e) = 1..(Len(q) + 1)
            /\ Append(q, e)[Len(q) + 1] = e
        BY <4>1, <4>2, AppendFacts
      <4> QED
        BY <4>2, <4>3, <4>4
    <3>5. OnePosition(streams', clock')
      <4>1. ASSUME NEW gp \in 1..clock'
            PROVE  \E t \in StreamIds : \E i \in DOMAIN streams'[t] : streams'[t][i].gp = gp
        <5>1. CASE gp \in 1..clock
          <6>1. PICK t \in StreamIds : \E i \in DOMAIN streams[t] : streams[t][i].gp = gp
            BY <5>1 DEF CauseInv, OnePosition
          <6>2. PICK i \in DOMAIN streams[t] : streams[t][i].gp = gp
            BY <6>1
          <6> QED
            BY <3>3, <6>2
        <5>2. CASE gp \notin 1..clock
          <6>1. gp = e.gp
            BY <1>0, <3>1, <4>1, <5>2
          <6> QED
            BY <3>1, <3>4, <6>1
        <5> QED
          BY <5>1, <5>2
      <4>2. ASSUME NEW t \in StreamIds, NEW u \in StreamIds,
                   NEW i \in DOMAIN streams'[t], NEW j \in DOMAIN streams'[u],
                   streams'[t][i].gp = streams'[u][j].gp
            PROVE  t = u /\ i = j
        <5>1. CASE i \in DOMAIN streams[t] /\ j \in DOMAIN streams[u]
          BY <3>3, <4>2, <5>1 DEF CauseInv, OnePosition
        <5>2. \A v \in StreamIds : \A k \in DOMAIN streams[v] : streams'[v][k].gp # clock + 1
          <6> SUFFICES ASSUME NEW v \in StreamIds, NEW k \in DOMAIN streams[v]
                       PROVE  streams'[v][k].gp # clock + 1
            OBVIOUS
          <6>1. streams'[v][k].gp \in 1..clock
            BY <3>3
          <6> QED
            BY <1>0, <6>1
        <5>3. CASE i \notin DOMAIN streams[t]
          <6>1. t = s /\ i = Len(streams[t]) + 1 /\ streams'[t][i].gp = clock + 1
            BY <3>1, <3>3, <5>3
          <6>2. j \notin DOMAIN streams[u]
            BY <4>2, <5>2, <6>1
          <6> QED
            BY <3>3, <6>1, <6>2
        <5>4. CASE j \notin DOMAIN streams[u]
          <6>1. u = s /\ j = Len(streams[u]) + 1 /\ streams'[u][j].gp = clock + 1
            BY <3>1, <3>3, <5>4
          <6>2. i \notin DOMAIN streams[t]
            BY <4>2, <5>2, <6>1
          <6> QED
            BY <3>3, <6>1, <6>2
        <5> QED
          BY <5>1, <5>3, <5>4
      <4> QED
        BY <4>1, <4>2 DEF OnePosition
    <3>6. ASSUME NEW t \in StreamIds, NEW i \in DOMAIN streams'[t]
          PROVE  /\ streams'[t][i].cause \in 0..(streams'[t][i].gp - 1)
                 /\ \A j \in 1..(i - 1) : streams'[t][j].gp < streams'[t][i].gp
      <4>1. CASE i \in DOMAIN streams[t]
        <5>1. /\ streams[t][i].cause \in 0..(streams[t][i].gp - 1)
              /\ \A j \in 1..(i - 1) : streams[t][j].gp < streams[t][i].gp
          BY <4>1 DEF CauseInv, CausesPrecede
        <5>2. \A j \in 1..(i - 1) : j \in DOMAIN streams[t]
          BY <3>3, <4>1
        <5> QED
          BY <3>3, <4>1, <5>1, <5>2
      <4>2. CASE i \notin DOMAIN streams[t]
        <5>1. t = s /\ i = Len(streams[t]) + 1 /\ streams'[t][i] = e
          BY <3>3, <4>2
        <5>2. \A j \in 1..(i - 1) : streams'[t][j].gp \in 1..clock
          BY <3>3, <5>1
        <5> QED
          BY <1>0, <3>1, <5>1, <5>2
      <4> QED
        BY <4>1, <4>2
    <3>7. "loan" \in StreamIds
      BY SessionsApart
    <3>8. ASSUME NEW i \in DOMAIN streams'["loan"]
          PROVE  /\ streams'["loan"][i].type \in LoanEvents
                 /\ streams'["loan"][i].type = "DecisionGenerated" =>
                      i > 1 /\ streams'["loan"][i].cause = streams'["loan"][i - 1].gp
      <4>1. CASE i \in DOMAIN streams["loan"]
        <5>1. /\ streams["loan"][i].type \in LoanEvents
              /\ streams["loan"][i].type = "DecisionGenerated" =>
                   i > 1 /\ streams["loan"][i].cause = streams["loan"][i - 1].gp
          BY <4>1 DEF CauseInv, CausesPrecede, OfType
        <5>2. i > 1 => i - 1 \in DOMAIN streams["loan"]
          BY <3>3, <3>7, <4>1
        <5> QED
          BY <3>3, <3>7, <4>1, <5>1, <5>2
      <4>2. CASE i \notin DOMAIN streams["loan"]
        <5>1. s = "loan" /\ i = Len(streams["loan"]) + 1 /\ streams'["loan"][i] = e
          BY <3>3, <3>7, <4>2
        <5>2. SUFFICES ASSUME e.type = "DecisionGenerated"
                       PROVE  i > 1 /\ e.cause = streams'["loan"][i - 1].gp
          BY <3>1, <5>1
        <5>3. /\ streams["loan"] # <<>>
              /\ e.cause = streams["loan"][Len(streams["loan"])].gp
          BY <3>1, <3>7, <5>1, <5>2, LastEventDrawn
        <5>4. Len(streams["loan"]) \in DOMAIN streams["loan"]
          BY <3>7, <5>3, LoanSeq, EmptySeq, LenProperties
        <5> QED
          BY <3>3, <3>7, <5>1, <5>3, <5>4
      <4> QED
        BY <4>1, <4>2
    <3> QED
      BY <3>2, <3>5, <3>6, <3>8 DEF CauseInv, CausesPrecede, OfType
  <2> QED
    BY <2>1, <2>2
<1> QED
  BY <1>2, <1>3 DEF Traces

LEMMA CauseStep ==
  LoanInv /\ LoanInv' /\ StateInv /\ CauseInv /\ [Next]_vars => CauseInv'
<1> SUFFICES ASSUME LoanInv, LoanInv', StateInv, CauseInv, [Next]_vars PROVE CauseInv'
  OBVIOUS
<1>1. ASSUME NEW c \in Clients, Traces(c) PROVE CauseInv'
  BY <1>1, CauseNext
<1>2. CASE UNCHANGED vars
  BY <1>2 DEF vars, CauseInv
<1>3. ASSUME NEW c \in Clients, NEW command \in CommandSet, Issue(c, command) PROVE CauseInv'
  BY <1>3 DEF Issue, CauseInv
<1>4. ASSUME NEW c \in Clients, Crash(c) PROVE Traces(c)
  <2>1. Looks(c, seen[c]) /\ seen[c].cause \in 0..clock
    BY <1>4 DEF Crash, Finish, Looks, Frame, CauseInv
  <2> QED
    BY <2>1 DEF Traces
<1>5. ASSUME NEW c \in Clients, Submit(c) \/ StartSession(c) \/ CreditAnalysis(c)
      PROVE  Traces(c)
  BY <1>5, LoadsTrace, ReadsTrace, IdsTrace, LoanAppendsTrace, OtherAppendsTrace
     DEF Submit, StartSession, CreditAnalysis
<1>6. ASSUME NEW c \in Clients, FraudScreening(c) \/ AppendBridge(c) \/ ComplianceCheck(c)
      PROVE  Traces(c)
  BY <1>6, LoadsTrace, ReadsTrace, IdsTrace, LoanAppendsTrace, OtherAppendsTrace
     DEF FraudScreening, ComplianceCheck
<1>7. ASSUME NEW c \in Clients, GenerateDecision(c) \/ HumanReview(c)
      PROVE  Traces(c)
  BY <1>7, LoadsTrace, ReadsTrace, LoanAppendsTrace DEF GenerateDecision, HumanReview
<1> QED
  BY <1>1, <1>2, <1>3, <1>4, <1>5, <1>6, <1>7 DEF Next

LEMMA CauseInit == Init => CauseInv
<1> SUFFICES ASSUME Init PROVE CauseInv
  OBVIOUS
<1>1. streams \in InitialStores /\ clock = LastPosition(streams) /\ clock \in Nat
  BY StoreAssumption DEF Init
<1>2. \A c \in Clients : seen[c].cause \in 0..clock
  BY <1>1 DEF Init, Nothing
<1> QED
  BY <1>1, <1>2, StoreAssumption DEF CauseInv

(* Whatever callers race, every event draws a position of its own, in the    *)
(* order of its stream, and names as its cause an event that was there       *)
(* before it; a decision names the event of the loan just before it.         *)
THEOREM CausesLeadBack == Spec => []CauseInv
<1>1. Init => CauseInv
  BY CauseInit
<1>2. (LoanInv /\ StateInv) /\ (LoanInv /\ StateInv)' /\ CauseInv /\ [Next]_vars => CauseInv'
  BY CauseStep
<1>3. Spec => [](LoanInv /\ StateInv)
  BY LoanInvariant, StateInvariant, PTL
<1> QED
  BY <1>1, <1>2, <1>3, PTL DEF Spec
-------------------------------------------------------------------------------
(* What Keep keeps *)

(* The records are in the order of their positions. *)
Rising(q) == \A i, j \in DOMAIN q : i < j => q[i].event.gp < q[j].event.gp

(* What the recursive function inside Keep must satisfy, for n events. *)
IsKept(f, q, S, n) ==
  f = [i \in 0..n |-> IF i = 0 THEN <<>>
                      ELSE IF q[i] \in S THEN Append(f[i - 1], q[i]) ELSE f[i - 1]]

LEMMA KeptExists ==
  ASSUME NEW q, NEW S, NEW n \in Nat
  PROVE  \E f : IsKept(f, q, S, n)
<1> DEFINE T == {m \in Nat : \E f : IsKept(f, q, S, m)}
<1>1. 0 \in T
  <2> DEFINE f == [i \in 0..0 |-> <<>>]
  <2>1. IsKept(f, q, S, 0)
    BY DEF IsKept
  <2> HIDE DEF f
  <2> QED
    BY <2>1
<1>2. ASSUME NEW m \in Nat, m \in T PROVE m + 1 \in T
  <2>1. PICK f : IsKept(f, q, S, m)
    BY <1>2
  <2> DEFINE last == IF q[m + 1] \in S THEN Append(f[m], q[m + 1]) ELSE f[m]
             g == [i \in 0..(m + 1) |-> IF i = m + 1 THEN last ELSE f[i]]
  <2>2. ASSUME NEW i \in 0..(m + 1)
        PROVE  g[i] = IF i = 0 THEN <<>>
                      ELSE IF q[i] \in S THEN Append(g[i - 1], q[i]) ELSE g[i - 1]
    <3>1. CASE i = m + 1
      <4>1. g[i] = last /\ g[i - 1] = f[m] /\ i # 0 /\ i - 1 = m
        BY <3>1
      <4> QED
        BY <3>1, <4>1
    <3>2. CASE i # m + 1
      <4>1. i \in 0..m /\ (i # 0 => i - 1 \in 0..m)
        BY <3>2
      <4>2. g[i] = f[i] /\ (i # 0 => g[i - 1] = f[i - 1])
        BY <3>2, <4>1
      <4>3. f[i] = IF i = 0 THEN <<>>
                   ELSE IF q[i] \in S THEN Append(f[i - 1], q[i]) ELSE f[i - 1]
        BY <2>1, <4>1 DEF IsKept
      <4> QED
        BY <4>2, <4>3
    <3> QED
      BY <3>1, <3>2
  <2>3. g = [i \in 0..(m + 1) |-> g[i]]
    OBVIOUS
  <2> HIDE DEF g, last
  <2>4. IsKept(g, q, S, m + 1)
    BY <2>2, <2>3 DEF IsKept
  <2> QED
    BY <2>4
<1> HIDE DEF T
<1>3. \A m \in Nat : m \in T
  BY <1>1, <1>2, Induction
<1> QED
  BY <1>3 DEF T

LEMMA KeptFacts ==
  ASSUME NEW q, q \in Seq(Range(q)), NEW S, NEW f, IsKept(f, q, S, Len(q))
  PROVE  LET k == f[Len(q)]
         IN /\ k \in Seq(Range(k))
            /\ Range(k) = Range(q) \cap S
            /\ Rising(q) => Rising(k)
<1>0. Len(q) \in Nat /\ DOMAIN q = 1..Len(q)
  BY LenProperties
<1> DEFINE Good(n) == /\ f[n] \in Seq(Range(f[n]))
                      /\ Range(f[n]) = {q[i] : i \in 1..n} \cap S
                      /\ Rising(q) => Rising(f[n])
           T == {n \in Nat : n <= Len(q) => Good(n)}
<1>1. 0 \in T
  <2>1. f[0] = <<>>
    BY <1>0 DEF IsKept
  <2>2. <<>> \in Seq(Range(<<>>)) /\ DOMAIN <<>> = {} /\ 1..0 = {}
    OBVIOUS
  <2> QED
    BY <2>1, <2>2 DEF Range, Rising
<1>2. ASSUME NEW n \in Nat, n \in T PROVE n + 1 \in T
  <2> SUFFICES ASSUME n + 1 <= Len(q) PROVE Good(n + 1)
    OBVIOUS
  <2>1. Good(n) /\ n \in 0..Len(q) /\ n + 1 \in 0..Len(q) /\ n + 1 \in DOMAIN q
    BY <1>0, <1>2
  <2>2. f[n + 1] = IF q[n + 1] \in S THEN Append(f[n], q[n + 1]) ELSE f[n]
    <3>1. \A i \in 0..Len(q) :
            f[i] = IF i = 0 THEN <<>>
                   ELSE IF q[i] \in S THEN Append(f[i - 1], q[i]) ELSE f[i - 1]
      BY DEF IsKept
    <3>2. n + 1 # 0 /\ (n + 1) - 1 = n
      OBVIOUS
    <3> QED
      BY <2>1, <3>1, <3>2
  <2>3. {q[i] : i \in 1..(n + 1)} = {q[i] : i \in 1..n} \cup {q[n + 1]}
    <3>1. 1..(n + 1) = 1..n \cup {n + 1}
      OBVIOUS
    <3> QED
      BY <3>1
  <2>4. CASE q[n + 1] \notin S
    <3>1. f[n + 1] = f[n] /\ {q[i] : i \in 1..(n + 1)} \cap S = {q[i] : i \in 1..n} \cap S
      BY <2>2, <2>3, <2>4
    <3> QED
      BY <2>1, <3>1
  <2>5. CASE q[n + 1] \in S
    <3>1. PICK k, e : k = f[n] /\ e = q[n + 1]
      OBVIOUS
    <3>0. k \in Seq(Range(k))
      BY <2>1, <3>1
    <3>2. /\ Append(k, e) \in Seq(Range(Append(k, e)))
          /\ Len(k) \in Nat /\ DOMAIN k = 1..Len(k) /\ DOMAIN Append(k, e) = 1..(Len(k) + 1)
          /\ \A i \in 1..Len(k) : Append(k, e)[i] = k[i]
          /\ Append(k, e)[Len(k) + 1] = e
      BY <3>0, AppendFacts
    <3>3. f[n + 1] = Append(k, e)
      BY <2>2, <2>5, <3>1
    <3>4. Range(Append(k, e)) = Range(k) \cup {e}
      <4>1. 1..(Len(k) + 1) = 1..Len(k) \cup {Len(k) + 1}
        BY <3>2
      <4> QED
        BY <3>2, <4>1 DEF Range
    <3>5. Range(Append(k, e)) = {q[i] : i \in 1..(n + 1)} \cap S
      BY <2>1, <2>3, <2>5, <3>1, <3>4
    <3>6. ASSUME Rising(q) PROVE Rising(Append(k, e))
      <4> SUFFICES ASSUME NEW i \in 1..(Len(k) + 1), NEW j \in 1..(Len(k) + 1), i < j
                   PROVE  Append(k, e)[i].event.gp < Append(k, e)[j].event.gp
        BY <3>2 DEF Rising
      <4>1. i \in 1..Len(k) /\ Append(k, e)[i] = k[i]
        BY <3>2
      <4>2. CASE j \in 1..Len(k)
        BY <2>1, <3>1, <3>2, <3>6, <4>1, <4>2 DEF Rising
      <4>3. CASE j = Len(k) + 1
        <5>1. k[i] \in {q[l] : l \in 1..n}
          BY <2>1, <3>1, <3>2, <4>1 DEF Range
        <5>2. PICK l \in 1..n : k[i] = q[l]
          BY <5>1
        <5>3. l \in DOMAIN q /\ l < n + 1
          BY <1>0, <2>1
        <5> QED
          BY <2>1, <3>1, <3>2, <3>6, <4>1, <4>3, <5>2, <5>3 DEF Rising
      <4> QED
        BY <3>2, <4>2, <4>3
    <3> QED
      BY <3>2, <3>3, <3>5, <3>6
  <2> QED
    BY <2>4, <2>5
<1> HIDE DEF T
<1>3. \A n \in Nat : n \in T
  BY <1>1, <1>2, Induction
<1>4. Good(Len(q))
  <2>1. Len(q) \in T /\ Len(q) <= Len(q)
    BY <1>0, <1>3
  <2> HIDE DEF Good
  <2> QED
    BY <2>1 DEF T
<1> QED
  BY <1>0, <1>4 DEF Range

LEMMA KeepFacts ==
  ASSUME NEW q, q \in Seq(Range(q)), NEW S
  PROVE  /\ Keep(q, S) \in Seq(Range(Keep(q, S)))
         /\ Range(Keep(q, S)) = Range(q) \cap S
         /\ Rising(q) => Rising(Keep(q, S))
<1> DEFINE f == CHOOSE f : IsKept(f, q, S, Len(q))
<1>1. IsKept(f, q, S, Len(q))
  BY KeptExists, LenProperties
<1>2. Keep(q, S) = f[Len(q)]
  BY DEF Keep, IsKept
<1> HIDE DEF f
<1> QED
  BY <1>1, <1>2, KeptFacts
-------------------------------------------------------------------------------
(* The history *)

Stored == UNION {{[stream |-> s, event |-> streams[s][i]] : i \in DOMAIN streams[s]} :
                   s \in StreamIds}

LEMMA StoredFacts ==
  ASSUME LoanInv, CauseInv
  PROVE  /\ \A gp \in 1..clock : \E r \in Stored : r.event.gp = gp
         /\ \A r \in Stored : r.event.gp \in 1..clock /\ r.event.cause \in 0..(r.event.gp - 1)
         /\ \A r, t \in Stored : r.event.gp = t.event.gp => r = t
<1>1. \A r \in Stored : \E s \in StreamIds : \E i \in DOMAIN streams[s] :
        r = [stream |-> s, event |-> streams[s][i]]
  BY DEF Stored
<1>2. ASSUME NEW gp \in 1..clock PROVE \E r \in Stored : r.event.gp = gp
  <2>1. PICK s \in StreamIds : \E i \in DOMAIN streams[s] : streams[s][i].gp = gp
    BY DEF CauseInv, OnePosition
  <2>2. PICK i \in DOMAIN streams[s] : streams[s][i].gp = gp
    BY <2>1
  <2>3. [stream |-> s, event |-> streams[s][i]] \in Stored
    BY DEF Stored
  <2> QED
    BY <2>2, <2>3
<1>3. ASSUME NEW r \in Stored
      PROVE  r.event.gp \in 1..clock /\ r.event.cause \in 0..(r.event.gp - 1)
  <2>1. PICK s \in StreamIds : \E i \in DOMAIN streams[s] : r.event = streams[s][i]
    BY <1>1
  <2> QED
    BY <2>1 DEF LoanInv, StoreInv, WellFormed, CauseInv, CausesPrecede
<1>4. ASSUME NEW r \in Stored, NEW t \in Stored, r.event.gp = t.event.gp PROVE r = t
  <2>1. PICK s \in StreamIds : \E i \in DOMAIN streams[s] :
          r = [stream |-> s, event |-> streams[s][i]]
    BY <1>1
  <2>2. PICK i \in DOMAIN streams[s] : r = [stream |-> s, event |-> streams[s][i]]
    BY <2>1
  <2>3. PICK u \in StreamIds : \E j \in DOMAIN streams[u] :
          t = [stream |-> u, event |-> streams[u][j]]
    BY <1>1
  <2>4. PICK j \in DOMAIN streams[u] : t = [stream |-> u, event |-> streams[u][j]]
    BY <2>3
  <2> QED
    BY <1>4, <2>2, <2>4 DEF CauseInv, OnePosition
<1> QED
  BY <1>2, <1>3, <1>4

(* A history holds what its streams hold, by position. *)
LEMMA HistoryFacts ==
  ASSUME LoanInv, CauseInv, NEW ids
  PROVE  /\ History(ids) \in Seq(Range(History(ids)))
         /\ Range(History(ids)) = {r \in Stored : r.stream \in ids}
         /\ Rising(History(ids))
<1> DEFINE q == [gp \in 1..clock |-> CHOOSE r \in Stored : r.event.gp = gp]
           S == {r \in Stored : r.stream \in ids}
<1>0. clock \in Nat
  BY LoanSeq
<1>1. \A gp \in 1..clock : q[gp] \in Stored /\ q[gp].event.gp = gp
  BY StoredFacts
<1>2. DOMAIN q = 1..clock /\ q \in Seq(Range(q))
  <2>1. DOMAIN q = 1..clock /\ q = [gp \in 1..clock |-> q[gp]]
    OBVIOUS
  <2> HIDE DEF q
  <2>2. q \in [1..clock -> Range(q)]
    BY <2>1 DEF Range
  <2> QED
    BY <1>0, <2>1, <2>2, SeqDef
<1>3. History(ids) = Keep(q, S)
  BY DEF History, Stored
<1> HIDE DEF q
<1>4. Rising(q)
  BY <1>0, <1>1, <1>2 DEF Rising
<1>5. Range(q) = Stored
  <2>1. \A r \in Range(q) : r \in Stored
    BY <1>1, <1>2 DEF Range
  <2>2. ASSUME NEW r \in Stored PROVE r \in Range(q)
    <3>1. r.event.gp \in 1..clock
      BY StoredFacts
    <3>2. r = q[r.event.gp]
      BY <1>1, <3>1, StoredFacts
    <3> QED
      BY <1>2, <3>1, <3>2 DEF Range
  <2> QED
    BY <2>1, <2>2
<1>6. Range(Keep(q, S)) = S
  BY <1>2, <1>5, KeepFacts
<1> HIDE DEF S
<1>7. Keep(q, S) \in Seq(Range(Keep(q, S))) /\ Rising(Keep(q, S))
  BY <1>2, <1>4, KeepFacts
<1> QED
  BY <1>3, <1>6, <1>7 DEF S

(* Records in the order of their positions, each after its cause. *)
Dated(q) ==
  /\ q \in Seq(Range(q))
  /\ Rising(q)
  /\ \A r \in Range(q) : r.event.gp \in 1..clock /\ r.event.cause \in 0..(r.event.gp - 1)

LEMMA HistoryIsDated ==
  ASSUME LoanInv, CauseInv, NEW ids
  PROVE  Dated(History(ids))
<1>1. /\ History(ids) \in Seq(Range(History(ids)))
      /\ Range(History(ids)) \subseteq Stored
      /\ Rising(History(ids))
  BY HistoryFacts
<1> QED
  BY <1>1, StoredFacts DEF Dated

Loaded == {"loan", "compliance"} \cup Sessions

(* What a report is made from. *)
LEMMA TimelineFacts ==
  ASSUME LoanInv, CauseInv
  PROVE  /\ Dated(Timeline)
         /\ Range(Timeline) =
              {r \in Stored : r.stream \in Loaded /\ r.event.type # "AgentContextLoaded"}
<1> DEFINE h == History(Loaded)
           S == {r \in ToSet(h) : r.event.type # "AgentContextLoaded"}
<1>1. Timeline = Keep(h, S)
  BY DEF Timeline, Loaded
<1>2. Dated(h) /\ Range(h) = {r \in Stored : r.stream \in Loaded} /\ ToSet(h) = Range(h)
  BY HistoryIsDated, HistoryFacts DEF ToSet, Range
<1> HIDE DEF h
<1>3. Range(Timeline) = Range(h) \cap S
  BY <1>1, <1>2, KeepFacts DEF Dated
<1>4. Timeline \in Seq(Range(Timeline)) /\ Rising(Timeline)
  <2> HIDE DEF S
  <2> QED
    BY <1>1, <1>2, KeepFacts DEF Dated
<1>5. Range(Timeline) \subseteq Range(h)
  BY <1>3
<1>6. Dated(Timeline)
  BY <1>2, <1>4, <1>5 DEF Dated
<1> QED
  BY <1>2, <1>3, <1>6

LEMMA DatedFacts ==
  ASSUME NEW q, Dated(q)
  PROVE  /\ Len(q) \in Nat /\ DOMAIN q = 1..Len(q)
         /\ \A i \in DOMAIN q : q[i] \in Range(q) /\ q[i].event.gp \in 1..clock
                                /\ q[i].event.cause \in 0..(q[i].event.gp - 1)
         /\ \A i, j \in DOMAIN q : q[i].event.gp = q[j].event.gp => i = j
         /\ \A r, t \in Range(q) : r.event.gp = t.event.gp => r = t
         /\ \A r : r \in Range(q) <=> \E i \in DOMAIN q : r = q[i]
         /\ Ids(q) = {r.event.gp : r \in Range(q)}
<1>1. Len(q) \in Nat /\ DOMAIN q = 1..Len(q)
  BY LenProperties DEF Dated
<1>2. \A r : r \in Range(q) <=> \E i \in DOMAIN q : r = q[i]
  BY DEF Range
<1>3. \A i \in DOMAIN q : q[i] \in Range(q) /\ q[i].event.gp \in 1..clock
                          /\ q[i].event.cause \in 0..(q[i].event.gp - 1)
  BY <1>2 DEF Dated
<1>4. ASSUME NEW i \in DOMAIN q, NEW j \in DOMAIN q, q[i].event.gp = q[j].event.gp
      PROVE  i = j
  <2>1. ~ (i < j) /\ ~ (j < i)
    BY <1>3, <1>4 DEF Dated, Rising
  <2> QED
    BY <1>1, <2>1
<1>5. Ids(q) = {r.event.gp : r \in Range(q)}
  BY <1>2 DEF Ids
<1> QED
  BY <1>1, <1>2, <1>3, <1>4, <1>5

LEMMA CauseOfFacts ==
  ASSUME NEW q, Dated(q)
  PROVE  /\ \A r \in Range(q) : CauseOf(q, r.event.gp) = r.event.cause
         /\ \A id \in Ids(q) : id \in 1..clock /\ CauseOf(q, id) \in 0..(id - 1)
<1>1. ToSet(q) = Range(q)
  BY DEF ToSet, Range
<1>2. ASSUME NEW r \in Range(q) PROVE CauseOf(q, r.event.gp) = r.event.cause
  <2>1. (CHOOSE t \in ToSet(q) : t.event.gp = r.event.gp) = r
    BY <1>1, DatedFacts
  <2> QED
    BY <2>1 DEF CauseOf
<1>3. ASSUME NEW id \in Ids(q) PROVE id \in 1..clock /\ CauseOf(q, id) \in 0..(id - 1)
  <2>1. PICK r \in Range(q) : id = r.event.gp
    BY DatedFacts
  <2> QED
    BY <1>2, <2>1 DEF Dated
<1> QED
  BY <1>2, <1>3
-------------------------------------------------------------------------------
(* A counterfactual is closed under causes *)

(* What the recursive function inside DependsOnAnchor must satisfy. *)
IsReaching(f, q, anchors, n) ==
  f = [id \in 0..n |-> IF id \in anchors THEN TRUE
                       ELSE IF id \in Ids(q) THEN f[CauseOf(q, id)] ELSE FALSE]

LEMMA ReachingExists ==
  ASSUME NEW q, Dated(q), NEW anchors, NEW n \in Nat
  PROVE  \E f : IsReaching(f, q, anchors, n)
<1> DEFINE T == {m \in Nat : \E f : IsReaching(f, q, anchors, m)}
<1>0. \A id \in Ids(q) : id # 0 /\ \A m \in Nat : id \in 0..(m + 1) => CauseOf(q, id) \in 0..m
  BY CauseOfFacts
<1>1. 0 \in T
  <2> DEFINE f == [id \in 0..0 |-> IF id \in anchors THEN TRUE ELSE FALSE]
  <2>1. 0 \notin Ids(q) /\ 0..0 = {0}
    BY <1>0
  <2>2. IsReaching(f, q, anchors, 0)
    BY <2>1 DEF IsReaching
  <2> HIDE DEF f
  <2> QED
    BY <2>2
<1>2. ASSUME NEW m \in Nat, m \in T PROVE m + 1 \in T
  <2>1. PICK f : IsReaching(f, q, anchors, m)
    BY <1>2
  <2> DEFINE Body(h, id) == IF id \in anchors THEN TRUE
                            ELSE IF id \in Ids(q) THEN h[CauseOf(q, id)] ELSE FALSE
             g == [id \in 0..(m + 1) |-> IF id = m + 1 THEN Body(f, id) ELSE f[id]]
  <2>2. ASSUME NEW id \in 0..m PROVE g[id] = f[id]
    <3>1. id \in 0..(m + 1) /\ id # m + 1
      BY <2>2
    <3> HIDE DEF Body
    <3> QED
      BY <3>1
  <2>3. ASSUME NEW id \in 0..(m + 1) PROVE g[id] = Body(g, id)
    <3>1. id \in Ids(q) => g[CauseOf(q, id)] = f[CauseOf(q, id)]
      BY <1>0, <2>2
    <3>2. CASE id = m + 1
      <4>1. g[id] = Body(f, id)
        BY <3>2
      <4> HIDE DEF g
      <4> QED
        BY <3>1, <4>1
    <3>3. CASE id # m + 1
      <4>1. id \in 0..m
        BY <3>3
      <4>2. f[id] = Body(f, id)
        BY <2>1, <4>1 DEF IsReaching
      <4>3. g[id] = f[id]
        BY <2>2, <4>1
      <4> HIDE DEF g
      <4> QED
        BY <3>1, <4>2, <4>3
    <3> QED
      BY <3>2, <3>3
  <2>4. g = [id \in 0..(m + 1) |-> g[id]]
    OBVIOUS
  <2> HIDE DEF g
  <2>5. IsReaching(g, q, anchors, m + 1)
    BY <2>3, <2>4 DEF IsReaching
  <2> QED
    BY <2>5
<1> HIDE DEF T
<1>3. \A m \in Nat : m \in T
  BY <1>1, <1>2, Induction
<1> QED
  BY <1>3 DEF T

(* The branch and what follows it depend on the anchors. *)
LEMMA AnchorsDepend ==
  ASSUME LoanInv, NEW q, Dated(q), NEW b, NEW id \in Anchors(q, b), id \in 1..clock
  PROVE  DependsOnAnchor(q, b)[id]
<1> DEFINE anchors == Anchors(q, b)
           f == CHOOSE f : IsReaching(f, q, anchors, clock)
<1>1. IsReaching(f, q, anchors, clock)
  <2>1. clock \in Nat
    BY LoanSeq
  <2> HIDE DEF anchors
  <2> QED
    BY <2>1, ReachingExists
<1>2. DependsOnAnchor(q, b) = f
  BY DEF DependsOnAnchor, IsReaching
<1> HIDE DEF f
<1>3. id \in 0..clock /\ id \in anchors
  BY LoanSeq
<1> HIDE DEF anchors
<1>4. f[id] = TRUE
  BY <1>1, <1>3 DEF IsReaching
<1> QED
  BY <1>2, <1>4

LEMMA AfterFacts ==
  ASSUME NEW q, Dated(q), NEW b \in DOMAIN q
  PROVE  /\ After(q, b) \in Seq(Range(After(q, b)))
         /\ Range(After(q, b)) = {q[i] : i \in (b + 1)..Len(q)}
<1>1. Len(q) \in Nat /\ b \in 1..Len(q) /\ \A i \in (b + 1)..Len(q) : q[i] \in Range(q)
  BY DatedFacts
<1>2. /\ After(q, b) \in Seq(Range(q))
      /\ Len(After(q, b)) = Len(q) - b
      /\ \A i \in 1..(Len(q) - b) : After(q, b)[i] = q[b + i]
  <2>1. /\ SubSeq(q, b + 1, Len(q)) \in Seq(Range(q))
        /\ Len(SubSeq(q, b + 1, Len(q))) =
             IF b + 1 <= Len(q) THEN Len(q) - (b + 1) + 1 ELSE 0
        /\ \A i \in 1..(Len(q) - (b + 1) + 1) :
             SubSeq(q, b + 1, Len(q))[i] = q[(b + 1) + i - 1]
    BY <1>1, SubSeqProperties
  <2> QED
    BY <1>1, <2>1 DEF After
<1>3. DOMAIN After(q, b) = 1..(Len(q) - b)
  BY <1>2, LenProperties
<1>4. After(q, b) \in Seq(Range(After(q, b)))
  <2>1. PICK n, a : n = Len(q) - b /\ a = After(q, b)
    OBVIOUS
  <2>2. n \in Nat /\ DOMAIN a = 1..n /\ a = [i \in 1..n |-> a[i]]
    BY <1>1, <1>2, <1>3, <2>1, LenProperties
  <2>3. PICK R : R = Range(a)
    OBVIOUS
  <2>4. \A i \in 1..n : a[i] \in R
    BY <2>2, <2>3 DEF Range
  <2>5. a \in [1..n -> R]
    BY <2>2, <2>4
  <2>6. a \in Seq(R)
    BY <2>2, <2>5, SeqDef
  <2> QED
    BY <2>1, <2>3, <2>6
<1>5. ASSUME NEW i \in (b + 1)..Len(q)
      PROVE  \E j \in DOMAIN After(q, b) : After(q, b)[j] = q[i]
  <2>1. i - b \in 1..(Len(q) - b) /\ b + (i - b) = i
    BY <1>1
  <2> QED
    BY <1>2, <1>3, <2>1
<1>6. ASSUME NEW j \in DOMAIN After(q, b)
      PROVE  \E i \in (b + 1)..Len(q) : After(q, b)[j] = q[i]
  <2>1. b + j \in (b + 1)..Len(q)
    BY <1>1, <1>3
  <2> QED
    BY <1>2, <1>3, <2>1
<1>7. Range(After(q, b)) = {q[i] : i \in (b + 1)..Len(q)}
  <2>1. PICK a : a = After(q, b)
    OBVIOUS
  <2>2. \A r : r \in Range(a) <=> \E j \in DOMAIN a : r = a[j]
    BY DEF Range
  <2>3. \A r : r \in Range(a) <=> r \in {q[i] : i \in (b + 1)..Len(q)}
    BY <1>5, <1>6, <2>1, <2>2
  <2> QED
    BY <2>1, <2>3
<1> QED
  BY <1>4, <1>7

(* Of the tail, what does not depend on the branch. *)
LEMMA TailFacts ==
  ASSUME NEW q, Dated(q), NEW b \in DOMAIN q
  PROVE  /\ TailKept(q, b) \in Seq(Range(TailKept(q, b)))
         /\ \A r \in Range(TailKept(q, b)) :
              /\ \E i \in (b + 1)..Len(q) : r = q[i]
              /\ ~ DependsOnAnchor(q, b)[r.event.cause]
<1> DEFINE tail == After(q, b)
           S == {r \in ToSet(tail) : ~ DependsOnAnchor(q, b)[r.event.cause]}
<1>1. TailKept(q, b) = Keep(tail, S)
  BY DEF TailKept
<1>2. tail \in Seq(Range(tail)) /\ Range(tail) = {q[i] : i \in (b + 1)..Len(q)}
  BY AfterFacts
<1> HIDE DEF tail
<1>3. /\ Range(TailKept(q, b)) = Range(tail) \cap S
      /\ TailKept(q, b) \in Seq(Range(TailKept(q, b)))
  <2>1. tail \in Seq(Range(tail))
    BY <1>2
  <2> HIDE DEF S
  <2>2. /\ Range(Keep(tail, S)) = Range(tail) \cap S
        /\ Keep(tail, S) \in Seq(Range(Keep(tail, S)))
    BY <2>1, KeepFacts
  <2> QED
    BY <1>1, <2>2
<1> QED
  BY <1>2, <1>3

LEMMA NothingDanglesOf ==
  ASSUME LoanInv, NEW q, Dated(q), NEW b \in DOMAIN q,
         NEW r \in Range(TailKept(q, b)), NEW i \in b..Len(q), r.event.cause = q[i].event.gp
  PROVE  FALSE
<1>1. i \in DOMAIN q /\ q[i].event.gp \in 1..clock
  BY DatedFacts
<1>2. q[i].event.gp \in Anchors(q, b)
  BY DEF Anchors
<1>3. DependsOnAnchor(q, b)[r.event.cause]
  BY <1>1, <1>2, AnchorsDepend
<1> QED
  BY <1>3, TailFacts

(* A counterfactual history is closed under causes: an event that is kept    *)
(* names no event that was cut or dropped, wherever the history is cut and   *)
(* whatever callers wrote it.                                                *)
THEOREM CounterfactualsAreClosed == Spec => []NothingDangles
<1>1. ASSUME LoanInv, CauseInv PROVE NothingDangles
  <2>1. PICK q : q = Timeline
    OBVIOUS
  <2>2. Dated(q)
    BY <1>1, <2>1, TimelineFacts
  <2> SUFFICES ASSUME NEW b \in Branches(q),
                      NEW k \in DOMAIN TailKept(q, b),
                      TailKept(q, b)[k].event.cause \in
                        {q[b].event.gp} \cup (Ids(After(q, b)) \ Ids(TailKept(q, b)))
               PROVE  FALSE
    BY <2>1 DEF NothingDangles
  <2>3. b \in DOMAIN q /\ b \in 1..Len(q) /\ Len(q) \in Nat
    BY <2>2, DatedFacts DEF Branches
  <2>4. PICK r : r = TailKept(q, b)[k]
    OBVIOUS
  <2>5. r \in Range(TailKept(q, b))
    BY <2>4 DEF Range
  <2>6. \E i \in b..Len(q) : r.event.cause = q[i].event.gp
    <3>1. CASE r.event.cause = q[b].event.gp
      BY <2>3, <3>1
    <3>2. CASE r.event.cause \in Ids(After(q, b))
      <4>1. PICK j \in DOMAIN After(q, b) : r.event.cause = After(q, b)[j].event.gp
        BY <3>2 DEF Ids
      <4>2. After(q, b)[j] \in {q[i] : i \in (b + 1)..Len(q)}
        <5>1. After(q, b)[j] \in Range(After(q, b))
          BY DEF Range
        <5> QED
          BY <2>2, <2>3, <5>1, AfterFacts
      <4>3. PICK i \in (b + 1)..Len(q) : After(q, b)[j] = q[i]
        BY <4>2
      <4> QED
        BY <2>3, <4>1, <4>3
    <3> QED
      BY <2>4, <3>1, <3>2
  <2> QED
    BY <1>1, <2>2, <2>3, <2>5, <2>6, NothingDanglesOf
<1> QED
  BY <1>1, LoanInvariant, CausesLeadBack, PTL
-------------------------------------------------------------------------------
(* Another credit analysis decides the counterfactual *)

OnLoan(r, type) == r.stream = "loan" /\ r.event.type = type

LEMMA OfLoanFacts ==
  ASSUME NEW q, NEW type
  PROVE  OfLoan(q, type) = {i \in DOMAIN q : OnLoan(q[i], type)}
BY DEF OfLoan, OnLoan

(* The records of the loan are all in the timeline. *)
LEMMA LoanRecords ==
  ASSUME LoanInv, CauseInv
  PROVE  /\ \A i \in DOMAIN streams["loan"] :
              [stream |-> "loan", event |-> streams["loan"][i]] \in Range(Timeline)
         /\ \A r \in Range(Timeline) : r.stream = "loan" =>
              \E i \in DOMAIN streams["loan"] : r = [stream |-> "loan", event |-> streams["loan"][i]]
<1>1. ASSUME NEW i \in DOMAIN streams["loan"]
      PROVE  [stream |-> "loan", event |-> streams["loan"][i]] \in Range(Timeline)
  <2>1. streams["loan"][i].type # "AgentContextLoaded"
    BY DEF CauseInv, LoanEvents
  <2>2. [stream |-> "loan", event |-> streams["loan"][i]] \in Stored
    BY SessionsApart DEF Stored
  <2> QED
    BY <2>1, <2>2, TimelineFacts DEF Loaded
<1>2. ASSUME NEW r \in Range(Timeline), r.stream = "loan"
      PROVE  \E i \in DOMAIN streams["loan"] : r = [stream |-> "loan", event |-> streams["loan"][i]]
  <2>1. r \in Stored
    BY TimelineFacts
  <2>2. PICK s \in StreamIds : \E i \in DOMAIN streams[s] : r = [stream |-> s, event |-> streams[s][i]]
    BY <2>1 DEF Stored
  <2> QED
    BY <1>2, <2>2
<1> QED
  BY <1>1, <1>2

(* A decision names an event of the loan that is not older than the first    *)
(* credit analysis.                                                          *)
LEMMA DecisionsFollow ==
  ASSUME LoanInv, StateInv, CauseInv, Loan.ok,
         NEW r \in Range(Timeline), OnLoan(r, "DecisionGenerated")
  PROVE  \E t, u \in Range(Timeline) :
           /\ OnLoan(t, "CreditAnalysisCompleted")
           /\ t.event.gp <= u.event.gp
           /\ u.event.gp = r.event.cause
<1> DEFINE loan == streams["loan"]
           rec(i) == [stream |-> "loan", event |-> loan[i]]
<1>1. PICK i \in DOMAIN loan : r = rec(i)
  BY LoanRecords DEF OnLoan
<1>2. i \in OfType(loan, "DecisionGenerated")
  BY <1>1 DEF OnLoan, OfType
<1>3. PICK k \in OfType(loan, "CreditAnalysisCompleted") : k < i
  BY <1>2 DEF StateInv, Shape, Loan
<1>4. i > 1 /\ r.event.cause = loan[i - 1].gp
  BY <1>1, <1>2 DEF CauseInv, CausesPrecede
<1>5. DOMAIN loan = 1..Len(loan) /\ Len(loan) \in Nat
  BY LoanSeq, LenProperties
<1>6. k \in DOMAIN loan /\ i - 1 \in DOMAIN loan
  BY <1>3, <1>4, <1>5 DEF OfType
<1>7. rec(k) \in Range(Timeline) /\ rec(i - 1) \in Range(Timeline)
  BY <1>6, LoanRecords
<1>8. loan[k].gp <= loan[i - 1].gp
  <2>1. loan[k].gp \in Nat /\ loan[i - 1].gp \in Nat
    BY <1>6, SessionsApart DEF LoanInv, StoreInv, WellFormed
  <2>2. CASE k = i - 1
    BY <2>1, <2>2
  <2>3. CASE k # i - 1
    <3>1. k \in 1..((i - 1) - 1)
      BY <1>3, <1>5, <1>6, <2>3
    <3> QED
      BY <1>6, <2>1, <3>1, SessionsApart DEF CauseInv, CausesPrecede
  <2> QED
    BY <2>2, <2>3
<1>9. OnLoan(rec(k), "CreditAnalysisCompleted")
  BY <1>3 DEF OnLoan, OfType
<1>10. rec(i - 1).event.gp = r.event.cause /\ rec(k).event.gp <= rec(i - 1).event.gp
  BY <1>4, <1>8
<1> HIDE DEF rec
<1> QED
  BY <1>7, <1>9, <1>10

(* What is left of the loan around the branch. *)
LEMMA AroundBranch ==
  ASSUME LoanInv, StateInv, CauseInv, Loan.ok,
         AtMostOne(OfType(streams["loan"], "CreditAnalysisCompleted")),
         NEW q, q = Timeline, NEW b, IsBranch(q, b, "CreditAnalysisCompleted", {"loan"})
  PROVE  /\ \A i \in 1..(b - 1) : ~ OnLoan(q[i], "DecisionGenerated")
                                 /\ ~ OnLoan(q[i], "CreditAnalysisCompleted")
         /\ \A r \in Range(TailKept(q, b)) : ~ OnLoan(r, "DecisionGenerated")
                                            /\ ~ OnLoan(r, "CreditAnalysisCompleted")
<1>1. Dated(q)
  BY TimelineFacts
<1>2. /\ b \in DOMAIN q /\ OnLoan(q[b], "CreditAnalysisCompleted")
      /\ \A i \in 1..(b - 1) : ~ OnLoan(q[i], "CreditAnalysisCompleted")
  BY DEF IsBranch, OnLoan
<1>3. DOMAIN q = 1..Len(q) /\ Len(q) \in Nat
  BY <1>1, DatedFacts
<1>4. \A i \in DOMAIN q : q[i].event.gp \in 1..clock /\ q[i].event.cause \in 0..(q[i].event.gp - 1)
  BY <1>1, DatedFacts
<1>5. ASSUME NEW i \in DOMAIN q, OnLoan(q[i], "DecisionGenerated")
      PROVE  q[b].event.gp <= q[i].event.cause /\ q[i].event.cause \in Anchors(q, b)
  <2>1. q[i] \in Range(Timeline)
    BY <1>1, <1>5, DatedFacts
  <2>2. PICK t, u \in Range(q) : /\ OnLoan(t, "CreditAnalysisCompleted")
                                 /\ t.event.gp <= u.event.gp
                                 /\ u.event.gp = q[i].event.cause
    BY <1>5, <2>1, DecisionsFollow
  <2>3. PICK j \in DOMAIN q : t = q[j]
    BY <1>1, DatedFacts
  <2>4. PICK m \in DOMAIN q : u = q[m]
    BY <1>1, DatedFacts
  <2>5. b <= j
    BY <1>2, <1>3, <2>2, <2>3
  <2>6. q[b].event.gp <= q[j].event.gp
    <3>1. b < j => q[b].event.gp < q[j].event.gp
      BY <1>1, <1>2, <2>3 DEF Dated, Rising
    <3>2. q[b].event.gp \in Nat /\ q[j].event.gp \in Nat
      BY <1>2, <1>4, <2>3
    <3> QED
      BY <1>2, <1>3, <2>3, <2>5, <3>1, <3>2
  <2>7. q[b].event.gp <= q[m].event.gp
    <3>1. q[b].event.gp \in Nat /\ q[j].event.gp \in Nat /\ q[m].event.gp \in Nat
      BY <1>2, <1>4, <2>3, <2>4
    <3> QED
      BY <2>2, <2>3, <2>4, <2>6, <3>1
  <2>8. b <= m
    <3>1. m < b => q[m].event.gp < q[b].event.gp
      BY <1>1, <1>2, <2>4 DEF Dated, Rising
    <3>2. q[b].event.gp \in Nat /\ q[m].event.gp \in Nat
      BY <1>2, <1>4, <2>4
    <3> QED
      BY <1>2, <1>3, <2>4, <2>7, <3>1, <3>2
  <2>9. q[m].event.gp \in Anchors(q, b)
    BY <1>2, <1>3, <2>4, <2>8 DEF Anchors
  <2> QED
    BY <2>2, <2>4, <2>7, <2>9
<1>6. ASSUME NEW i \in 1..(b - 1) PROVE ~ OnLoan(q[i], "DecisionGenerated")
  <2>1. i \in DOMAIN q /\ i < b
    BY <1>2, <1>3
  <2>2. q[i].event.gp < q[b].event.gp
    BY <1>1, <1>2, <2>1 DEF Dated, Rising
  <2>3. q[i].event.gp \in Nat /\ q[i].event.cause \in 0..(q[i].event.gp - 1) /\ q[b].event.gp \in Nat
    BY <1>2, <1>4, <2>1
  <2>4. ~ (q[b].event.gp <= q[i].event.cause)
    BY <2>2, <2>3
  <2> QED
    BY <1>5, <2>1, <2>4
<1>7. ASSUME NEW r \in Range(TailKept(q, b)) PROVE ~ OnLoan(r, "DecisionGenerated")
  <2>1. PICK i \in (b + 1)..Len(q) : r = q[i]
    BY <1>1, <1>2, TailFacts
  <2>2. i \in DOMAIN q
    BY <1>2, <1>3
  <2> SUFFICES ASSUME OnLoan(q[i], "DecisionGenerated") PROVE FALSE
    BY <2>1
  <2>3. r.event.cause \in Anchors(q, b) /\ q[b].event.gp <= r.event.cause
    BY <1>5, <2>1, <2>2
  <2>4. r.event.cause \in 1..clock
    <3>1. PICK m \in b..Len(q) : r.event.cause = q[m].event.gp
      BY <2>3 DEF Anchors
    <3>2. m \in DOMAIN q
      BY <1>2, <1>3
    <3> QED
      BY <1>4, <3>1, <3>2
  <2>5. DependsOnAnchor(q, b)[r.event.cause]
    BY <1>1, <2>3, <2>4, AnchorsDepend
  <2> QED
    BY <1>1, <1>2, <2>5, TailFacts
<1>8. ASSUME NEW r \in Range(TailKept(q, b)) PROVE ~ OnLoan(r, "CreditAnalysisCompleted")
  <2>1. PICK i \in (b + 1)..Len(q) : r = q[i]
    BY <1>1, <1>2, TailFacts
  <2>2. i \in DOMAIN q /\ i # b
    BY <1>2, <1>3
  <2> SUFFICES ASSUME OnLoan(q[i], "CreditAnalysisCompleted") PROVE FALSE
    BY <2>1
  <2>3. q[i] \in Range(q) /\ q[b] \in Range(q)
    BY <1>1, <1>2, <2>2, DatedFacts
  <2>4. PICK j \in DOMAIN streams["loan"] : q[i] = [stream |-> "loan", event |-> streams["loan"][j]]
    BY <2>3, LoanRecords DEF OnLoan
  <2>5. PICK m \in DOMAIN streams["loan"] : q[b] = [stream |-> "loan", event |-> streams["loan"][m]]
    BY <1>2, <2>3, LoanRecords DEF OnLoan
  <2>6. j = m
    BY <1>2, <2>4, <2>5 DEF OnLoan, OfType, AtMostOne
  <2>7. q[i].event.gp = q[b].event.gp
    BY <2>4, <2>5, <2>6
  <2> QED
    BY <1>1, <1>2, <2>2, <2>7, DatedFacts
<1> QED
  BY <1>2, <1>6, <1>7, <1>8

(* The spliced records: the prefix, the other event, the kept tail. *)
LEMMA SplicedFacts ==
  ASSUME NEW q, Dated(q), NEW b \in DOMAIN q, NEW other
  PROVE  LET s == Synthetic(q, b, <<other>>)
         IN /\ b \in DOMAIN s /\ s[b] = other
            /\ \A i \in DOMAIN s : \/ i \in 1..(b - 1) /\ s[i] = q[i]
                                  \/ i = b
                                  \/ s[i] \in Range(TailKept(q, b))
<1> DEFINE prefix == SubSeq(q, 1, b - 1)
           kept == TailKept(q, b)
           S == Range(q) \cup {other} \cup Range(kept)
<1>1. DOMAIN q = 1..Len(q) /\ Len(q) \in Nat /\ b \in 1..Len(q) /\ b - 1 \in Nat
      /\ \A i \in 1..(b - 1) : q[i] \in Range(q)
  BY DatedFacts
<1>2. /\ prefix \in Seq(Range(q)) /\ Len(prefix) = b - 1
      /\ \A i \in 1..(b - 1) : prefix[i] = q[i]
  <2>1. /\ prefix \in Seq(Range(q))
        /\ Len(prefix) = IF 1 <= b - 1 THEN (b - 1) - 1 + 1 ELSE 0
        /\ \A i \in 1..((b - 1) - 1 + 1) : prefix[i] = q[1 + i - 1]
    BY <1>1, SubSeqProperties
  <2> QED
    BY <1>1, <2>1
<1>3. kept \in Seq(Range(kept))
  BY TailFacts
<1>4. Synthetic(q, b, <<other>>) = (prefix \o <<other>>) \o kept
  BY DEF Synthetic
<1> HIDE DEF prefix, kept
<1>5. prefix \in Seq(S) /\ kept \in Seq(S) /\ <<other>> \in Seq(S)
  <2>1. Range(q) \subseteq S /\ Range(kept) \subseteq S /\ other \in S
    OBVIOUS
  <2> HIDE DEF S
  <2> QED
    BY <1>2, <1>3, <2>1, SeqMonotonic
<1> HIDE DEF S
<1>6. PICK one : one = <<other>>
  OBVIOUS
<1>7. one \in Seq(S) /\ Len(one) = 1 /\ one[1] = other
  BY <1>5, <1>6
<1> DEFINE front == prefix \o one
<1>8. /\ front \in Seq(S) /\ Len(front) = b
      /\ \A i \in 1..b : front[i] = IF i <= b - 1 THEN prefix[i] ELSE one[i - (b - 1)]
  <2>1. /\ front \in Seq(S)
        /\ Len(front) = Len(prefix) + Len(one)
        /\ \A i \in 1..(Len(prefix) + Len(one)) :
             front[i] = IF i <= Len(prefix) THEN prefix[i] ELSE one[i - Len(prefix)]
    BY <1>5, <1>7, ConcatProperties
  <2>2. Len(prefix) + Len(one) = b
    BY <1>1, <1>2, <1>7
  <2> HIDE DEF front
  <2> QED
    BY <1>2, <2>1, <2>2
<1>9. front[b] = other /\ \A i \in 1..(b - 1) : front[i] = q[i]
  <2> HIDE DEF front
  <2> QED
    BY <1>1, <1>2, <1>7, <1>8
<1> HIDE DEF front
<1> DEFINE s == front \o kept
<1>10. /\ s \in Seq(S) /\ Len(s) = b + Len(kept)
       /\ \A i \in 1..(b + Len(kept)) : s[i] = IF i <= b THEN front[i] ELSE kept[i - b]
  BY <1>5, <1>8, ConcatProperties
<1>11. Len(kept) \in Nat /\ DOMAIN kept = 1..Len(kept)
  BY <1>3, LenProperties
<1>12. DOMAIN s = 1..(b + Len(kept))
  BY <1>10, LenProperties
<1> HIDE DEF s
<1>13. b \in DOMAIN s /\ s[b] = other
  BY <1>1, <1>9, <1>10, <1>11, <1>12
<1>14. ASSUME NEW i \in DOMAIN s
       PROVE  \/ i \in 1..(b - 1) /\ s[i] = q[i]
              \/ i = b
              \/ s[i] \in Range(kept)
  <2>1. CASE i <= b
    <3>1. i = b \/ i \in 1..(b - 1)
      BY <1>1, <1>12, <2>1
    <3>2. s[i] = front[i]
      BY <1>10, <1>12, <2>1
    <3> QED
      BY <1>9, <3>1, <3>2
  <2>2. CASE ~ (i <= b)
    <3>1. i - b \in DOMAIN kept /\ s[i] = kept[i - b]
      BY <1>1, <1>10, <1>11, <1>12, <2>2
    <3> QED
      BY <3>1 DEF Range
  <2> QED
    BY <2>1, <2>2
<1> QED
  BY <1>4, <1>6, <1>13, <1>14 DEF s, front, kept

(* Where one caller checks the documented preconditions, another credit      *)
(* analysis in the place of the one on the loan decides the counterfactual,  *)
(* at every moment of every such history: the decisions follow the analysis  *)
(* and go with it, and no other analysis is left.                            *)
THEOREM DecisionsAreReplaced == ASSUME OneOrderlyCaller PROVE Spec => []DecisionIsReplaced
<1>1. ASSUME LoanInv, StateInv, CauseInv, OrderInv PROVE DecisionIsReplaced
  <2>1. PICK q : q = Timeline
    OBVIOUS
  <2> SUFFICES ASSUME NEW b \in OfLoan(q, "CreditAnalysisCompleted"), NEW other,
                      other = [stream |-> "loan",
                               event |-> Credit(q[b].event.session, q[b].event.model,
                                               q[b].event.cause)],
                      IsBranch(q, b, "CreditAnalysisCompleted", {"loan"})
               PROVE  DecidedBy(Synthetic(q, b, <<other>>)) = other
    BY <2>1 DEF DecisionIsReplaced
  <2> DEFINE s == Synthetic(q, b, <<other>>)
  <2>2. Dated(q) /\ b \in DOMAIN q
    BY <1>1, <2>1, TimelineFacts DEF OfLoan
  <2>3. /\ \A i \in 1..(b - 1) : ~ OnLoan(q[i], "DecisionGenerated")
                                /\ ~ OnLoan(q[i], "CreditAnalysisCompleted")
        /\ \A r \in Range(TailKept(q, b)) : ~ OnLoan(r, "DecisionGenerated")
                                           /\ ~ OnLoan(r, "CreditAnalysisCompleted")
    BY <1>1, <2>1, AroundBranch DEF OrderInv
  <2>4. /\ b \in DOMAIN s /\ s[b] = other
        /\ \A i \in DOMAIN s : \/ i \in 1..(b - 1) /\ s[i] = q[i]
                              \/ i = b
                              \/ s[i] \in Range(TailKept(q, b))
    BY <2>2, SplicedFacts
  <2>5. OnLoan(other, "CreditAnalysisCompleted") /\ ~ OnLoan(other, "DecisionGenerated")
    BY DEF OnLoan, Credit
  <2> HIDE DEF s
  <2>6. OfLoan(s, "DecisionGenerated") = {}
    BY <2>3, <2>4, <2>5, OfLoanFacts
  <2>7. OfLoan(s, "CreditAnalysisCompleted") = {b}
    BY <2>3, <2>4, <2>5, OfLoanFacts
  <2>8. Max({b}) = b
    <3>1. PICK n : n = Len(q)
      OBVIOUS
    <3>2. n \in Nat /\ {b} \subseteq 1..n /\ {b} # {}
      BY <2>2, <3>1, DatedFacts
    <3> QED
      BY <3>2, MaxOfBounded
  <2>9. DecidedBy(s) = s[b]
    BY <2>6, <2>7, <2>8 DEF DecidedBy
  <2> QED
    BY <2>4, <2>9 DEF s
<1>2. Spec => [](LoanInv /\ StateInv /\ CauseInv)
  BY LoanInvariant, StateInvariant, CausesLeadBack, PTL
<1> QED
  BY <1>1, <1>2, OrderInvariant, PTL
-------------------------------------------------------------------------------
(* How far an event is from what caused it *)

LEMMA StrongInduction ==
  ASSUME NEW T, \A n \in Nat : (\A m \in 0..(n - 1) : m \in T) => n \in T
  PROVE  \A n \in Nat : n \in T
<1> SUFFICES ASSUME Nat \ T # {} PROVE FALSE
  OBVIOUS
<1>1. PICK x \in Nat \ T : \A y \in Nat \ T : x <= y
  <2> DEFINE U == Nat \ T
  <2>1. U \subseteq Nat /\ U # {}
    OBVIOUS
  <2> HIDE DEF U
  <2>2. \E z \in U : \A y \in U : z <= y
    BY <2>1, LeastNatural
  <2> QED
    BY <2>2 DEF U
<1>2. \A m \in 0..(x - 1) : m \in T
  BY <1>1
<1> QED
  BY <1>1, <1>2

(* What the recursive function inside Distances must satisfy. *)
IsDistance(f, q, root, n) ==
  f = [id \in 0..n |->
         IF id \notin Ids(q) THEN 0
         ELSE IF CauseOf(q, id) = root THEN 1
         ELSE LET above == f[CauseOf(q, id)] IN IF above = 0 THEN 0 ELSE above + 1]

Distance(q, root) == CHOOSE f : IsDistance(f, q, root, clock)

LEMMA DistanceExists ==
  ASSUME NEW q, Dated(q), NEW root, NEW n \in Nat
  PROVE  \E f : IsDistance(f, q, root, n)
<1> DEFINE T == {m \in Nat : \E f : IsDistance(f, q, root, m)}
           Body(h, id) == IF id \notin Ids(q) THEN 0
                          ELSE IF CauseOf(q, id) = root THEN 1
                          ELSE LET above == h[CauseOf(q, id)] IN IF above = 0 THEN 0 ELSE above + 1
<1>0. \A id \in Ids(q) : id # 0 /\ \A m \in Nat : id \in 0..(m + 1) => CauseOf(q, id) \in 0..m
  BY CauseOfFacts
<1>1. 0 \in T
  <2> DEFINE f == [id \in 0..0 |-> 0]
  <2>1. 0 \notin Ids(q) /\ 0..0 = {0}
    BY <1>0
  <2>2. IsDistance(f, q, root, 0)
    BY <2>1 DEF IsDistance
  <2> HIDE DEF f
  <2> QED
    BY <2>2
<1>2. ASSUME NEW m \in Nat, m \in T PROVE m + 1 \in T
  <2>1. PICK f : IsDistance(f, q, root, m)
    BY <1>2
  <2> DEFINE g == [id \in 0..(m + 1) |-> IF id = m + 1 THEN Body(f, id) ELSE f[id]]
  <2>2. ASSUME NEW id \in 0..m PROVE g[id] = f[id]
    <3>1. id \in 0..(m + 1) /\ id # m + 1
      BY <2>2
    <3> HIDE DEF Body
    <3> QED
      BY <3>1
  <2>3. ASSUME NEW id \in 0..(m + 1) PROVE g[id] = Body(g, id)
    <3>1. id \in Ids(q) => g[CauseOf(q, id)] = f[CauseOf(q, id)]
      BY <1>0, <2>2
    <3>0. Body(g, id) = Body(f, id)
      <4> HIDE DEF g
      <4> QED
        BY <3>1
    <3>2. CASE id = m + 1
      <4>1. g[id] = Body(f, id)
        <5> HIDE DEF Body
        <5> QED
          BY <3>2
      <4> QED
        BY <3>0, <4>1
    <3>3. CASE id # m + 1
      <4>1. id \in 0..m
        BY <3>3
      <4>2. f[id] = Body(f, id)
        BY <2>1, <4>1 DEF IsDistance
      <4>3. g[id] = f[id]
        BY <2>2, <4>1
      <4> HIDE DEF g, Body
      <4> QED
        BY <3>0, <4>2, <4>3
    <3> QED
      BY <3>2, <3>3
  <2>4. g = [id \in 0..(m + 1) |-> g[id]]
    OBVIOUS
  <2> HIDE DEF g
  <2>5. IsDistance(g, q, root, m + 1)
    BY <2>3, <2>4 DEF IsDistance
  <2> QED
    BY <2>5
<1> HIDE DEF T
<1>3. \A m \in Nat : m \in T
  BY <1>1, <1>2, Induction
<1> QED
  BY <1>3 DEF T

(* From root to x, through the records. *)
StepsFrom(q, root, x) == Distance(q, root)[x]

LEMMA StepsOf ==
  ASSUME clock \in Nat, NEW q, Dated(q), NEW root, NEW x \in 0..clock
  PROVE  StepsFrom(q, root, x) = IF x \notin Ids(q) THEN 0
                             ELSE IF CauseOf(q, x) = root THEN 1
                             ELSE IF StepsFrom(q, root, CauseOf(q, x)) = 0 THEN 0
                             ELSE StepsFrom(q, root, CauseOf(q, x)) + 1
<1>1. PICK d : d = Distance(q, root)
  OBVIOUS
<1>2. IsDistance(d, q, root, clock)
  BY <1>1, DistanceExists DEF Distance
<1>3. d[x] = IF x \notin Ids(q) THEN 0
             ELSE IF CauseOf(q, x) = root THEN 1
             ELSE IF d[CauseOf(q, x)] = 0 THEN 0 ELSE d[CauseOf(q, x)] + 1
  BY <1>2 DEF IsDistance
<1> QED
  BY <1>1, <1>3 DEF StepsFrom

LEMMA StepsBack ==
  ASSUME clock \in Nat, NEW q, Dated(q), NEW root \in Nat
  PROVE  \A x \in 0..clock :
           /\ StepsFrom(q, root, x) \in Nat
           /\ StepsFrom(q, root, x) # 0 => x \in Ids(q) /\ x > root
<1> DEFINE Good(x) == /\ StepsFrom(q, root, x) \in Nat
                      /\ StepsFrom(q, root, x) # 0 => x \in Ids(q) /\ x > root
           T == {x \in Nat : x \in 0..clock => Good(x)}
<1>1. ASSUME NEW x \in Nat, \A m \in 0..(x - 1) : m \in T PROVE x \in T
  <2> SUFFICES ASSUME x \in 0..clock PROVE Good(x)
    OBVIOUS
  <2>0. CASE x \notin Ids(q)
    <3>1. StepsFrom(q, root, x) = 0
      BY <2>0, StepsOf
    <3> QED
      BY <3>1
  <2>1. CASE x \in Ids(q)
    <3>1. PICK p : p = CauseOf(q, x)
      OBVIOUS
    <3>2. p \in 0..(x - 1)
      BY <2>1, <3>1, CauseOfFacts
    <3>3. p \in 0..clock /\ p \in Nat
      BY <3>2
    <3>4. p \in T
      BY <1>1, <3>2
    <3> HIDE DEF Good
    <3>5. Good(p)
      BY <3>3, <3>4
    <3>6. StepsFrom(q, root, x) = IF p = root THEN 1
                              ELSE IF StepsFrom(q, root, p) = 0 THEN 0 ELSE StepsFrom(q, root, p) + 1
      BY <2>1, <3>1, StepsOf
    <3> QED
      BY <2>1, <3>2, <3>3, <3>5, <3>6 DEF Good
  <2> QED
    BY <2>0, <2>1
<1> HIDE DEF T
<1>2. \A x \in Nat : x \in T
  BY <1>1, StrongInduction
<1>3. \A x \in 0..clock : x \in Nat
  OBVIOUS
<1> QED
  BY <1>2, <1>3 DEF T

(* An event is one step from its cause, and one further than its cause from  *)
(* everything before.                                                        *)
LEMMA StepsFacts ==
  ASSUME clock \in Nat, NEW q, Dated(q), NEW root \in Nat, NEW x \in Ids(q)
  PROVE  /\ x \in 0..clock /\ CauseOf(q, x) \in 0..clock
         /\ StepsFrom(q, root, x) = 1 <=> CauseOf(q, x) = root
         /\ \A k \in Nat \ {0} : StepsFrom(q, root, x) = k + 1 <=> StepsFrom(q, root, CauseOf(q, x)) = k
<1>1. PICK p : p = CauseOf(q, x)
  OBVIOUS
<1>2. x \in 1..clock /\ p \in 0..(x - 1)
  BY <1>1, CauseOfFacts
<1>3. x \in 0..clock /\ p \in 0..clock
  BY <1>2
<1>4. StepsFrom(q, root, p) \in Nat /\ (p = root => StepsFrom(q, root, p) = 0)
  BY <1>3, StepsBack
<1>5. StepsFrom(q, root, x) = IF p = root THEN 1
                          ELSE IF StepsFrom(q, root, p) = 0 THEN 0 ELSE StepsFrom(q, root, p) + 1
  BY <1>1, <1>3, StepsOf
<1> QED
  BY <1>1, <1>3, <1>4, <1>5

(* What the event id caused itself. *)
ChildrenOf(q, id) == {r \in Range(q) : r.event.cause = id}

LEMMA ChildFacts ==
  ASSUME clock \in Nat, NEW q, Dated(q), NEW id \in Nat, NEW c \in ChildrenOf(q, id)
  PROVE  /\ c \in Range(q) /\ c.event.gp \in Ids(q) /\ CauseOf(q, c.event.gp) = id
         /\ c.event.gp \in Nat /\ c.event.gp \in 0..clock /\ id < c.event.gp
<1>1. c \in Range(q) /\ c.event.cause = id
  BY DEF ChildrenOf
<1>2. c.event.gp \in 1..clock /\ c.event.cause \in 0..(c.event.gp - 1)
  BY <1>1 DEF Dated
<1>3. c.event.gp \in Ids(q)
  BY <1>1, DatedFacts
<1> QED
  BY <1>1, <1>2, <1>3, CauseOfFacts

(* What is k + 1 steps from an event is k steps from one that it caused.     *)
LEMMA StepsDown ==
  ASSUME clock \in Nat, NEW q, Dated(q), NEW id \in Nat
  PROVE  \A k \in Nat \ {0} : \A x \in 0..clock :
           StepsFrom(q, id, x) = k + 1 <=> \E c \in ChildrenOf(q, id) : StepsFrom(q, c.event.gp, x) = k
<1> DEFINE Up(x, k) == StepsFrom(q, id, x) = k
           Down(x, k) == \E c \in ChildrenOf(q, id) : StepsFrom(q, c.event.gp, x) = k
           T == {n \in Nat : \A x \in 0..clock : Up(x, n + 2) <=> Down(x, n + 1)}
<1>0. ASSUME NEW x \in 0..clock, NEW k \in Nat \ {0}, x \notin Ids(q)
      PROVE  ~ Up(x, k) /\ ~ Down(x, k)
  <2>1. \A root : StepsFrom(q, root, x) = 0
    BY <1>0, StepsOf
  <2> QED
    BY <2>1
<1>1. 0 \in T
  <2> SUFFICES ASSUME NEW x \in 0..clock PROVE Up(x, 2) <=> Down(x, 1)
    OBVIOUS
  <2>1. CASE x \in Ids(q)
    <3>1. PICK p : p = CauseOf(q, x)
      OBVIOUS
    <3>2. p \in 0..clock
      BY <2>1, <3>1, StepsFacts
    <3>3. 1 \in Nat \ {0} /\ 1 + 1 = 2
      OBVIOUS
    <3>4. Up(x, 2) <=> Up(p, 1)
      BY <2>1, <3>1, <3>3, StepsFacts
    <3>5. Up(p, 1) => p \in Ids(q) /\ CauseOf(q, p) = id
      BY <3>2, StepsBack, StepsFacts
    <3>6. p \in Ids(q) /\ CauseOf(q, p) = id => Up(p, 1)
      BY StepsFacts
    <3>7. p \in Ids(q) /\ CauseOf(q, p) = id <=> \E c \in ChildrenOf(q, id) : c.event.gp = p
      <4>1. ASSUME p \in Ids(q), CauseOf(q, p) = id
            PROVE  \E c \in ChildrenOf(q, id) : c.event.gp = p
        <5>1. PICK c \in Range(q) : c.event.gp = p
          BY <4>1, DatedFacts
        <5>2. c.event.cause = id
          BY <4>1, <5>1, CauseOfFacts
        <5> QED
          BY <5>1, <5>2 DEF ChildrenOf
      <4>2. ASSUME NEW c \in ChildrenOf(q, id), c.event.gp = p
            PROVE  p \in Ids(q) /\ CauseOf(q, p) = id
        BY <4>2, ChildFacts
      <4> QED
        BY <4>1, <4>2
    <3>8. \A c \in ChildrenOf(q, id) : StepsFrom(q, c.event.gp, x) = 1 <=> c.event.gp = p
      BY <2>1, <3>1, ChildFacts, StepsFacts
    <3>9. Down(x, 1) <=> \E c \in ChildrenOf(q, id) : c.event.gp = p
      BY <3>8
    <3> QED
      BY <3>4, <3>5, <3>6, <3>7, <3>9
  <2> QED
    BY <1>0, <2>1
<1>2. ASSUME NEW n \in Nat, n \in T PROVE n + 1 \in T
  <2> SUFFICES ASSUME NEW x \in 0..clock PROVE Up(x, n + 3) <=> Down(x, n + 2)
    OBVIOUS
  <2>0. /\ n + 3 \in Nat \ {0} /\ n + 2 \in Nat \ {0} /\ n + 1 \in Nat \ {0}
        /\ (n + 2) + 1 = n + 3 /\ (n + 1) + 1 = n + 2
    OBVIOUS
  <2>1. CASE x \in Ids(q)
    <3>1. PICK p : p = CauseOf(q, x)
      OBVIOUS
    <3>2. p \in 0..clock
      BY <2>1, <3>1, StepsFacts
    <3>3. Up(x, n + 3) <=> Up(p, n + 2)
      BY <2>0, <2>1, <3>1, StepsFacts
    <3>4. \A c \in ChildrenOf(q, id) :
            StepsFrom(q, c.event.gp, x) = n + 2 <=> StepsFrom(q, c.event.gp, p) = n + 1
      BY <2>0, <2>1, <3>1, ChildFacts, StepsFacts
    <3>5. Down(x, n + 2) <=> Down(p, n + 1)
      BY <3>4
    <3>6. Up(p, n + 2) <=> Down(p, n + 1)
      BY <1>2, <3>2
    <3> QED
      BY <3>3, <3>5, <3>6
  <2> QED
    BY <1>0, <2>0, <2>1
<1> HIDE DEF T
<1>3. \A n \in Nat : n \in T
  BY <1>1, <1>2, Induction
<1>4. SUFFICES ASSUME NEW k \in Nat \ {0}, NEW x \in 0..clock PROVE Up(x, k + 1) <=> Down(x, k)
  OBVIOUS
<1>5. k - 1 \in T /\ (k - 1) + 2 = k + 1 /\ (k - 1) + 1 = k
  BY <1>3
<1> QED
  BY <1>5 DEF T

(* No child of an event follows from another, and nothing follows from both. *)
LEMMA ChildrenApart ==
  ASSUME clock \in Nat, NEW q, Dated(q), NEW id \in Nat,
         NEW a \in ChildrenOf(q, id), NEW b \in ChildrenOf(q, id)
  PROVE  StepsFrom(q, a.event.gp, b.event.gp) = 0
<1>1. /\ a.event.gp \in Nat /\ id < a.event.gp /\ a.event.gp # id
      /\ b.event.gp \in Ids(q) /\ b.event.gp \in 0..clock /\ CauseOf(q, b.event.gp) = id
  BY ChildFacts
<1>2. id \in 0..clock
  BY <1>1, StepsFacts
<1>3. StepsFrom(q, a.event.gp, id) = 0
  BY <1>1, <1>2, StepsBack
<1> QED
  BY <1>1, <1>2, <1>3, StepsOf

LEMMA OneParent ==
  ASSUME clock \in Nat, NEW q, Dated(q), NEW id \in Nat,
         NEW a \in ChildrenOf(q, id), NEW b \in ChildrenOf(q, id), a # b
  PROVE  \A x \in 0..clock : StepsFrom(q, a.event.gp, x) = 0 \/ StepsFrom(q, b.event.gp, x) = 0
<1> DEFINE Good(x) == StepsFrom(q, a.event.gp, x) = 0 \/ StepsFrom(q, b.event.gp, x) = 0
           T == {x \in Nat : x \in 0..clock => Good(x)}
<1>0. a.event.gp \in Nat /\ b.event.gp \in Nat /\ a.event.gp # b.event.gp
  BY DatedFacts, ChildFacts
<1>1. ASSUME NEW x \in Nat, \A m \in 0..(x - 1) : m \in T PROVE x \in T
  <2> SUFFICES ASSUME x \in 0..clock PROVE Good(x)
    OBVIOUS
  <2>0. CASE x \notin Ids(q)
    BY <2>0, StepsOf
  <2>1. CASE x \in Ids(q)
    <3>1. PICK p : p = CauseOf(q, x)
      OBVIOUS
    <3>2. p \in 0..(x - 1)
      BY <2>1, <3>1, CauseOfFacts
    <3>3. p \in 0..clock /\ p \in Nat
      BY <3>2
    <3>4. CASE p = a.event.gp
      <4>1. StepsFrom(q, b.event.gp, p) = 0
        BY <3>4, ChildrenApart
      <4>2. StepsFrom(q, b.event.gp, x) = 0
        BY <1>0, <2>1, <3>1, <3>4, <4>1, StepsOf
      <4> QED
        BY <4>2
    <3>5. CASE p = b.event.gp
      <4>1. StepsFrom(q, a.event.gp, p) = 0
        BY <3>5, ChildrenApart
      <4>2. StepsFrom(q, a.event.gp, x) = 0
        BY <1>0, <2>1, <3>1, <3>5, <4>1, StepsOf
      <4> QED
        BY <4>2
    <3>6. CASE p # a.event.gp /\ p # b.event.gp
      <4>1. p \in T
        BY <1>1, <3>2
      <4> HIDE DEF Good
      <4>2. Good(p)
        BY <3>3, <4>1
      <4>3. /\ StepsFrom(q, a.event.gp, p) = 0 => StepsFrom(q, a.event.gp, x) = 0
            /\ StepsFrom(q, b.event.gp, p) = 0 => StepsFrom(q, b.event.gp, x) = 0
        BY <2>1, <3>1, <3>6, StepsOf
      <4> QED
        BY <4>2, <4>3 DEF Good
    <3> QED
      BY <3>4, <3>5, <3>6
  <2> QED
    BY <2>0, <2>1
<1> HIDE DEF T
<1>2. \A x \in Nat : x \in T
  BY <1>1, StrongInduction
<1>3. \A x \in 0..clock : x \in Nat
  OBVIOUS
<1> QED
  BY <1>2, <1>3 DEF T

-------------------------------------------------------------------------------
(* The records behind an event *)

(* The records of R, each once, after id or a record that caused it. *)
Tree(o, id, R) ==
  /\ o \in Seq(R)
  /\ Range(o) = R
  /\ IsInjective(o)
  /\ \A i \in DOMAIN o : o[i].event.cause \in {id} \cup {o[j].event.gp : j \in 1..(i - 1)}

LEMMA EmptyTree == ASSUME NEW id PROVE Tree(<<>>, id, {})
<1>1. <<>> \in Seq({}) /\ DOMAIN <<>> = {} /\ Range(<<>>) = {}
  BY DEF Range
<1> QED
  BY <1>1 DEF Tree, IsInjective

LEMMA AppendTree ==
  ASSUME NEW o, NEW id, NEW R, Tree(o, id, R), NEW r, r \notin R, r.event.cause = id
  PROVE  Tree(Append(o, r), id, R \cup {r})
<1> DEFINE a == Append(o, r)
           S == R \cup {r}
<1>0. o \in Seq(S) /\ r \in S
  BY DEF Tree
<1>1. /\ a \in Seq(S)
      /\ Len(o) \in Nat /\ DOMAIN o = 1..Len(o) /\ DOMAIN a = 1..(Len(o) + 1)
      /\ \A i \in 1..Len(o) : a[i] = o[i]
      /\ a[Len(o) + 1] = r
  <2> HIDE DEF S
  <2> QED
    BY <1>0, AppendProperties, LenProperties
<1>2. \A i \in 1..Len(o) : o[i] \in R
  BY <1>1 DEF Tree, Range
<1>3. 1..(Len(o) + 1) = 1..Len(o) \cup {Len(o) + 1}
  BY <1>1
<1> HIDE DEF a
<1>4. Range(a) = S
  BY <1>1, <1>2, <1>3 DEF Range, Tree
<1>5. IsInjective(a)
  <2> SUFFICES ASSUME NEW i \in 1..(Len(o) + 1), NEW j \in 1..(Len(o) + 1), a[i] = a[j]
               PROVE  i = j
    BY <1>1 DEF IsInjective
  <2>1. CASE i \in 1..Len(o) /\ j \in 1..Len(o)
    BY <1>1, <2>1 DEF Tree, IsInjective
  <2>2. CASE i = Len(o) + 1 \/ j = Len(o) + 1
    BY <1>1, <1>2, <1>3, <2>2
  <2> QED
    BY <1>3, <2>1, <2>2
<1>6. ASSUME NEW i \in 1..(Len(o) + 1)
      PROVE  a[i].event.cause \in {id} \cup {a[j].event.gp : j \in 1..(i - 1)}
  <2>1. CASE i = Len(o) + 1
    BY <1>1, <2>1
  <2>2. CASE i \in 1..Len(o)
    <3>1. \A j \in 1..(i - 1) : a[j] = o[j]
      BY <1>1, <2>2
    <3>2. a[i].event.cause \in {id} \cup {o[j].event.gp : j \in 1..(i - 1)}
      BY <1>1, <2>2 DEF Tree
    <3> QED
      BY <3>1, <3>2
  <2> QED
    BY <1>3, <2>1, <2>2
<1> QED
  BY <1>1, <1>4, <1>5, <1>6 DEF Tree, a

LEMMA JoinTrees ==
  ASSUME NEW o, NEW id, NEW R, Tree(o, id, R), NEW r \in R,
         NEW v, NEW V, Tree(v, r.event.gp, V), R \cap V = {}
  PROVE  Tree(o \o v, id, R \cup V)
<1> DEFINE a == o \o v
           S == R \cup V
<1>0. o \in Seq(S) /\ v \in Seq(S)
  BY DEF Tree
<1>1. /\ a \in Seq(S)
      /\ Len(o) \in Nat /\ DOMAIN o = 1..Len(o)
      /\ Len(v) \in Nat /\ DOMAIN v = 1..Len(v) /\ DOMAIN a = 1..(Len(o) + Len(v))
      /\ \A i \in 1..(Len(o) + Len(v)) : a[i] = IF i <= Len(o) THEN o[i] ELSE v[i - Len(o)]
  <2> HIDE DEF S
  <2>1. a \in Seq(S) /\ Len(a) = Len(o) + Len(v)
    BY <1>0, ConcatProperties
  <2>2. \A i \in 1..(Len(o) + Len(v)) : a[i] = IF i <= Len(o) THEN o[i] ELSE v[i - Len(o)]
    BY <1>0, ConcatProperties
  <2> HIDE DEF a
  <2> QED
    BY <1>0, <2>1, <2>2, LenProperties
<1>2. /\ \A i \in 1..Len(o) : o[i] \in R
      /\ \A i \in 1..Len(v) : v[i] \in V
  BY <1>1 DEF Tree, Range
<1>3. /\ \A i \in 1..Len(o) : i \in 1..(Len(o) + Len(v)) /\ a[i] = o[i]
      /\ \A i \in 1..Len(v) : i + Len(o) \in 1..(Len(o) + Len(v)) /\ a[i + Len(o)] = v[i]
      /\ \A i \in 1..(Len(o) + Len(v)) :
           i \notin 1..Len(o) => i - Len(o) \in 1..Len(v) /\ a[i] = v[i - Len(o)]
  <2> HIDE DEF a
  <2>1. ASSUME NEW i \in 1..Len(o) PROVE i \in 1..(Len(o) + Len(v)) /\ a[i] = o[i]
    BY <1>1, <2>1
  <2>2. ASSUME NEW i \in 1..Len(v)
        PROVE  i + Len(o) \in 1..(Len(o) + Len(v)) /\ a[i + Len(o)] = v[i]
    <3>1. i + Len(o) \in 1..(Len(o) + Len(v)) /\ ~ (i + Len(o) <= Len(o))
          /\ (i + Len(o)) - Len(o) = i
      BY <1>1, <2>2
    <3> QED
      BY <1>1, <3>1
  <2>3. ASSUME NEW i \in 1..(Len(o) + Len(v)), i \notin 1..Len(o)
        PROVE  i - Len(o) \in 1..Len(v) /\ a[i] = v[i - Len(o)]
    <3>1. i - Len(o) \in 1..Len(v) /\ ~ (i <= Len(o))
      BY <1>1, <2>3
    <3> QED
      BY <1>1, <3>1
  <2> QED
    BY <2>1, <2>2, <2>3
<1> HIDE DEF a
<1>4. Range(a) = S
  <2>1. ASSUME NEW x \in S PROVE x \in Range(a)
    <3>1. CASE x \in R
      <4>1. PICK i \in 1..Len(o) : x = o[i]
        BY <1>1, <3>1 DEF Tree, Range
      <4> QED
        BY <1>1, <1>3, <4>1 DEF Range
    <3>2. CASE x \in V
      <4>1. PICK i \in 1..Len(v) : x = v[i]
        BY <1>1, <3>2 DEF Tree, Range
      <4> QED
        BY <1>1, <1>3, <4>1 DEF Range
    <3> QED
      BY <3>1, <3>2
  <2>2. \A i \in 1..(Len(o) + Len(v)) : a[i] \in S
    BY <1>2, <1>3
  <2> QED
    BY <1>1, <2>1, <2>2 DEF Range
<1>5. IsInjective(a)
  <2> SUFFICES ASSUME NEW i \in 1..(Len(o) + Len(v)), NEW j \in 1..(Len(o) + Len(v)), a[i] = a[j]
               PROVE  i = j
    BY <1>1 DEF IsInjective
  <2>1. CASE i \in 1..Len(o) /\ j \in 1..Len(o)
    <3>1. o[i] = o[j]
      BY <1>3, <2>1
    <3> QED
      BY <1>1, <2>1, <3>1 DEF Tree, IsInjective
  <2>2. CASE i \in 1..Len(o) /\ j \notin 1..Len(o)
    <3>1. a[i] \in R /\ a[j] \in V
      BY <1>2, <1>3, <2>2
    <3> QED
      BY <3>1
  <2>3. CASE i \notin 1..Len(o) /\ j \in 1..Len(o)
    <3>1. a[i] \in V /\ a[j] \in R
      BY <1>2, <1>3, <2>3
    <3> QED
      BY <3>1
  <2>4. CASE i \notin 1..Len(o) /\ j \notin 1..Len(o)
    <3>1. v[i - Len(o)] = v[j - Len(o)] /\ i - Len(o) \in DOMAIN v /\ j - Len(o) \in DOMAIN v
      BY <1>1, <1>3, <2>4
    <3>2. i - Len(o) = j - Len(o)
      BY <3>1 DEF Tree, IsInjective
    <3> QED
      BY <1>1, <3>2
  <2> QED
    BY <2>1, <2>2, <2>3, <2>4
<1>6. ASSUME NEW i \in 1..(Len(o) + Len(v))
      PROVE  a[i].event.cause \in {id} \cup {a[j].event.gp : j \in 1..(i - 1)}
  <2>1. CASE i \in 1..Len(o)
    <3>1. \A j \in 1..(i - 1) : a[j] = o[j]
      BY <1>1, <1>3, <2>1
    <3>2. a[i] = o[i]
      BY <1>3, <2>1
    <3>3. a[i].event.cause \in {id} \cup {o[j].event.gp : j \in 1..(i - 1)}
      BY <1>1, <2>1, <3>2 DEF Tree
    <3> QED
      BY <3>1, <3>3
  <2>2. CASE i \notin 1..Len(o)
    <3>1. i - Len(o) \in 1..Len(v) /\ a[i] = v[i - Len(o)]
      BY <1>3, <2>2
    <3>2. a[i].event.cause \in {r.event.gp} \cup {v[j].event.gp : j \in 1..((i - Len(o)) - 1)}
      BY <1>1, <3>1 DEF Tree
    <3>3. CASE a[i].event.cause = r.event.gp
      <4>1. PICK j \in 1..Len(o) : r = o[j]
        BY <1>1 DEF Tree, Range
      <4>2. j \in 1..(i - 1) /\ a[j] = r
        BY <1>1, <1>3, <2>2, <4>1
      <4> QED
        BY <3>3, <4>2
    <3>4. CASE a[i].event.cause \in {v[j].event.gp : j \in 1..((i - Len(o)) - 1)}
      <4>1. PICK j \in 1..((i - Len(o)) - 1) : a[i].event.cause = v[j].event.gp
        BY <3>4
      <4>2. j \in 1..Len(v) /\ j + Len(o) \in 1..(i - 1)
        BY <1>1, <3>1
      <4>3. a[j + Len(o)] = v[j]
        BY <1>3, <4>2
      <4> QED
        BY <4>1, <4>2, <4>3
    <3> QED
      BY <3>2, <3>3, <3>4
  <2> QED
    BY <2>1, <2>2
<1> QED
  BY <1>1, <1>4, <1>5, <1>6 DEF Tree, a

LEMMA ChildrenFacts ==
  ASSUME NEW q, Dated(q), NEW id
  PROVE  LET ch == Children(q, id)
         IN /\ ch \in Seq(Range(ch)) /\ Range(ch) = ChildrenOf(q, id)
            /\ Len(ch) \in Nat /\ DOMAIN ch = 1..Len(ch)
            /\ \A i \in 1..Len(ch) : ch[i] \in ChildrenOf(q, id)
            /\ \A i, j \in 1..Len(ch) : i < j => ch[i] # ch[j]
<1> DEFINE S == {r \in ToSet(q) : r.event.cause = id}
           ch == Children(q, id)
<1>1. ToSet(q) = Range(q)
  BY DEF ToSet, Range
<1>2. Range(q) \cap S = ChildrenOf(q, id)
  BY <1>1 DEF ChildrenOf
<1>3. ch = Keep(q, S)
  BY DEF Children
<1>4. q \in Seq(Range(q)) /\ Rising(q)
  BY DEF Dated
<1> HIDE DEF S, ch
<1>5. ch \in Seq(Range(ch)) /\ Range(ch) = ChildrenOf(q, id) /\ Rising(ch)
  BY <1>2, <1>3, <1>4, KeepFacts
<1>6. Len(ch) \in Nat /\ DOMAIN ch = 1..Len(ch)
  BY <1>5, LenProperties
<1>7. \A i \in 1..Len(ch) : ch[i] \in ChildrenOf(q, id)
  BY <1>5, <1>6 DEF Range
<1>8. ASSUME NEW i \in 1..Len(ch), NEW j \in 1..Len(ch), i < j PROVE ch[i] # ch[j]
  <2>1. ch[i].event.gp < ch[j].event.gp
    BY <1>5, <1>6, <1>8 DEF Rising
  <2>2. ch[i] \in Range(q)
    BY <1>7 DEF ChildrenOf
  <2>3. ch[i].event.gp \in 1..clock
    BY <2>2 DEF Dated
  <2>4. ch[i] = ch[j] => FALSE
    BY <2>1, <2>3
  <2> QED
    BY <2>4
<1> QED
  BY <1>5, <1>6, <1>7, <1>8 DEF ch

(* The records h steps or less from the event id. *)
Down(q, id, h) == {r \in Range(q) : StepsFrom(q, id, r.event.gp) \in 1..h}

LEMMA DownFacts ==
  ASSUME clock \in Nat, NEW q, Dated(q), NEW id \in Nat, NEW h \in Nat
  PROVE  /\ Down(q, id, 0) = {}
         /\ Down(q, id, h + 1) =
              ChildrenOf(q, id)
                \cup {r \in Range(q) : \E c \in ChildrenOf(q, id) : r \in Down(q, c.event.gp, h)}
         /\ \A a, b \in ChildrenOf(q, id) : b \notin Down(q, a.event.gp, h)
         /\ \A a, b \in ChildrenOf(q, id) :
              a # b => Down(q, a.event.gp, h) \cap Down(q, b.event.gp, h) = {}
<1>0. \A r \in Range(q) : /\ r.event.gp \in Ids(q) /\ r.event.gp \in 0..clock
                          /\ CauseOf(q, r.event.gp) = r.event.cause
  <2>1. \A r \in Range(q) : r.event.gp \in Ids(q)
    BY DatedFacts
  <2>2. \A r \in Range(q) : r.event.gp \in 1..clock
    BY <2>1, CauseOfFacts
  <2>3. \A r \in Range(q) : CauseOf(q, r.event.gp) = r.event.cause
    BY CauseOfFacts
  <2> QED
    BY <2>1, <2>2, <2>3
<1>1. Down(q, id, 0) = {}
  <2>1. 1..0 = {}
    OBVIOUS
  <2> QED
    BY <2>1 DEF Down
<1>2. ASSUME NEW r \in Range(q)
      PROVE  r \in Down(q, id, h + 1) <=>
               \/ r \in ChildrenOf(q, id)
               \/ \E c \in ChildrenOf(q, id) : r \in Down(q, c.event.gp, h)
  <2>1. r \in ChildrenOf(q, id) <=> StepsFrom(q, id, r.event.gp) = 1
    BY <1>0, StepsFacts DEF ChildrenOf
  <2>2. \A k \in 1..h : StepsFrom(q, id, r.event.gp) = k + 1 <=>
                        \E c \in ChildrenOf(q, id) : StepsFrom(q, c.event.gp, r.event.gp) = k
    <3>1. \A k \in 1..h : k \in Nat \ {0}
      OBVIOUS
    <3> QED
      BY <1>0, <3>1, StepsDown
  <2>3. (\E c \in ChildrenOf(q, id) : r \in Down(q, c.event.gp, h))
          <=> \E k \in 1..h : StepsFrom(q, id, r.event.gp) = k + 1
    BY <2>2 DEF Down
  <2>4. StepsFrom(q, id, r.event.gp) \in Nat
    BY <1>0, StepsBack
  <2>5. \A n \in Nat : n \in 1..(h + 1) <=> n = 1 \/ \E k \in 1..h : n = k + 1
    <3>1. ASSUME NEW n \in Nat, n \in 1..(h + 1), n # 1 PROVE \E k \in 1..h : n = k + 1
      <4>1. n - 1 \in 1..h /\ n = (n - 1) + 1
        BY <3>1
      <4> QED
        BY <4>1
    <3>2. 1 \in 1..(h + 1) /\ \A k \in 1..h : k + 1 \in 1..(h + 1)
      OBVIOUS
    <3> QED
      BY <3>1, <3>2
  <2>6. r \in Down(q, id, h + 1) <=> StepsFrom(q, id, r.event.gp) \in 1..(h + 1)
    BY DEF Down
  <2> QED
    BY <2>1, <2>3, <2>4, <2>5, <2>6
<1>3. Down(q, id, h + 1) \subseteq Range(q) /\ ChildrenOf(q, id) \subseteq Range(q)
  BY DEF Down, ChildrenOf
<1>4. ASSUME NEW a \in ChildrenOf(q, id), NEW b \in ChildrenOf(q, id)
      PROVE  b \notin Down(q, a.event.gp, h)
  <2>1. StepsFrom(q, a.event.gp, b.event.gp) = 0 /\ 0 \notin 1..h
    BY ChildrenApart
  <2> QED
    BY <2>1 DEF Down
<1>5. ASSUME NEW a \in ChildrenOf(q, id), NEW b \in ChildrenOf(q, id), a # b,
             NEW r \in Down(q, a.event.gp, h)
      PROVE  r \notin Down(q, b.event.gp, h)
  <2>1. r \in Range(q) /\ StepsFrom(q, a.event.gp, r.event.gp) # 0
    BY <1>5 DEF Down
  <2>2. StepsFrom(q, b.event.gp, r.event.gp) = 0 /\ 0 \notin 1..h
    BY <1>0, <1>5, <2>1, OneParent
  <2> QED
    BY <2>2 DEF Down
<1>6. Down(q, id, h + 1) =
        ChildrenOf(q, id)
          \cup {r \in Range(q) : \E c \in ChildrenOf(q, id) : r \in Down(q, c.event.gp, h)}
  BY <1>2, <1>3
<1> QED
  BY <1>1, <1>4, <1>5, <1>6

(* What the recursive function inside Behind must satisfy, for n children.   *)
IsOut(f, ch, walk, n) ==
  f = [k \in 0..n |-> IF k = 0 THEN <<>>
                      ELSE Append(f[k - 1], ch[k]) \o walk[ch[k].event.gp]]

LEMMA OutExists ==
  ASSUME NEW ch, NEW walk, NEW n \in Nat
  PROVE  \E f : IsOut(f, ch, walk, n)
<1> DEFINE T == {m \in Nat : \E f : IsOut(f, ch, walk, m)}
           Longer(a, k) == Append(a, ch[k]) \o walk[ch[k].event.gp]
<1>1. 0 \in T
  <2> DEFINE f == [i \in 0..0 |-> <<>>]
  <2>1. IsOut(f, ch, walk, 0)
    BY DEF IsOut
  <2> HIDE DEF f
  <2> QED
    BY <2>1
<1>2. ASSUME NEW m \in Nat, m \in T PROVE m + 1 \in T
  <2>1. PICK f : IsOut(f, ch, walk, m)
    BY <1>2
  <2> DEFINE last == Longer(f[m], m + 1)
             g == [i \in 0..(m + 1) |-> IF i = m + 1 THEN last ELSE f[i]]
  <2>2. ASSUME NEW i \in 0..(m + 1)
        PROVE  g[i] = IF i = 0 THEN <<>> ELSE Longer(g[i - 1], i)
    <3> HIDE DEF Longer
    <3>1. CASE i = m + 1
      <4>1. g[i] = last /\ g[i - 1] = f[m] /\ i # 0 /\ i - 1 = m
        BY <3>1
      <4> QED
        BY <3>1, <4>1
    <3>2. CASE i # m + 1
      <4>1. i \in 0..m /\ (i # 0 => i - 1 \in 0..m)
        BY <3>2
      <4>2. g[i] = f[i] /\ (i # 0 => g[i - 1] = f[i - 1])
        BY <3>2, <4>1
      <4>3. f[i] = IF i = 0 THEN <<>> ELSE Longer(f[i - 1], i)
        BY <2>1, <4>1 DEF IsOut, Longer
      <4> QED
        BY <4>2, <4>3
    <3> QED
      BY <3>1, <3>2
  <2>3. g = [i \in 0..(m + 1) |-> g[i]]
    OBVIOUS
  <2> HIDE DEF g, last
  <2>4. IsOut(g, ch, walk, m + 1)
    BY <2>2, <2>3 DEF IsOut
  <2> QED
    BY <2>4
<1> HIDE DEF T
<1>3. \A m \in Nat : m \in T
  BY <1>1, <1>2, Induction
<1> QED
  BY <1>3 DEF T

(* Where walk finds the h steps behind each child, Behind finds one more.    *)
LEMMA BehindFacts ==
  ASSUME clock \in Nat, NEW q, Dated(q), NEW id \in Nat, NEW h \in Nat, NEW walk,
         \A c \in ChildrenOf(q, id) : Tree(walk[c.event.gp], c.event.gp, Down(q, c.event.gp, h))
  PROVE  Tree(Behind(q, id, walk), id, Down(q, id, h + 1))
<1>1. PICK ch : ch = Children(q, id)
  OBVIOUS
<1>2. /\ Range(ch) = ChildrenOf(q, id)
      /\ Len(ch) \in Nat /\ DOMAIN ch = 1..Len(ch)
      /\ \A i \in 1..Len(ch) : ch[i] \in ChildrenOf(q, id)
      /\ \A i, j \in 1..Len(ch) : i < j => ch[i] # ch[j]
  BY <1>1, ChildrenFacts
<1>3. PICK f : f = CHOOSE g : IsOut(g, ch, walk, Len(ch))
  OBVIOUS
<1>4. IsOut(f, ch, walk, Len(ch))
  BY <1>2, <1>3, OutExists
<1>5. Behind(q, id, walk) = f[Len(ch)]
  BY <1>1, <1>3 DEF Behind, IsOut
<1>0. Down(q, id, h + 1) =
        ChildrenOf(q, id)
          \cup {r \in Range(q) : \E c \in ChildrenOf(q, id) : r \in Down(q, c.event.gp, h)}
  BY DownFacts
<1>a. ASSUME NEW a \in ChildrenOf(q, id), NEW b \in ChildrenOf(q, id)
      PROVE  b \notin Down(q, a.event.gp, h)
  BY DownFacts
<1>b. ASSUME NEW a \in ChildrenOf(q, id), NEW b \in ChildrenOf(q, id), a # b
      PROVE  Down(q, a.event.gp, h) \cap Down(q, b.event.gp, h) = {}
  BY <1>b, DownFacts
<1> DEFINE Firsts(k) == {ch[j] : j \in 1..k}
           Rest(k) == {r \in Range(q) : \E j \in 1..k : r \in Down(q, ch[j].event.gp, h)}
           Good(k) == Tree(f[k], id, Firsts(k) \cup Rest(k))
           T == {k \in Nat : k <= Len(ch) => Good(k)}
<1>6. 0 \in T
  <2>1. f[0] = <<>>
    BY <1>2, <1>4 DEF IsOut
  <2>2. Firsts(0) \cup Rest(0) = {}
    <3>1. 1..0 = {}
      OBVIOUS
    <3> QED
      BY <3>1
  <2> QED
    BY <2>1, <2>2, EmptyTree
<1>7. ASSUME NEW k \in Nat, k \in T PROVE k + 1 \in T
  <2> SUFFICES ASSUME k + 1 <= Len(ch) PROVE Good(k + 1)
    <3> HIDE DEF Good
    <3> QED
      OBVIOUS
  <2>0. PICK c : c = ch[k + 1]
    OBVIOUS
  <2>1. k \in 0..Len(ch) /\ k + 1 \in 0..Len(ch) /\ k + 1 \in 1..Len(ch)
        /\ k + 1 # 0 /\ (k + 1) - 1 = k /\ 1..(k + 1) = 1..k \cup {k + 1}
    BY <1>2
  <2>2. f[k + 1] = Append(f[k], c) \o walk[c.event.gp]
    <3>1. \A i \in 0..Len(ch) : f[i] = IF i = 0 THEN <<>>
                                        ELSE Append(f[i - 1], ch[i]) \o walk[ch[i].event.gp]
      BY <1>4 DEF IsOut
    <3> QED
      BY <2>0, <2>1, <3>1
  <2>3. c \in ChildrenOf(q, id) /\ c.event.cause = id
    BY <1>2, <2>0, <2>1 DEF ChildrenOf
  <2>4. \A j \in 1..k : ch[j] \in ChildrenOf(q, id) /\ ch[j] # c
    BY <1>2, <2>0, <2>1
  <2>5. Good(k)
    BY <1>7, <1>2
  <2>6. PICK A, V : A = Firsts(k) \cup Rest(k) /\ V = Down(q, c.event.gp, h)
    OBVIOUS
  <2>7. c \notin A
    BY <1>a, <2>3, <2>4, <2>6
  <2>8. (A \cup {c}) \cap V = {}
    <3>1. c \notin V
      BY <1>a, <2>3, <2>6
    <3>2. \A j \in 1..k : ch[j] \notin V /\ Down(q, ch[j].event.gp, h) \cap V = {}
      BY <1>a, <1>b, <2>3, <2>4, <2>6
    <3> QED
      BY <2>6, <3>1, <3>2
  <2>9. Firsts(k + 1) \cup Rest(k + 1) = (A \cup {c}) \cup V
    <3>1. V \subseteq Range(q)
      BY <2>6 DEF Down
    <3>2. Firsts(k + 1) = Firsts(k) \cup {c}
      BY <2>0, <2>1
    <3>3. Rest(k + 1) = Rest(k) \cup V
      BY <2>0, <2>1, <2>6, <3>1
    <3> QED
      BY <2>6, <3>2, <3>3
  <2>10. Tree(Append(f[k], c), id, A \cup {c})
    BY <2>3, <2>5, <2>6, <2>7, AppendTree
  <2>11. Tree(walk[c.event.gp], c.event.gp, V)
    BY <2>3, <2>6
  <2>12. Tree(Append(f[k], c) \o walk[c.event.gp], id, (A \cup {c}) \cup V)
    BY <2>8, <2>10, <2>11, JoinTrees
  <2> QED
    BY <2>2, <2>9, <2>12
<1> HIDE DEF T
<1>8. \A k \in Nat : k \in T
  BY <1>6, <1>7, Induction
<1>9. Good(Len(ch))
  <2>1. Len(ch) \in T /\ Len(ch) <= Len(ch)
    BY <1>2, <1>8
  <2> HIDE DEF Good
  <2> QED
    BY <2>1 DEF T
<1>10. Firsts(Len(ch)) \cup Rest(Len(ch)) = Down(q, id, h + 1)
  <2>1. \A c : c \in ChildrenOf(q, id) <=> \E j \in 1..Len(ch) : c = ch[j]
    BY <1>2 DEF Range
  <2>2. Firsts(Len(ch)) = ChildrenOf(q, id)
    BY <2>1
  <2>3. Rest(Len(ch)) =
          {r \in Range(q) : \E c \in ChildrenOf(q, id) : r \in Down(q, c.event.gp, h)}
    BY <2>1
  <2> QED
    BY <1>0, <2>2, <2>3
<1> QED
  BY <1>5, <1>9, <1>10

-------------------------------------------------------------------------------
(* The chain *)

(* What the recursive function inside Chain must satisfy, down to depth n.   *)
IsWalk(f, q, n) ==
  f = [left \in 0..n |-> [id \in 0..clock |-> IF left = 0 THEN <<>> ELSE Behind(q, id, f[left - 1])]]

LEMMA WalkExists ==
  ASSUME NEW q, NEW n \in Nat
  PROVE  \E f : IsWalk(f, q, n)
<1> DEFINE Walked(walk) == [id \in 0..clock |-> Behind(q, id, walk)]
           Nowhere == [id \in 0..clock |-> <<>>]
           Is(f, m) == f = [left \in 0..m |-> IF left = 0 THEN Nowhere ELSE Walked(f[left - 1])]
           T == {m \in Nat : \E f : Is(f, m)}
<1>1. 0 \in T
  <2> DEFINE f == [left \in 0..0 |-> Nowhere]
  <2> HIDE DEF Nowhere
  <2>1. Is(f, 0)
    OBVIOUS
  <2> HIDE DEF f, Is
  <2> QED
    BY <2>1
<1>2. ASSUME NEW m \in Nat, m \in T PROVE m + 1 \in T
  <2> HIDE DEF Nowhere, Walked
  <2>1. PICK f : Is(f, m)
    BY <1>2
  <2> DEFINE g == [left \in 0..(m + 1) |-> IF left = m + 1 THEN Walked(f[m]) ELSE f[left]]
  <2>2. ASSUME NEW i \in 0..(m + 1)
        PROVE  g[i] = IF i = 0 THEN Nowhere ELSE Walked(g[i - 1])
    <3>1. CASE i = m + 1
      <4>1. g[i] = Walked(f[m]) /\ g[i - 1] = f[m] /\ i # 0 /\ i - 1 = m
        BY <3>1
      <4> QED
        BY <3>1, <4>1
    <3>2. CASE i # m + 1
      <4>1. i \in 0..m /\ (i # 0 => i - 1 \in 0..m)
        BY <3>2
      <4>2. g[i] = f[i] /\ (i # 0 => g[i - 1] = f[i - 1])
        BY <3>2, <4>1
      <4>3. f[i] = IF i = 0 THEN Nowhere ELSE Walked(f[i - 1])
        BY <2>1, <4>1
      <4> QED
        BY <4>2, <4>3
    <3> QED
      BY <3>1, <3>2
  <2>3. g = [i \in 0..(m + 1) |-> g[i]]
    OBVIOUS
  <2> HIDE DEF g
  <2>4. Is(g, m + 1)
    BY <2>2, <2>3
  <2> HIDE DEF Is
  <2> QED
    BY <2>4
<1> HIDE DEF T
<1>3. \A m \in Nat : m \in T
  BY <1>1, <1>2, Induction
<1>4. PICK f : Is(f, n)
  BY <1>3 DEF T
<1>5. ASSUME NEW left \in 0..n
      PROVE  f[left] = [id \in 0..clock |-> IF left = 0 THEN <<>> ELSE Behind(q, id, f[left - 1])]
  <2>1. f[left] = IF left = 0 THEN Nowhere ELSE Walked(f[left - 1])
    BY <1>4
  <2>2. CASE left = 0
    BY <2>1, <2>2
  <2>3. CASE left # 0
    BY <2>1, <2>3
  <2> QED
    BY <2>2, <2>3
<1>6. f = [left \in 0..n |-> f[left]]
  BY <1>4
<1>7. IsWalk(f, q, n)
  BY <1>5, <1>6 DEF IsWalk
<1> QED
  BY <1>7

(* A walk to depth n finds what is n steps or less away, from everywhere.    *)
LEMMA WalkFacts ==
  ASSUME clock \in Nat, NEW q, Dated(q), NEW n \in Nat, NEW f, IsWalk(f, q, n),
         NEW root \in 0..clock
  PROVE  Tree(f[n][root], root, Down(q, root, n))
<1> DEFINE Good(h) == \A id \in 0..clock : Tree(f[h][id], id, Down(q, id, h))
           T == {h \in Nat : h <= n => Good(h)}
<1>0. \A left \in 0..n : \A id \in 0..clock :
        f[left][id] = IF left = 0 THEN <<>> ELSE Behind(q, id, f[left - 1])
  BY DEF IsWalk
<1>1. 0 \in T
  <2> SUFFICES ASSUME NEW id \in 0..clock PROVE Tree(f[0][id], id, Down(q, id, 0))
    OBVIOUS
  <2>1. f[0][id] = <<>>
    BY <1>0
  <2>2. Down(q, id, 0) = {}
    BY DownFacts
  <2> QED
    BY <2>1, <2>2, EmptyTree
<1>2. ASSUME NEW h \in Nat, h \in T PROVE h + 1 \in T
  <2> SUFFICES ASSUME h + 1 <= n, NEW id \in 0..clock
               PROVE  Tree(f[h + 1][id], id, Down(q, id, h + 1))
    OBVIOUS
  <2>0. id \in Nat /\ h + 1 \in 0..n /\ h + 1 # 0 /\ (h + 1) - 1 = h
    OBVIOUS
  <2>1. f[h + 1][id] = Behind(q, id, f[h])
    BY <1>0, <2>0
  <2>2. Good(h)
    BY <1>2
  <2>3. \A c \in ChildrenOf(q, id) :
          Tree(f[h][c.event.gp], c.event.gp, Down(q, c.event.gp, h))
    BY <2>0, <2>2, ChildFacts
  <2>4. Tree(Behind(q, id, f[h]), id, Down(q, id, h + 1))
    BY <2>0, <2>3, BehindFacts
  <2> QED
    BY <2>1, <2>4
<1> HIDE DEF T
<1>3. \A h \in Nat : h \in T
  BY <1>1, <1>2, Induction
<1>4. Good(n)
  <2>1. n \in T /\ n <= n
    BY <1>3
  <2> HIDE DEF Good
  <2> QED
    BY <2>1 DEF T
<1> QED
  BY <1>4

LEMMA ChainIsDownstreamOf == LoanInv /\ CauseInv => ChainIsDownstream
<1> SUFFICES ASSUME LoanInv, CauseInv PROVE ChainIsDownstream
  OBVIOUS
<1> DEFINE q == History(StreamIds \ {"compliance"})
<1>1. Dated(q)
  BY HistoryIsDated
<1>2. clock \in Nat
  BY DEF LoanInv, StoreInv, WellFormed
<1> HIDE DEF q
<1>3. ASSUME NEW root \in {q[i].event.cause : i \in DOMAIN q} \ {0}, NEW maxDepth \in {2, 20}
      PROVE  LET distances == Distances(q, root)
                 chain == Chain(q, root, maxDepth)
             IN /\ ToSet(chain) =
                     {q[i] : i \in {j \in DOMAIN q : distances[j] \in 1..maxDepth}}
                /\ IsInjective(chain)
                /\ \A i \in DOMAIN chain :
                     chain[i].event.cause \in {root} \cup {chain[j].event.gp : j \in 1..(i - 1)}
  <2>1. root \in 0..clock /\ root \in Nat /\ maxDepth \in Nat
    <3>1. PICK i \in DOMAIN q : root = q[i].event.cause
      OBVIOUS
    <3>2. q[i].event.gp \in 1..clock /\ q[i].event.cause \in 0..(q[i].event.gp - 1)
      BY <1>1, DatedFacts
    <3> QED
      BY <1>2, <3>1, <3>2
  <2>2. PICK chain : chain = Chain(q, root, maxDepth)
    OBVIOUS
  <2>3. PICK f : f = CHOOSE g : IsWalk(g, q, maxDepth)
    OBVIOUS
  <2>4. IsWalk(f, q, maxDepth)
    BY <2>1, <2>3, WalkExists
  <2>5. chain = f[maxDepth][root]
    BY <2>2, <2>3 DEF Chain, IsWalk
  <2>6. Tree(chain, root, Down(q, root, maxDepth))
    BY <1>1, <1>2, <2>1, <2>4, <2>5, WalkFacts
  <2>7. \A i \in DOMAIN q : Distances(q, root)[i] = StepsFrom(q, root, q[i].event.gp)
    <3>1. Distances(q, root) = [i \in DOMAIN q |-> Distance(q, root)[q[i].event.gp]]
      BY DEF Distances, Distance, IsDistance
    <3> QED
      BY <3>1 DEF StepsFrom
  <2>8. {q[i] : i \in {j \in DOMAIN q : Distances(q, root)[j] \in 1..maxDepth}}
          = Down(q, root, maxDepth)
    BY <2>7 DEF Down, Range
  <2>9. ToSet(chain) = Range(chain)
    BY DEF ToSet, Range
  <2> QED
    BY <2>2, <2>6, <2>8, <2>9 DEF Tree
<1> QED
  BY <1>3 DEF ChainIsDownstream, q

(* In a ledger that knows the streams causes run through, the causal chain   *)
(* of an event is exactly what is maxDepth causes or less downstream of it,  *)
(* each event once and behind its cause, whatever callers wrote the streams. *)
THEOREM ChainsAreDownstream == Spec => []ChainIsDownstream
BY ChainIsDownstreamOf, LoanInvariant, CausesLeadBack, PTL
================================================================================
