-------------------------- MODULE LoanCommandsProofs --------------------------
(***************************************************************************)
(* Proofs about LoanCommands, for any number of callers, sessions and      *)
(* commands and any interleaving of their loads and appends: what a        *)
(* handler knows when it appends, although each load may be out of date,   *)
(* because streams only grow; and what it knows of the replayed loan.      *)
(* What a call has seen of the loan is the loan or out of date, so the     *)
(* version gate lets it append only in the state it checked; each          *)
(* screening on the loan pays for the copies of it.  The last part is      *)
(* about one caller that checks the documented preconditions.              *)
(***************************************************************************)
EXTENDS LoanCommands, AggregatesProofs

WellFormed ==
  /\ streams = [s \in StreamIds |-> streams[s]]
  /\ clock \in Nat
  /\ \A s \in StreamIds :
       /\ streams[s] \in Seq(Range(streams[s]))
       /\ \A i \in DOMAIN streams[s] : streams[s][i].gp \in 1..clock

StoreInv ==
  /\ WellFormed
  /\ AnchoredFirst(streams)
  /\ OneModel(streams)
  /\ DecisionsCaused(streams)
  /\ ApprovalsGated(streams)

AnchoredWith(s, model) == streams[s] # <<>> /\ streams[s][1].model = model

Credited(s, model) ==
  \E j \in OfType(streams[s], "CreditAnalysisCompleted") : streams[s][j].model = model

GateWasOpen ==
  \E n \in DOMAIN streams["compliance"] :
    AllMandatoryChecksPassed(SubSeq(streams["compliance"], 1, n))

StartSteps == {"start", "start_append"}
CreditSteps ==
  {"credit", "credit_load_session", "credit_load_loan_events", "credit_validate",
   "credit_anchor", "credit_anchor_id", "credit_reload_agent", "credit_append_agent",
   "credit_id", "credit_reload_loan", "credit_append_loan", "credit_check_bridge"}
FraudSteps ==
  {"fraud", "fraud_append_loan", "fraud_id", "fraud_summary_version", "fraud_append_summary",
   "fraud_load_agent", "fraud_append_agent", "fraud_reload_loan", "fraud_check_bridge"}
DecisionSteps == {"decision", "decision_validate", "decision_reload", "decision_append"}

(* The command of a call belongs to its step. *)
Commanded(c) ==
  /\ pc[c] # "idle" => cmd[c] \in CommandSet
  /\ pc[c] \in StartSteps => cmd[c].kind = "start"
  /\ pc[c] \in CreditSteps => cmd[c].kind = "credit"
  /\ pc[c] \in FraudSteps => cmd[c].kind = "fraud"
  /\ pc[c] \in DecisionSteps => cmd[c].kind = "decision"
  /\ pc[c] \in {"fraud_load_agent", "fraud_append_agent"} => cmd[c].mirror # None

(* What a call has seen, and what is therefore so for good. *)
Knows(c) ==
  /\ pc[c] = "credit_append_agent" => AnchoredWith(cmd[c].session, cmd[c].model)
  /\ pc[c] \in {"credit_id", "credit_reload_loan", "credit_append_loan"} =>
       Credited(cmd[c].session, cmd[c].model)
  /\ pc[c] = "fraud_append_agent" => streams[cmd[c].mirror] # <<>>
  /\ pc[c] \in {"decision_reload", "decision_append"} =>
       \A s \in cmd[c].sessions : Analysed(streams[s]) # {}
  /\ pc[c] = "review_approve" => GateWasOpen

CallInv ==
  /\ pc = [c \in Clients |-> pc[c]]
  /\ cmd = [c \in Clients |-> cmd[c]]
  /\ \A c \in Clients : Commanded(c) /\ Knows(c)

LoanInv == StoreInv /\ CallInv

-------------------------------------------------------------------------------
(* The commands *)

LEMMA CommandFacts ==
  ASSUME NEW c \in Clients, Commanded(c), pc[c] # "idle"
  PROVE  /\ cmd[c].kind \in {"start", "credit"} => cmd[c].session \in Sessions
         /\ cmd[c].kind = "fraud" => cmd[c].mirror \in Sessions \cup {None}
         /\ cmd[c].kind = "decision" => cmd[c].sessions \subseteq Sessions
BY CommandAssumption DEF Commanded

LEMMA SessionsApart ==
  /\ Sessions \subseteq StreamIds
  /\ {"loan", "fraud", "compliance"} \subseteq StreamIds
  /\ "loan" \notin Sessions /\ "fraud" \notin Sessions /\ "compliance" \notin Sessions
BY CommandAssumption DEF StreamIds

-------------------------------------------------------------------------------
(* One event more *)

(* An event the handlers may add to a stream. *)
Lawful(s, e) ==
  /\ s \in StreamIds
  /\ e.gp = clock + 1
  /\ s \in Sessions =>
       /\ e.type = "AgentContextLoaded" => streams[s] = <<>>
       /\ e.type # "AgentContextLoaded" => streams[s] # <<>>
       /\ e.type = "CreditAnalysisCompleted" => AnchoredWith(s, e.model)
  /\ s = "loan" =>
       /\ e.type = "DecisionGenerated" =>
            \A a \in e.sessions : a \in Sessions /\ Analysed(streams[a]) # {}
       /\ e.type = "ApplicationApproved" => GateWasOpen

Grows(s, e) ==
  /\ streams' = [streams EXCEPT ![s] = Append(@, e)]
  /\ clock' = e.gp
  /\ Lawful(s, e)

LEMMA GrowsFacts ==
  ASSUME WellFormed, NEW s, NEW e, Grows(s, e)
  PROVE  /\ WellFormed'
         /\ \A t \in StreamIds :
              /\ DOMAIN streams[t] \subseteq DOMAIN streams'[t]
              /\ \A i \in DOMAIN streams[t] : streams'[t][i] = streams[t][i]
              /\ \A i \in DOMAIN streams'[t] :
                   \/ i \in DOMAIN streams[t]
                   \/ t = s /\ streams'[t][i] = e /\ i = Len(streams[t]) + 1
              /\ streams[t] # <<>> =>
                   streams'[t] # <<>> /\ 1 \in DOMAIN streams[t] /\ streams'[t][1] = streams[t][1]
              /\ \A n \in DOMAIN streams[t] :
                   SubSeq(streams'[t], 1, n) = SubSeq(streams[t], 1, n)
<1>1. /\ s \in StreamIds /\ streams'[s] = Append(streams[s], e)
      /\ \A t \in StreamIds : t # s => streams'[t] = streams[t]
      /\ streams' = [t \in StreamIds |-> streams'[t]]
  BY DEF Grows, Lawful, WellFormed
<1>2. /\ streams[s] \in Seq(Range(streams[s]))
      /\ \A t \in StreamIds : streams[t] \in Seq(Range(streams[t]))
  BY <1>1 DEF WellFormed
<1>3. clock \in Nat /\ clock' = clock + 1 /\ clock' \in Nat /\ e.gp = clock + 1
  BY DEF Grows, Lawful, WellFormed
<1>4. ASSUME NEW t \in StreamIds
      PROVE  /\ DOMAIN streams[t] \subseteq DOMAIN streams'[t]
             /\ \A i \in DOMAIN streams[t] : streams'[t][i] = streams[t][i]
             /\ \A i \in DOMAIN streams'[t] :
                  \/ i \in DOMAIN streams[t]
                  \/ t = s /\ streams'[t][i] = e /\ i = Len(streams[t]) + 1
             /\ streams[t] # <<>> =>
                  streams'[t] # <<>> /\ 1 \in DOMAIN streams[t] /\ streams'[t][1] = streams[t][1]
             /\ \A n \in DOMAIN streams[t] :
                  SubSeq(streams'[t], 1, n) = SubSeq(streams[t], 1, n)
             /\ streams'[t] \in Seq(Range(streams'[t]))
  <2>1. streams[t] # <<>> => 1 \in DOMAIN streams[t]
    BY <1>2, AppendFacts
  <2>2. CASE t # s
    BY <1>1, <1>2, <2>1, <2>2
  <2>3. CASE t = s
    <3> DEFINE q == streams[s]
    <3>1. /\ streams'[t] = Append(q, e) /\ streams[t] = q /\ q \in Seq(Range(q))
      BY <1>1, <1>2, <2>3
    <3> HIDE DEF q
    <3>2. /\ Append(q, e) \in Seq(Range(Append(q, e)))
          /\ DOMAIN q = 1..Len(q) /\ DOMAIN Append(q, e) = 1..(Len(q) + 1)
          /\ Len(q) \in Nat
          /\ \A i \in 1..Len(q) : Append(q, e)[i] = q[i]
          /\ Append(q, e)[Len(q) + 1] = e
          /\ Append(q, e) # <<>>
          /\ \A n \in 1..Len(q) : SubSeq(Append(q, e), 1, n) = SubSeq(q, 1, n)
      BY <3>1, AppendFacts
    <3>3. \A i \in DOMAIN Append(q, e) :
            i \in DOMAIN q \/ (Append(q, e)[i] = e /\ i = Len(q) + 1)
      BY <3>2
    <3>4. DOMAIN q \subseteq DOMAIN Append(q, e)
      BY <3>2
    <3>5. q # <<>> => 1 \in DOMAIN q /\ Append(q, e)[1] = q[1]
      BY <2>1, <3>1, <3>2
    <3> QED
      BY <2>3, <3>1, <3>2, <3>3, <3>4, <3>5
  <2> QED
    BY <2>2, <2>3
<1>5. ASSUME NEW t \in StreamIds, NEW i \in DOMAIN streams'[t]
      PROVE  streams'[t][i].gp \in 1..clock'
  <2>1. CASE i \in DOMAIN streams[t]
    <3>1. streams'[t][i] = streams[t][i]
      BY <1>4, <2>1
    <3>2. streams[t][i].gp \in 1..clock
      BY <2>1 DEF WellFormed
    <3> QED
      BY <1>3, <3>1, <3>2
  <2>2. CASE streams'[t][i] = e
    BY <1>3, <2>2
  <2> QED
    BY <1>4, <2>1, <2>2
<1>6. WellFormed'
  <2>1. \A t \in StreamIds : /\ streams'[t] \in Seq(Range(streams'[t]))
                             /\ \A i \in DOMAIN streams'[t] : streams'[t][i].gp \in 1..clock'
    BY <1>4, <1>5
  <2> QED
    BY <1>1, <1>3, <2>1 DEF WellFormed
<1> QED
  BY <1>4, <1>6

(* Positions of one type, before and after. *)
LEMMA OfTypeGrows ==
  ASSUME WellFormed, NEW s, NEW e, Grows(s, e), NEW t \in StreamIds, NEW type
  PROVE  /\ OfType(streams[t], type) \subseteq OfType(streams'[t], type)
         /\ \A i \in OfType(streams'[t], type) :
              \/ i \in OfType(streams[t], type)
              \/ t = s /\ streams'[t][i] = e /\ e.type = type /\ i = Len(streams[t]) + 1
BY GrowsFacts DEF OfType

LEMMA AnchoredNext ==
  ASSUME WellFormed, AnchoredFirst(streams), NEW s, NEW e, Grows(s, e)
  PROVE  AnchoredFirst(streams')
<1> SUFFICES ASSUME NEW t \in Sessions, streams'[t] # <<>>
             PROVE  OfType(streams'[t], "AgentContextLoaded") = {1}
  BY DEF AnchoredFirst
<1> DEFINE A == "AgentContextLoaded"
<1>1. t \in StreamIds
  BY SessionsApart
<1>2. /\ OfType(streams[t], A) \subseteq OfType(streams'[t], A)
      /\ \A i \in OfType(streams'[t], A) :
           i \in OfType(streams[t], A) \/ (t = s /\ e.type = A /\ i = Len(streams[t]) + 1)
  BY <1>1, OfTypeGrows
<1>3. CASE streams[t] # <<>>
  <2>1. OfType(streams[t], A) = {1}
    BY <1>3 DEF AnchoredFirst
  <2>2. t = s => e.type # A
    BY <1>3 DEF Grows, Lawful
  <2> QED
    BY <1>2, <2>1, <2>2
<1>4. CASE streams[t] = <<>>
  <2>1. /\ Len(streams[t]) = 0 /\ DOMAIN streams[t] = {}
    BY <1>4
  <2>2. t = s
    <3>1. t # s => streams'[t] = streams[t]
      BY <1>1 DEF Grows, WellFormed
    <3> QED
      BY <1>4, <3>1
  <2>3. e.type = A
    BY <1>4, <2>2 DEF Grows, Lawful
  <2>4. /\ streams'[t] = Append(streams[t], e) /\ streams[t] \in Seq(Range(streams[t]))
    BY <1>1, <2>2 DEF Grows, WellFormed
  <2>5. DOMAIN streams'[t] = 1..1 /\ streams'[t][1] = e
    BY <2>1, <2>4, AppendFacts
  <2> QED
    BY <2>3, <2>5 DEF OfType
<1> QED
  BY <1>3, <1>4

LEMMA OneModelNext ==
  ASSUME WellFormed, OneModel(streams), NEW s, NEW e, Grows(s, e)
  PROVE  OneModel(streams')
<1> SUFFICES ASSUME NEW t \in Sessions, NEW i \in OfType(streams'[t], "CreditAnalysisCompleted")
             PROVE  streams'[t][i].model = streams'[t][1].model
  BY DEF OneModel
<1>1. t \in StreamIds
  BY SessionsApart
<1>2. CASE i \in OfType(streams[t], "CreditAnalysisCompleted")
  <2>1. streams[t][i].model = streams[t][1].model /\ i \in DOMAIN streams[t] /\ streams[t] # <<>>
    BY <1>2 DEF OneModel, OfType
  <2> QED
    BY <1>1, <2>1, GrowsFacts
<1>3. CASE t = s /\ streams'[t][i] = e /\ e.type = "CreditAnalysisCompleted"
  <2>1. AnchoredWith(t, e.model)
    BY <1>3 DEF Grows, Lawful
  <2> QED
    BY <1>1, <1>3, <2>1, GrowsFacts DEF AnchoredWith
<1> QED
  BY <1>1, <1>2, <1>3, OfTypeGrows

(* Events of a stream precede the one that is appended. *)
LEMMA Earlier ==
  ASSUME WellFormed, NEW s, NEW e, Grows(s, e), NEW t \in StreamIds, NEW i \in DOMAIN streams[t]
  PROVE  streams'[t][i] = streams[t][i] /\ streams'[t][i].gp < e.gp
<1>1. streams'[t][i] = streams[t][i] /\ streams[t][i].gp \in 1..clock /\ clock \in Nat
  BY GrowsFacts DEF WellFormed
<1>2. e.gp = clock + 1
  BY DEF Grows, Lawful
<1> QED
  BY <1>1, <1>2

LEMMA AnalysedGrows ==
  ASSUME WellFormed, NEW s, NEW e, Grows(s, e), NEW t \in StreamIds
  PROVE  Analysed(streams[t]) \subseteq Analysed(streams'[t]) /\ Analysed(streams[t]) \subseteq DOMAIN streams[t]
<1>1. /\ OfType(streams[t], "CreditAnalysisCompleted") \subseteq OfType(streams'[t], "CreditAnalysisCompleted")
      /\ OfType(streams[t], "FraudScreeningCompleted") \subseteq OfType(streams'[t], "FraudScreeningCompleted")
  BY OfTypeGrows
<1> QED
  BY <1>1 DEF Analysed, OfType

LEMMA DecisionsNext ==
  ASSUME WellFormed, DecisionsCaused(streams), NEW s, NEW e, Grows(s, e)
  PROVE  DecisionsCaused(streams')
<1> DEFINE D == "DecisionGenerated"
<1> SUFFICES ASSUME NEW i \in OfType(streams'["loan"], D), NEW a \in streams'["loan"][i].sessions
             PROVE  /\ a \in Sessions
                    /\ \E j \in Analysed(streams'[a]) : streams'[a][j].gp < streams'["loan"][i].gp
  BY DEF DecisionsCaused
<1>1. CASE i \in OfType(streams["loan"], D)
  <2>1. streams'["loan"][i] = streams["loan"][i]
    BY <1>1, SessionsApart, GrowsFacts DEF OfType
  <2>2. a \in Sessions /\ \E j \in Analysed(streams[a]) : streams[a][j].gp < streams["loan"][i].gp
    BY <1>1, <2>1 DEF DecisionsCaused
  <2>3. PICK j \in Analysed(streams[a]) : streams[a][j].gp < streams["loan"][i].gp
    BY <2>2
  <2>4. a \in StreamIds /\ j \in DOMAIN streams[a] /\ j \in Analysed(streams'[a])
    BY <2>2, <2>3, SessionsApart, AnalysedGrows
  <2>5. streams'[a][j] = streams[a][j]
    BY <2>4, GrowsFacts
  <2> QED
    BY <2>1, <2>2, <2>3, <2>4, <2>5
<1>2. CASE "loan" = s /\ streams'["loan"][i] = e /\ e.type = D
  <2>1. a \in Sessions /\ Analysed(streams[a]) # {}
    BY <1>2 DEF Grows, Lawful
  <2>2. PICK j \in Analysed(streams[a]) : TRUE
    BY <2>1
  <2>3. a \in StreamIds /\ j \in DOMAIN streams[a] /\ j \in Analysed(streams'[a])
    BY <2>1, <2>2, SessionsApart, AnalysedGrows
  <2>4. streams'[a][j].gp < e.gp
    BY <2>3, Earlier
  <2> QED
    BY <1>2, <2>1, <2>3, <2>4
<1> QED
  BY <1>1, <1>2, SessionsApart, OfTypeGrows

LEMMA ApprovalsNext ==
  ASSUME WellFormed, ApprovalsGated(streams), NEW s, NEW e, Grows(s, e)
  PROVE  ApprovalsGated(streams')
<1> DEFINE A == "ApplicationApproved"
<1> SUFFICES ASSUME NEW i \in OfType(streams'["loan"], A)
             PROVE  \E n \in DOMAIN streams'["compliance"] :
                      /\ streams'["compliance"][n].gp < streams'["loan"][i].gp
                      /\ AllMandatoryChecksPassed(SubSeq(streams'["compliance"], 1, n))
  BY DEF ApprovalsGated
<1>1. CASE i \in OfType(streams["loan"], A)
  <2>1. PICK n \in DOMAIN streams["compliance"] :
          /\ streams["compliance"][n].gp < streams["loan"][i].gp
          /\ AllMandatoryChecksPassed(SubSeq(streams["compliance"], 1, n))
    BY <1>1 DEF ApprovalsGated
  <2>2. streams'["loan"][i] = streams["loan"][i]
    BY <1>1, SessionsApart, GrowsFacts DEF OfType
  <2>3. /\ n \in DOMAIN streams'["compliance"]
        /\ streams'["compliance"][n] = streams["compliance"][n]
        /\ SubSeq(streams'["compliance"], 1, n) = SubSeq(streams["compliance"], 1, n)
    BY SessionsApart, GrowsFacts
  <2> QED
    BY <2>1, <2>2, <2>3
<1>2. CASE "loan" = s /\ streams'["loan"][i] = e /\ e.type = A
  <2>1. PICK n \in DOMAIN streams["compliance"] :
          AllMandatoryChecksPassed(SubSeq(streams["compliance"], 1, n))
    BY <1>2 DEF Grows, Lawful, GateWasOpen
  <2>2. /\ n \in DOMAIN streams'["compliance"]
        /\ SubSeq(streams'["compliance"], 1, n) = SubSeq(streams["compliance"], 1, n)
    BY SessionsApart, GrowsFacts
  <2>3. streams'["compliance"][n].gp < e.gp
    BY SessionsApart, Earlier
  <2> QED
    BY <1>2, <2>1, <2>2, <2>3
<1> QED
  BY <1>1, <1>2, SessionsApart, OfTypeGrows

LEMMA StoreNext ==
  ASSUME StoreInv, NEW s, NEW e, Grows(s, e)
  PROVE  StoreInv'
BY GrowsFacts, AnchoredNext, OneModelNext, DecisionsNext, ApprovalsNext
   DEF StoreInv, AnchoredFirst, OneModel, DecisionsCaused, ApprovalsGated

-------------------------------------------------------------------------------
(* What a call knows *)

Frame == UNCHANGED <<streams, clock>>

OneEvent == \E s, e : Grows(s, e)

Ends(c) == pc' = [pc EXCEPT ![c] = "idle"] /\ cmd' = [cmd EXCEPT ![c] = NoCommand]

Goes(c, step) == pc' = [pc EXCEPT ![c] = step] /\ cmd' = cmd

(* Streams only grow, so what was seen of them stays true. *)
LEMMA Stable ==
  ASSUME WellFormed, Frame \/ OneEvent
  PROVE  /\ \A t \in StreamIds : streams[t] # <<>> => streams'[t] # <<>>
         /\ \A t \in Sessions : \A m : AnchoredWith(t, m) => AnchoredWith(t, m)'
         /\ \A t \in Sessions : \A m : Credited(t, m) => Credited(t, m)'
         /\ \A t \in Sessions : Analysed(streams[t]) # {} => Analysed(streams'[t]) # {}
         /\ GateWasOpen => GateWasOpen'
<1>1. CASE Frame
  BY <1>1 DEF Frame, AnchoredWith, Credited, GateWasOpen
<1>2. ASSUME NEW s, NEW e, Grows(s, e)
      PROVE  /\ \A t \in StreamIds : streams[t] # <<>> => streams'[t] # <<>>
             /\ \A t \in Sessions : \A m : AnchoredWith(t, m) => AnchoredWith(t, m)'
             /\ \A t \in Sessions : \A m : Credited(t, m) => Credited(t, m)'
             /\ \A t \in Sessions : Analysed(streams[t]) # {} => Analysed(streams'[t]) # {}
             /\ GateWasOpen => GateWasOpen'
  <2>1. \A t \in StreamIds : streams[t] # <<>> => streams'[t] # <<>> /\ streams'[t][1] = streams[t][1]
    BY <1>2, GrowsFacts
  <2>2. \A t \in Sessions : \A m : AnchoredWith(t, m) => AnchoredWith(t, m)'
    BY <2>1, SessionsApart DEF AnchoredWith
  <2>3. ASSUME NEW t \in Sessions, NEW m, Credited(t, m) PROVE Credited(t, m)'
    <3>1. PICK j \in OfType(streams[t], "CreditAnalysisCompleted") : streams[t][j].model = m
      BY <2>3 DEF Credited
    <3>2. j \in OfType(streams'[t], "CreditAnalysisCompleted") /\ j \in DOMAIN streams[t]
      BY <1>2, <3>1, SessionsApart, OfTypeGrows DEF OfType
    <3>3. streams'[t][j] = streams[t][j]
      BY <1>2, <3>2, SessionsApart, GrowsFacts
    <3> QED
      BY <3>1, <3>2, <3>3 DEF Credited
  <2>4. \A t \in Sessions : Analysed(streams[t]) # {} => Analysed(streams'[t]) # {}
    BY <1>2, SessionsApart, AnalysedGrows
  <2>5. ASSUME GateWasOpen PROVE GateWasOpen'
    <3>1. PICK n \in DOMAIN streams["compliance"] :
            AllMandatoryChecksPassed(SubSeq(streams["compliance"], 1, n))
      BY <2>5 DEF GateWasOpen
    <3>2. /\ n \in DOMAIN streams'["compliance"]
          /\ SubSeq(streams'["compliance"], 1, n) = SubSeq(streams["compliance"], 1, n)
      BY <1>2, SessionsApart, GrowsFacts
    <3> QED
      BY <3>1, <3>2 DEF GateWasOpen
  <2> QED
    BY <2>1, <2>2, <2>3, <2>4, <2>5
<1> QED
  BY <1>1, <1>2 DEF OneEvent

(* The calls that do not move keep what they know. *)
LEMMA OthersKnow ==
  ASSUME LoanInv, Frame \/ OneEvent, NEW d \in Clients, pc'[d] = pc[d], cmd'[d] = cmd[d]
  PROVE  Commanded(d)' /\ Knows(d)'
<1>1. Commanded(d) /\ Knows(d) /\ WellFormed
  BY DEF LoanInv, CallInv, StoreInv
<1>2. Commanded(d)'
  BY <1>1 DEF Commanded
<1>3. /\ pc[d] \in CreditSteps => cmd[d].session \in Sessions
      /\ pc[d] = "fraud_append_agent" => cmd[d].mirror \in Sessions
      /\ pc[d] \in DecisionSteps => cmd[d].sessions \subseteq Sessions
  BY <1>1, CommandFacts DEF Commanded, CreditSteps, FraudSteps, DecisionSteps
<1>4. (pc[d] = "credit_append_agent" => AnchoredWith(cmd[d].session, cmd[d].model))'
  <2>1. pc[d] = "credit_append_agent" => AnchoredWith(cmd[d].session, cmd[d].model)'
    BY <1>1, <1>3, Stable DEF Knows, AnchoredWith, CreditSteps
  <2> QED
    BY <2>1 DEF AnchoredWith
<1>5. (pc[d] \in {"credit_id", "credit_reload_loan", "credit_append_loan"} =>
         Credited(cmd[d].session, cmd[d].model))'
  <2> SUFFICES ASSUME pc[d] \in {"credit_id", "credit_reload_loan", "credit_append_loan"},
                      NEW t, NEW m, t = cmd[d].session, m = cmd[d].model
               PROVE  Credited(t, m)'
    BY DEF Credited
  <2>1. t \in Sessions /\ Credited(t, m)
    BY <1>1, <1>3 DEF Knows, CreditSteps
  <2> QED
    BY <1>1, <2>1, Stable
<1>6. (pc[d] = "fraud_append_agent" => streams[cmd[d].mirror] # <<>>)'
  BY <1>1, <1>3, SessionsApart, Stable DEF Knows
<1>7. (pc[d] \in {"decision_reload", "decision_append"} =>
         \A s \in cmd[d].sessions : Analysed(streams[s]) # {})'
  BY <1>1, <1>3, Stable DEF Knows, DecisionSteps
<1>8. (pc[d] = "review_approve" => GateWasOpen)'
  <2>1. pc[d] = "review_approve" => GateWasOpen'
    BY <1>1, Stable DEF Knows
  <2> QED
    BY <2>1
<1> QED
  BY <1>2, <1>4, <1>5, <1>6, <1>7, <1>8 DEF Knows

Sound(c) ==
  /\ Frame \/ OneEvent
  /\ Ends(c) \/ \E step : Goes(c, step)
  /\ Commanded(c)'
  /\ Knows(c)'

LEMMA SoundStep == ASSUME LoanInv, NEW c \in Clients, Sound(c) PROVE LoanInv'
<1>1. StoreInv'
  <2>1. CASE Frame
    BY <2>1 DEF Frame, LoanInv, StoreInv, WellFormed
  <2>2. CASE OneEvent
    BY <2>2, StoreNext DEF OneEvent, LoanInv
  <2> QED
    BY <2>1, <2>2 DEF Sound
<1>2. /\ pc' = [d \in Clients |-> pc'[d]] /\ cmd' = [d \in Clients |-> cmd'[d]]
      /\ \A d \in Clients \ {c} : pc'[d] = pc[d] /\ cmd'[d] = cmd[d]
  BY DEF Sound, Ends, Goes, LoanInv, CallInv
<1>3. \A d \in Clients : Commanded(d)' /\ Knows(d)'
  BY <1>2, OthersKnow DEF Sound
<1> QED
  BY <1>1, <1>2, <1>3 DEF LoanInv, CallInv

(* A call that returns knows nothing. *)
LEMMA EndIsSound ==
  ASSUME LoanInv, NEW c \in Clients, Ends(c), Frame \/ OneEvent
  PROVE  Sound(c)
<1>1. pc'[c] = "idle"
  BY DEF Ends, LoanInv, CallInv
<1> QED
  BY <1>1 DEF Sound, Commanded, Knows, StartSteps, CreditSteps, FraudSteps, DecisionSteps

(* Steps that rest on what the call has seen, and the end. *)
Informed ==
  {"credit_append_agent", "credit_id", "credit_reload_loan", "credit_append_loan",
   "fraud_load_agent", "fraud_append_agent", "decision_reload", "decision_append", "review_approve",
   "idle"}

Follows(from, step) ==
  /\ step \notin Informed
  /\ step \in StartSteps => from \in StartSteps
  /\ step \in CreditSteps => from \in CreditSteps
  /\ step \in FraudSteps => from \in FraudSteps
  /\ step \in DecisionSteps => from \in DecisionSteps

LEMMA PlainIsSound ==
  ASSUME LoanInv, NEW c \in Clients, NEW step, Goes(c, step), Frame \/ OneEvent,
         pc[c] # "idle", Follows(pc[c], step)
  PROVE  Sound(c)
<1>1. pc'[c] = step /\ cmd'[c] = cmd[c] /\ Commanded(c)
  BY DEF Goes, LoanInv, CallInv
<1>2. Commanded(c)'
  BY <1>1 DEF Commanded, Follows, Informed
<1>3. Knows(c)'
  BY <1>1 DEF Knows, Follows, Informed
<1> QED
  BY <1>2, <1>3 DEF Sound

-------------------------------------------------------------------------------
(* Loads *)

LEMMA LoadsAreSound ==
  ASSUME LoanInv, NEW c \in Clients,
         \/ SubmitLoad(c) \/ SubmitReload(c) \/ StartLoad(c)
         \/ CreditLoadLoan(c) \/ CreditLoadSession(c) \/ CreditLoadLoanEvents(c)
         \/ CreditAnchorId(c) \/ CreditCheckBridge(c)
         \/ FraudLoad(c) \/ FraudId(c) \/ FraudSummaryVersion(c) \/ FraudReloadLoan(c)
         \/ FraudCheckBridge(c)
         \/ ComplianceLoad(c) \/ ComplianceReload(c)
         \/ DecisionLoad(c) \/ RequestReviewLoad(c) \/ ReviewLoad(c) \/ ReviewReload(c)
  PROVE  Sound(c)
<1> DEFINE Leads(from, step) == pc[c] = from /\ Frame /\ (Ends(c) \/ Goes(c, step))
<1>1. ASSUME NEW from, NEW step, Leads(from, step), from # "idle", Follows(from, step)
      PROVE  Sound(c)
  BY <1>1, EndIsSound, PlainIsSound
<1> HIDE DEF Leads
<1> USE DEF Follows, Informed, StartSteps, CreditSteps, FraudSteps, DecisionSteps
<1>2. CASE SubmitLoad(c)
  <2>1. Leads("submit", "submit_append")
    BY <1>2 DEF Leads, SubmitLoad, LoadLoan, Read, Finish, Goto, Frame, Ends, Goes
  <2> QED
    BY <1>1, <2>1
<1>3. CASE SubmitReload(c)
  <2>1. Leads("submit_reload", "submit_request")
    BY <1>3 DEF Leads, SubmitReload, LoadLoan, Read, Finish, Goto, Frame, Ends, Goes
  <2> QED
    BY <1>1, <2>1
<1>4. CASE StartLoad(c)
  <2>1. Leads("start", "start_append")
    BY <1>4 DEF Leads, StartLoad, LoadLoan, Read, Finish, Goto, Frame, Ends, Goes
  <2> QED
    BY <1>1, <2>1
<1>5. CASE CreditLoadLoan(c)
  <2>1. Leads("credit", "credit_load_session")
    BY <1>5 DEF Leads, CreditLoadLoan, LoadLoan, Read, Finish, Goto, Frame, Ends, Goes
  <2> QED
    BY <1>1, <2>1
<1>6. CASE CreditLoadSession(c)
  <2>1. Leads("credit_load_session", "credit_load_loan_events")
    BY <1>6 DEF Leads, CreditLoadSession, LoadLoan, Read, Finish, Goto, Frame, Ends, Goes
  <2> QED
    BY <1>1, <2>1
<1>7. CASE CreditLoadLoanEvents(c)
  <2>1. Leads("credit_load_loan_events", "credit_validate")
    BY <1>7 DEF Leads, CreditLoadLoanEvents, LoadLoan, Read, Finish, Goto, Frame, Ends, Goes
  <2> QED
    BY <1>1, <2>1
<1>8. CASE CreditAnchorId(c)
  <2>1. Leads("credit_anchor_id", "credit_reload_agent")
    BY <1>8 DEF Leads, CreditAnchorId, ReadLastEvent, Read, Finish, Goto, Frame, Ends, Goes
  <2> QED
    BY <1>1, <2>1
<1>9. CASE CreditCheckBridge(c)
  <2>1. Leads("credit_check_bridge", "append_bridge")
    BY <1>9 DEF Leads, CreditCheckBridge, LoadLoan, Read, Finish, Goto, Frame, Ends, Goes
  <2> QED
    BY <1>1, <2>1
<1>10. CASE FraudLoad(c)
  <2>1. Leads("fraud", "fraud_append_loan")
    BY <1>10 DEF Leads, FraudLoad, LoadLoan, Read, Finish, Goto, Frame, Ends, Goes
  <2> QED
    BY <1>1, <2>1
<1>11. CASE FraudId(c)
  <2>1. Leads("fraud_id", "fraud_summary_version")
    BY <1>11 DEF Leads, FraudId, ReadLastEvent, Read, Finish, Goto, Frame, Ends, Goes
  <2> QED
    BY <1>1, <2>1
<1>12. CASE FraudSummaryVersion(c)
  <2>1. Leads("fraud_summary_version", "fraud_append_summary")
    BY <1>12 DEF Leads, FraudSummaryVersion, LoadLoan, Read, Finish, Goto, Frame, Ends, Goes
  <2> QED
    BY <1>1, <2>1
<1>13. CASE FraudReloadLoan(c)
  <2>1. Leads("fraud_reload_loan", "fraud_check_bridge")
    BY <1>13 DEF Leads, FraudReloadLoan, LoadLoan, Read, Finish, Goto, Frame, Ends, Goes
  <2> QED
    BY <1>1, <2>1
<1>14. CASE FraudCheckBridge(c)
  <2>1. Leads("fraud_check_bridge", "append_bridge")
    BY <1>14 DEF Leads, FraudCheckBridge, LoadLoan, Read, Finish, Goto, Frame, Ends, Goes
  <2> QED
    BY <1>1, <2>1
<1>15. CASE ComplianceLoad(c)
  <2>1. Leads("compliance", "compliance_append_request")
    BY <1>15 DEF Leads, ComplianceLoad, LoadLoan, Read, Finish, Goto, Frame, Ends, Goes
  <2> QED
    BY <1>1, <2>1
<1>16. CASE ComplianceReload(c)
  <2>1. Leads("compliance_reload", "compliance_append_pass")
    BY <1>16 DEF Leads, ComplianceReload, LoadLoan, Read, Finish, Goto, Frame, Ends, Goes
  <2> QED
    BY <1>1, <2>1
<1>17. CASE DecisionLoad(c)
  <2>1. Leads("decision", "decision_validate")
    BY <1>17 DEF Leads, DecisionLoad, LoadLoan, Read, Finish, Goto, Frame, Ends, Goes
  <2> QED
    BY <1>1, <2>1
<1>18. CASE RequestReviewLoad(c)
  <2>1. Leads("request_review", "request_review_append")
    BY <1>18 DEF Leads, RequestReviewLoad, LoadLoan, Read, Finish, Goto, Frame, Ends, Goes
  <2> QED
    BY <1>1, <2>1
<1>19. CASE ReviewLoad(c)
  <2>1. Leads("review", "review_append")
    BY <1>19 DEF Leads, ReviewLoad, LoadLoan, Read, Finish, Goto, Frame, Ends, Goes
  <2> QED
    BY <1>1, <2>1
<1>20. CASE ReviewReload(c)
  <2>1. Leads("review_reload", "review_gate")
    BY <1>20 DEF Leads, ReviewReload, LoadLoan, Read, Finish, Goto, Frame, Ends, Goes
  <2> QED
    BY <1>1, <2>1
<1> QED
  BY <1>2, <1>3, <1>4, <1>5, <1>6, <1>7, <1>8, <1>9, <1>10, <1>11, <1>12, <1>13, <1>14, <1>15, <1>16, <1>17, <1>18, <1>19, <1>20

(* Rule 2 and Rule 3 see the anchor of the session: AnchoredFirst makes the  *)
(* last anchor the first event.                                              *)
LEMMA AgentFacts ==
  ASSUME StoreInv, NEW s \in Sessions
  PROVE  /\ AgentOf(streams[s]).version = Len(streams[s])
         /\ AgentOf(streams[s]).context =>
              streams[s] # <<>> /\ AgentOf(streams[s]).model = streams[s][1].model
<1> DEFINE anchors == OfType(streams[s], "AgentContextLoaded")
<1>1. anchors # {} => streams[s] # <<>>
  BY DEF OfType
<1>2. anchors # {} => anchors = {1}
  BY <1>1 DEF StoreInv, AnchoredFirst
<1>3. anchors = {1} => (CHOOSE i \in anchors : \A j \in anchors : j <= i) = 1
  OBVIOUS
<1> QED
  BY <1>1, <1>2, <1>3 DEF AgentOf

LEMMA AnchorSeen ==
  ASSUME LoanInv, NEW c \in Clients, pc[c] \in CreditSteps, Frame, Goes(c, "credit_append_agent"),
         AnchoredWith(cmd[c].session, cmd[c].model)
  PROVE  Sound(c)
<1>1. pc'[c] = "credit_append_agent" /\ cmd'[c] = cmd[c] /\ Commanded(c)
  BY DEF Goes, LoanInv, CallInv
<1>2. Commanded(c)'
  BY <1>1 DEF Commanded, StartSteps, CreditSteps, FraudSteps, DecisionSteps
<1>3. Knows(c)'
  BY <1>1 DEF Knows, Frame, AnchoredWith
<1> QED
  BY <1>2, <1>3 DEF Sound

LEMMA CreditValidateIsSound ==
  ASSUME LoanInv, NEW c \in Clients, CreditValidate(c) \/ CreditReloadAgent(c)
  PROVE  Sound(c)
<1> DEFINE agent == AgentOf(streams[cmd[c].session])
<1>1. pc[c] \in CreditSteps /\ cmd[c].session \in Sessions /\ StoreInv
  BY CommandFacts DEF CreditValidate, CreditReloadAgent, CreditSteps, LoanInv, CallInv, Commanded
<1>2. /\ agent.version = Len(streams[cmd[c].session])
      /\ agent.context => /\ streams[cmd[c].session] # <<>>
                          /\ agent.model = streams[cmd[c].session][1].model
  BY <1>1, AgentFacts
<1> HIDE DEF agent
<1>3. CASE Frame /\ Ends(c)
  BY <1>3, EndIsSound
<1>4. CASE Frame /\ Goes(c, "credit_append_agent") /\ agent.context /\ agent.model = cmd[c].model
  BY <1>1, <1>2, <1>4, AnchorSeen DEF AnchoredWith
<1>5. CASE Frame /\ Goes(c, "credit_anchor")
  BY <1>1, <1>5, PlainIsSound
     DEF Follows, Informed, StartSteps, CreditSteps, FraudSteps, DecisionSteps
<1>6. CASE CreditReloadAgent(c)
  <2>1. \/ Frame /\ Ends(c)
        \/ Frame /\ Goes(c, "credit_append_agent") /\ agent.context /\ agent.model = cmd[c].model
    BY <1>6 DEF CreditReloadAgent, Read, Finish, Goto, Frame, Ends, Goes, agent
  <2> QED
    BY <1>3, <1>4, <2>1
<1>7. CASE CreditValidate(c)
  <2>1. \/ Frame /\ Ends(c)
        \/ Frame /\ Goes(c, "credit_append_agent") /\ agent.context /\ agent.model = cmd[c].model
        \/ Frame /\ Goes(c, "credit_anchor")
    BY <1>7 DEF CreditValidate, Read, Finish, Goto, Frame, Ends, Goes, agent
  <2> QED
    BY <1>3, <1>4, <1>5, <2>1
<1> QED
  BY <1>6, <1>7

LEMMA CreditKeeps ==
  ASSUME LoanInv, NEW c \in Clients, CreditId(c) \/ CreditReloadLoan(c)
  PROVE  Sound(c)
<1>1. /\ pc[c] \in {"credit_id", "credit_reload_loan"} /\ Frame
      /\ Ends(c) \/ Goes(c, "credit_reload_loan") \/ Goes(c, "credit_append_loan")
  BY DEF CreditId, CreditReloadLoan, ReadLastEvent, LoadLoan, Read, Finish, Goto, Frame, Ends, Goes
<1>2. CASE Ends(c)
  BY <1>1, <1>2, EndIsSound
<1>3. CASE Goes(c, "credit_reload_loan") \/ Goes(c, "credit_append_loan")
  <2>1. /\ pc'[c] \in {"credit_reload_loan", "credit_append_loan"} /\ cmd'[c] = cmd[c]
        /\ Commanded(c) /\ Knows(c)
    BY <1>3 DEF Goes, LoanInv, CallInv
  <2>2. Commanded(c)'
    BY <1>1, <2>1 DEF Commanded, StartSteps, CreditSteps, FraudSteps, DecisionSteps
  <2>3. Knows(c)'
    BY <1>1, <2>1 DEF Knows, Frame, Credited
  <2> QED
    BY <1>1, <1>3, <2>2, <2>3 DEF Sound
<1> QED
  BY <1>1, <1>2, <1>3

LEMMA FraudLoadAgentIsSound ==
  ASSUME LoanInv, NEW c \in Clients, FraudLoadAgent(c)
  PROVE  Sound(c)
<1> DEFINE agent == AgentOf(streams[cmd[c].mirror])
<1>1. pc[c] = "fraud_load_agent" /\ cmd[c].mirror \in Sessions /\ Commanded(c) /\ StoreInv
  BY CommandFacts DEF FraudLoadAgent, FraudSteps, LoanInv, CallInv, Commanded
<1>2. \/ Frame /\ Ends(c)
      \/ Frame /\ Goes(c, "fraud_append_agent") /\ agent.context
  BY DEF FraudLoadAgent, Read, Finish, Goto, Frame, Ends, Goes
<1>3. agent.context => streams[cmd[c].mirror] # <<>>
  BY <1>1, AgentFacts
<1>4. CASE Frame /\ Goes(c, "fraud_append_agent") /\ agent.context
  <2>1. pc'[c] = "fraud_append_agent" /\ cmd'[c] = cmd[c]
    BY <1>4 DEF Goes, LoanInv, CallInv
  <2>2. Commanded(c)'
    BY <1>1, <2>1 DEF Commanded, StartSteps, CreditSteps, FraudSteps, DecisionSteps
  <2>3. Knows(c)'
    BY <1>3, <1>4, <2>1 DEF Knows, Frame
  <2> QED
    BY <1>4, <2>2, <2>3 DEF Sound
<1> QED
  BY <1>2, <1>4, EndIsSound

LEMMA DecisionIsSound ==
  ASSUME LoanInv, NEW c \in Clients, DecisionValidateCausalChain(c) \/ DecisionReload(c)
  PROVE  Sound(c)
<1>1. Commanded(c) /\ Knows(c)
  BY DEF LoanInv, CallInv
<1>2. /\ pc[c] \in {"decision_validate", "decision_reload"} /\ Frame
      /\ Ends(c) \/ (\A s \in cmd[c].sessions : Analysed(streams[s]) # {})
      /\ Ends(c) \/ Goes(c, "decision_reload") \/ Goes(c, "decision_append")
  BY <1>1 DEF Knows, DecisionValidateCausalChain, DecisionReload, LoadLoan, Read, Finish, Goto,
              Frame, Ends, Goes
<1>3. CASE ~ Ends(c)
  <2>1. pc'[c] \in {"decision_reload", "decision_append"} /\ cmd'[c] = cmd[c]
    BY <1>2, <1>3 DEF Goes, LoanInv, CallInv
  <2>2. Commanded(c)'
    BY <1>1, <1>2, <2>1 DEF Commanded, StartSteps, CreditSteps, FraudSteps, DecisionSteps
  <2>3. Knows(c)'
    BY <1>2, <1>3, <2>1 DEF Knows, Frame
  <2> QED
    BY <1>2, <1>3, <2>2, <2>3 DEF Sound
<1> QED
  BY <1>2, <1>3, EndIsSound

LEMMA ReviewGateIsSound ==
  ASSUME LoanInv, NEW c \in Clients, ReviewGate(c)
  PROVE  Sound(c)
<1>1. /\ pc[c] = "review_gate"
      /\ \/ Frame /\ Ends(c)
         \/ /\ Frame /\ Goes(c, "review_approve")
            /\ AllMandatoryChecksPassed(streams["compliance"])
  BY DEF ReviewGate, Read, Finish, Goto, Frame, Ends, Goes
<1>2. ASSUME AllMandatoryChecksPassed(streams["compliance"]) PROVE GateWasOpen
  <2> DEFINE q == streams["compliance"]
  <2>1. q \in Seq(Range(q)) /\ Len(q) \in Nat /\ DOMAIN q = 1..Len(q)
    BY SessionsApart, LenProperties DEF LoanInv, StoreInv, WellFormed
  <2>2. q # <<>>
    BY <1>2 DEF AllMandatoryChecksPassed, Required, OfType
  <2>3. Len(q) \in DOMAIN q
    BY <2>1, <2>2, EmptySeq
  <2>4. SubSeq(q, 1, Len(q)) = q
    BY <2>1, SubSeqFull
  <2> QED
    BY <1>2, <2>3, <2>4 DEF GateWasOpen
<1>3. CASE Frame /\ Goes(c, "review_approve") /\ GateWasOpen
  <2>1. pc'[c] = "review_approve" /\ cmd'[c] = cmd[c] /\ Commanded(c)
    BY <1>3 DEF Goes, LoanInv, CallInv
  <2>2. Commanded(c)'
    BY <1>1, <2>1 DEF Commanded, StartSteps, CreditSteps, FraudSteps, DecisionSteps
  <2>3. Knows(c)'
    BY <1>3, <2>1 DEF Knows, Frame, GateWasOpen
  <2> QED
    BY <1>3, <2>2, <2>3 DEF Sound
<1> QED
  BY <1>1, <1>2, <1>3, EndIsSound

-------------------------------------------------------------------------------
(* Appends *)

LEMMA AppendOutcome ==
  ASSUME NEW c \in Clients, NEW s, NEW expected, NEW event, NEW step,
         AppendTo(c, s, expected, event, step),
         Matches(expected, streams[s]) => Lawful(s, event)
  PROVE  \/ Frame /\ Ends(c)
         \/ Grows(s, event) /\ (IF step = "idle" THEN Ends(c) ELSE Goes(c, step))
BY DEF AppendTo, Finish, Goto, Frame, Ends, Goes, Grows

LEMMA PlainAppend ==
  ASSUME LoanInv, NEW c \in Clients, NEW s, NEW expected, NEW event, NEW step,
         AppendTo(c, s, expected, event, step),
         Matches(expected, streams[s]) => Lawful(s, event),
         pc[c] # "idle", step = "idle" \/ Follows(pc[c], step)
  PROVE  Sound(c)
<1>1. \/ Frame /\ Ends(c)
      \/ OneEvent /\ (IF step = "idle" THEN Ends(c) ELSE Goes(c, step))
  BY AppendOutcome DEF OneEvent
<1>2. step # "idle" /\ Goes(c, step) /\ OneEvent => Sound(c)
  BY PlainIsSound
<1> QED
  BY <1>1, <1>2, EndIsSound

(* Events that no law is about. *)
LEMMA PlainEvents ==
  ASSUME NEW s \in {"loan", "fraud", "compliance"}, NEW e, e.gp = clock + 1,
         e.type \notin {"CreditAnalysisCompleted", "DecisionGenerated", "ApplicationApproved"}
  PROVE  Lawful(s, e)
BY SessionsApart DEF Lawful

LEMMA AppendsAreSound ==
  ASSUME LoanInv, NEW c \in Clients,
         \/ SubmitAppend(c) \/ SubmitRequest(c) \/ AppendBridge(c) \/ FraudAppendLoan(c)
         \/ ComplianceAppendRequest(c) \/ ComplianceAppendPass(c)
         \/ RequestReviewAppend(c) \/ ReviewAppend(c)
  PROVE  Sound(c)
<1> USE DEF Follows, Informed, StartSteps, CreditSteps, FraudSteps, DecisionSteps
<1>1. CASE SubmitAppend(c)
  <2> DEFINE event == Event("ApplicationSubmitted", 0)
             step == "submit_reload"
  <2>1. /\ pc[c] = "submit_append"
        /\ AppendTo(c, "loan", OrNew(seen[c].loan.version), event, step)
    BY <1>1 DEF SubmitAppend
  <2>2. Lawful("loan", event)
    BY PlainEvents DEF Event
  <2>3. step = "idle" \/ Follows(pc[c], step)
    BY <2>1
  <2> HIDE DEF event, step
  <2> QED
    BY <2>1, <2>2, <2>3, PlainAppend
<1>2. CASE SubmitRequest(c)
  <2> DEFINE event == Event("CreditAnalysisRequested", LastEvent("loan"))
             step == "idle"
  <2>1. /\ pc[c] = "submit_request"
        /\ AppendTo(c, "loan", seen[c].loan.version, event, step)
    BY <1>2 DEF SubmitRequest
  <2>2. Lawful("loan", event)
    BY PlainEvents DEF Event
  <2>3. step = "idle" \/ Follows(pc[c], step)
    BY <2>1
  <2> HIDE DEF event, step
  <2> QED
    BY <2>1, <2>2, <2>3, PlainAppend
<1>3. CASE AppendBridge(c)
  <2> DEFINE event == Event("ComplianceReviewStarted", LastEvent("loan"))
             step == "idle"
  <2>1. /\ pc[c] = "append_bridge"
        /\ AppendTo(c, "loan", seen[c].loan.version, event, step)
    BY <1>3 DEF AppendBridge
  <2>2. Lawful("loan", event)
    BY PlainEvents DEF Event
  <2>3. step = "idle" \/ Follows(pc[c], step)
    BY <2>1
  <2> HIDE DEF event, step
  <2> QED
    BY <2>1, <2>2, <2>3, PlainAppend
<1>4. CASE FraudAppendLoan(c)
  <2> DEFINE event == Event("FraudScreeningCompleted", 0)
             step == "fraud_id"
  <2>1. /\ pc[c] = "fraud_append_loan"
        /\ AppendTo(c, "loan", seen[c].loan.version, event, step)
    BY <1>4 DEF FraudAppendLoan
  <2>2. Lawful("loan", event)
    BY PlainEvents DEF Event
  <2>3. step = "idle" \/ Follows(pc[c], step)
    BY <2>1
  <2> HIDE DEF event, step
  <2> QED
    BY <2>1, <2>2, <2>3, PlainAppend
<1>5. CASE ComplianceAppendRequest(c)
  <2> DEFINE event == [type |-> "ComplianceCheckRequested", gp |-> clock + 1, cause |-> 0,
                         required |-> cmd[c].required]
             step == IF cmd[c].passes = <<>> THEN "idle" ELSE "compliance_reload"
  <2>1. /\ pc[c] = "compliance_append_request"
        /\ AppendTo(c, "compliance", OrNew(seen[c].version), event, step)
    BY <1>5 DEF ComplianceAppendRequest
  <2>2. Lawful("compliance", event)
    BY PlainEvents
  <2>3. step = "idle" \/ Follows(pc[c], step)
    BY <2>1
  <2> HIDE DEF event, step
  <2> QED
    BY <2>1, <2>2, <2>3, PlainAppend
<1>6. CASE ComplianceAppendPass(c)
  <2> DEFINE event == [type |-> "ComplianceRulePassed", gp |-> clock + 1, cause |-> 0,
                         rule |-> cmd[c].passes[seen[c].passes]]
             step == IF seen[c].passes = Len(cmd[c].passes) THEN "idle" ELSE "compliance_reload"
  <2>1. /\ pc[c] = "compliance_append_pass"
        /\ AppendTo(c, "compliance", seen[c].version, event, step)
    BY <1>6 DEF ComplianceAppendPass
  <2>2. Lawful("compliance", event)
    BY PlainEvents
  <2>3. step = "idle" \/ Follows(pc[c], step)
    BY <2>1
  <2> HIDE DEF event, step
  <2> QED
    BY <2>1, <2>2, <2>3, PlainAppend
<1>7. CASE RequestReviewAppend(c)
  <2> DEFINE event == Event("HumanReviewRequested", LastEvent("loan"))
             step == "idle"
  <2>1. /\ pc[c] = "request_review_append"
        /\ AppendTo(c, "loan", seen[c].loan.version, event, step)
    BY <1>7 DEF RequestReviewAppend
  <2>2. Lawful("loan", event)
    BY PlainEvents DEF Event
  <2>3. step = "idle" \/ Follows(pc[c], step)
    BY <2>1
  <2> HIDE DEF event, step
  <2> QED
    BY <2>1, <2>2, <2>3, PlainAppend
<1>8. CASE ReviewAppend(c)
  <2> DEFINE event == [type |-> "HumanReviewCompleted", gp |-> clock + 1, cause |-> 0,
                         final |-> cmd[c].final, override |-> cmd[c].override]
             step == IF cmd[c].emit THEN "review_reload" ELSE "idle"
  <2>1. /\ pc[c] = "review_append"
        /\ AppendTo(c, "loan", seen[c].loan.version, event, step)
    BY <1>8 DEF ReviewAppend
  <2>2. Lawful("loan", event)
    BY PlainEvents
  <2>3. step = "idle" \/ Follows(pc[c], step)
    BY <2>1
  <2> HIDE DEF event, step
  <2> QED
    BY <2>1, <2>2, <2>3, PlainAppend
<1> QED
  BY <1>1, <1>2, <1>3, <1>4, <1>5, <1>6, <1>7, <1>8

(* The gate for a new stream admits the anchor as the first event only. *)
LEMMA AnchorsAreSound ==
  ASSUME LoanInv, NEW c \in Clients, StartAppend(c) \/ CreditAnchor(c)
  PROVE  Sound(c)
<1> DEFINE s == cmd[c].session
           event == Anchor(cmd[c].model)
           step == IF pc[c] = "start_append" THEN "idle" ELSE "credit_anchor_id"
<1>1. /\ pc[c] \in {"start_append", "credit_anchor"} /\ s \in Sessions
      /\ AppendTo(c, s, NewStream, event, step)
  BY CommandFacts DEF StartAppend, CreditAnchor, LoanInv, CallInv, Commanded, StartSteps, CreditSteps
<1>2. Matches(NewStream, streams[s]) => streams[s] = <<>>
  <2>1. streams[s] \in Seq(Range(streams[s]))
    BY <1>1, SessionsApart DEF LoanInv, StoreInv, WellFormed
  <2>2. Len(streams[s]) \in Nat
    BY <2>1, LenProperties
  <2> QED
    BY <2>2 DEF Matches, NewStream
<1>3. Matches(NewStream, streams[s]) => Lawful(s, event)
  BY <1>1, <1>2, SessionsApart DEF Lawful, Anchor
<1>4. step = "idle" \/ Follows(pc[c], step)
  BY <1>1 DEF Follows, Informed, StartSteps, CreditSteps, FraudSteps, DecisionSteps
<1> HIDE DEF s, event, step
<1> QED
  BY <1>1, <1>3, <1>4, PlainAppend

LEMMA CreditAppendAgentIsSound ==
  ASSUME LoanInv, NEW c \in Clients, CreditAppendAgent(c)
  PROVE  Sound(c)
<1> DEFINE s == cmd[c].session
           m == cmd[c].model
           event == Credit(s, m, CreditCause(c))
<1>1. /\ pc[c] = "credit_append_agent" /\ s \in Sessions /\ AnchoredWith(s, m)
      /\ Commanded(c)
      /\ AppendTo(c, s, seen[c].agent.version, event, "credit_id")
  BY CommandFacts DEF CreditAppendAgent, LoanInv, CallInv, Commanded, Knows, CreditSteps
<1>2. Lawful(s, event)
  BY <1>1, SessionsApart DEF Lawful, Credit, AnchoredWith
<1>3. event.type = "CreditAnalysisCompleted" /\ event.model = m
  BY DEF Credit
<1>4. s \in StreamIds
  BY <1>1, SessionsApart
<1> HIDE DEF event
<1>5. \/ Frame /\ Ends(c)
      \/ Grows(s, event) /\ Goes(c, "credit_id")
  BY <1>1, <1>2, AppendOutcome
<1>6. CASE Grows(s, event) /\ Goes(c, "credit_id")
  <2>1. pc'[c] = "credit_id" /\ cmd'[c] = cmd[c]
    BY <1>6 DEF Goes, LoanInv, CallInv
  <2>2. Commanded(c)'
    BY <1>1, <2>1 DEF Commanded, StartSteps, CreditSteps, FraudSteps, DecisionSteps
  <2>3. \E i \in DOMAIN streams'[s] : streams'[s][i] = event
    <3>1. streams[s] \in Seq(Range(streams[s])) /\ streams'[s] = Append(streams[s], event)
      BY <1>4, <1>6 DEF LoanInv, StoreInv, WellFormed, Grows
    <3>2. /\ DOMAIN streams'[s] = 1..(Len(streams[s]) + 1) /\ Len(streams[s]) \in Nat
          /\ streams'[s][Len(streams[s]) + 1] = event
      BY <3>1, AppendFacts
    <3> QED
      BY <3>2
  <2>4. \E j \in OfType(streams'[s], "CreditAnalysisCompleted") : streams'[s][j].model = m
    BY <1>3, <2>3 DEF OfType
  <2>5. Credited(cmd[c].session, cmd[c].model)'
    BY <2>1, <2>4 DEF Credited
  <2>6. Knows(c)'
    BY <2>1, <2>5 DEF Knows
  <2> QED
    BY <1>6, <2>2, <2>6 DEF Sound, OneEvent
<1> QED
  BY <1>5, <1>6, EndIsSound

LEMMA InformedAppendsAreSound ==
  ASSUME LoanInv, NEW c \in Clients,
         CreditAppendLoan(c) \/ FraudAppendAgent(c) \/ DecisionAppend(c) \/ ReviewApprove(c)
  PROVE  Sound(c)
<1>0. Commanded(c) /\ Knows(c)
  BY DEF LoanInv, CallInv
<1> USE DEF Follows, Informed, StartSteps, CreditSteps, FraudSteps, DecisionSteps
<1>1. CASE CreditAppendLoan(c)
  <2> DEFINE event == Credit(cmd[c].session, cmd[c].model, seen[c].cause)
  <2>1. /\ pc[c] = "credit_append_loan"
        /\ AppendTo(c, "loan", seen[c].loan.version, event, "credit_check_bridge")
    BY <1>1 DEF CreditAppendLoan
  <2>2. cmd[c].session \in Sessions /\ Credited(cmd[c].session, cmd[c].model)
    BY <1>0, <2>1, CommandFacts DEF Commanded, Knows
  <2>3. Lawful("loan", event)
    BY <2>2, SessionsApart DEF Lawful, Credit
  <2> HIDE DEF event
  <2> QED
    BY <2>1, <2>3, PlainAppend
<1>2. CASE FraudAppendAgent(c)
  <2> DEFINE event == Event("FraudScreeningCompleted", LastEvent(cmd[c].mirror))
             s == cmd[c].mirror
  <2>1. /\ pc[c] = "fraud_append_agent"
        /\ AppendTo(c, s, seen[c].agent.version, event, "fraud_reload_loan")
    BY <1>2 DEF FraudAppendAgent
  <2>2. s \in Sessions /\ streams[s] # <<>>
    BY <1>0, <2>1, CommandFacts DEF Commanded, Knows
  <2>3. Lawful(s, event)
    BY <2>2, SessionsApart DEF Lawful, Event
  <2> HIDE DEF event, s
  <2> QED
    BY <2>1, <2>3, PlainAppend
<1>3. CASE DecisionAppend(c)
  <2> DEFINE event == [type |-> "DecisionGenerated", gp |-> clock + 1,
                       cause |-> LastEvent("loan"), sessions |-> cmd[c].sessions]
  <2>1. /\ pc[c] = "decision_append"
        /\ AppendTo(c, "loan", seen[c].loan.version, event, "idle")
    BY <1>3 DEF DecisionAppend
  <2>2. /\ cmd[c].sessions \subseteq Sessions
        /\ \A a \in cmd[c].sessions : Analysed(streams[a]) # {}
    BY <1>0, <2>1, CommandFacts DEF Commanded, Knows
  <2>3. Lawful("loan", event)
    BY <2>2, SessionsApart DEF Lawful
  <2> HIDE DEF event
  <2> QED
    BY <2>1, <2>3, PlainAppend
<1>4. CASE ReviewApprove(c)
  <2> DEFINE event == Event("ApplicationApproved", LastEvent("loan"))
  <2>1. /\ pc[c] = "review_approve" /\ GateWasOpen
        /\ AppendTo(c, "loan", seen[c].loan.version, event, "idle")
    BY <1>0, <1>4 DEF ReviewApprove, Knows
  <2>2. Lawful("loan", event)
    BY <2>1, SessionsApart DEF Lawful, Event
  <2> HIDE DEF event
  <2> QED
    BY <2>1, <2>2, PlainAppend
<1> QED
  BY <1>1, <1>2, <1>3, <1>4

LEMMA FraudAppendSummaryIsSound ==
  ASSUME LoanInv, NEW c \in Clients, FraudAppendSummary(c)
  PROVE  Sound(c)
<1> DEFINE event == Event("FraudScreeningCompleted", seen[c].cause)
           step == IF cmd[c].mirror = None THEN "fraud_reload_loan" ELSE "fraud_load_agent"
<1>1. /\ pc[c] = "fraud_append_summary" /\ Commanded(c)
      /\ AppendTo(c, "fraud", OrNew(seen[c].version), event, step)
  BY DEF FraudAppendSummary, LoanInv, CallInv
<1>2. Lawful("fraud", event)
  BY PlainEvents DEF Event
<1>3. step # "idle"
  OBVIOUS
<1> HIDE DEF event
<1>4. (Frame /\ Ends(c)) \/ (Grows("fraud", event) /\ Goes(c, step))
  <2> HIDE DEF step
  <2> QED
    BY <1>1, <1>2, <1>3, AppendOutcome
<1>5. CASE Goes(c, step) /\ OneEvent
  <2>1. pc'[c] = step /\ cmd'[c] = cmd[c]
    BY <1>5 DEF Goes, LoanInv, CallInv
  <2>2. Commanded(c)'
    BY <1>1, <2>1 DEF Commanded, StartSteps, CreditSteps, FraudSteps, DecisionSteps
  <2>3. Knows(c)'
    BY <2>1 DEF Knows
  <2> QED
    BY <1>5, <2>2, <2>3 DEF Sound
<1> QED
  BY <1>4, <1>5, EndIsSound DEF OneEvent
-------------------------------------------------------------------------------
(* The invariant *)

LEMMA LoanInit == Init => LoanInv
<1> SUFFICES ASSUME Init PROVE LoanInv
  OBVIOUS
<1>1. streams \in InitialStores /\ clock = LastPosition(streams)
  BY DEF Init
<1>2. StoreInv
  BY <1>1, StoreAssumption DEF StoreInv, WellFormed
<1>3. CallInv
  BY DEF Init, CallInv, Commanded, Knows, StartSteps, CreditSteps, FraudSteps, DecisionSteps
<1> QED
  BY <1>2, <1>3 DEF LoanInv

LEMMA IssueKeeps ==
  ASSUME LoanInv, NEW c \in Clients, NEW command \in CommandSet, Issue(c, command)
  PROVE  LoanInv'
<1>1. /\ Frame /\ command.kind \in Kinds
      /\ pc' = [pc EXCEPT ![c] = command.kind] /\ cmd' = [cmd EXCEPT ![c] = command]
  BY CommandAssumption DEF Issue, Frame
<1>2. /\ pc' = [d \in Clients |-> pc'[d]] /\ cmd' = [d \in Clients |-> cmd'[d]]
      /\ pc'[c] = command.kind /\ cmd'[c] = command
      /\ \A d \in Clients \ {c} : pc'[d] = pc[d] /\ cmd'[d] = cmd[d]
  BY <1>1 DEF LoanInv, CallInv
<1>3. Commanded(c)' /\ Knows(c)'
  BY <1>1, <1>2
     DEF Commanded, Knows, Kinds, StartSteps, CreditSteps, FraudSteps, DecisionSteps
<1>4. \A d \in Clients : Commanded(d)' /\ Knows(d)'
  BY <1>1, <1>2, <1>3, OthersKnow
<1>5. StoreInv'
  BY <1>1 DEF Frame, LoanInv, StoreInv, WellFormed
<1> QED
  BY <1>2, <1>4, <1>5 DEF LoanInv, CallInv

LEMMA LoanNext == LoanInv /\ [Next]_vars => LoanInv'
<1> SUFFICES ASSUME LoanInv, [Next]_vars PROVE LoanInv'
  OBVIOUS
<1>1. ASSUME NEW c \in Clients, NEW command \in CommandSet, Issue(c, command) PROVE LoanInv'
  BY <1>1, IssueKeeps
<1>2. ASSUME NEW c \in Clients, Submit(c) \/ StartSession(c) \/ AppendBridge(c) PROVE Sound(c)
  BY <1>2, LoadsAreSound, AppendsAreSound, AnchorsAreSound DEF Submit, StartSession
<1>3. ASSUME NEW c \in Clients, CreditAnalysis(c) PROVE Sound(c)
  BY <1>3, LoadsAreSound, CreditValidateIsSound, AnchorsAreSound, CreditAppendAgentIsSound,
     CreditKeeps, InformedAppendsAreSound
     DEF CreditAnalysis
<1>4. ASSUME NEW c \in Clients, FraudScreening(c) PROVE Sound(c)
  BY <1>4, LoadsAreSound, AppendsAreSound, FraudAppendSummaryIsSound, FraudLoadAgentIsSound,
     InformedAppendsAreSound
     DEF FraudScreening
<1>5. ASSUME NEW c \in Clients, ComplianceCheck(c) PROVE Sound(c)
  BY <1>5, LoadsAreSound, AppendsAreSound DEF ComplianceCheck
<1>6. ASSUME NEW c \in Clients, GenerateDecision(c) PROVE Sound(c)
  BY <1>6, LoadsAreSound, DecisionIsSound, InformedAppendsAreSound DEF GenerateDecision
<1>7. ASSUME NEW c \in Clients, HumanReview(c) PROVE Sound(c)
  BY <1>7, LoadsAreSound, AppendsAreSound, ReviewGateIsSound, InformedAppendsAreSound
     DEF HumanReview
<1>8. ASSUME NEW c \in Clients, Crash(c) PROVE Sound(c)
  <2>1. Frame /\ Ends(c)
    BY <1>8 DEF Crash, Finish, Frame, Ends
  <2> QED
    BY <2>1, EndIsSound
<1>9. CASE UNCHANGED vars
  <2>1. Frame /\ UNCHANGED <<pc, cmd>>
    BY <1>9 DEF vars, Frame
  <2>2. \A d \in Clients : Commanded(d)' /\ Knows(d)'
    BY <2>1, OthersKnow
  <2>3. StoreInv'
    BY <2>1 DEF Frame, LoanInv, StoreInv, WellFormed
  <2> QED
    BY <2>1, <2>2, <2>3 DEF LoanInv, CallInv
<1> QED
  BY <1>1, <1>2, <1>3, <1>4, <1>5, <1>6, <1>7, <1>8, <1>9, SoundStep DEF Next

(* What a handler knows when it appends is so, whatever other callers        *)
(* appended since it looked; and so every store keeps the laws.              *)
THEOREM LoanInvariant == Spec => []LoanInv
BY LoanInit, LoanNext, PTL DEF Spec

(* A session has one anchor, its first event: the version gate lets only one *)
(* of the callers that start a session at once, and no analysis before it.   *)
THEOREM SessionsAreAnchored == Spec => []GasTownFirst
<1>1. LoanInv => GasTownFirst
  BY DEF LoanInv, StoreInv, GasTownFirst
<1> QED
  BY <1>1, LoanInvariant, PTL

(* Every analysis of a session has the model version of its anchor, also     *)
(* where another caller anchored the session between two loads.              *)
THEOREM ModelsAreLocked == Spec => []ModelVersionLocked
<1>1. LoanInv => ModelVersionLocked
  BY DEF LoanInv, StoreInv, ModelVersionLocked
<1> QED
  BY <1>1, LoanInvariant, PTL

(* Rule 6 at the moment of the decision, although the sessions are read long *)
(* before it is appended.                                                    *)
THEOREM DecisionsAreCaused == Spec => []DecisionIsCaused
<1>1. LoanInv => DecisionIsCaused
  BY DEF LoanInv, StoreInv, DecisionIsCaused
<1> QED
  BY <1>1, LoanInvariant, PTL

(* No interleaving approves an application whose mandatory checks had never  *)
(* all passed.                                                               *)
THEOREM ApprovalsAreGated == Spec => []ApprovalHadPassed
<1>1. LoanInv => ApprovalHadPassed
  BY DEF LoanInv, StoreInv, ApprovalHadPassed
<1> QED
  BY <1>1, LoanInvariant, PTL

-------------------------------------------------------------------------------
(* What a call has seen of the loan *)

BridgeSteps == {"fraud_check_bridge", "append_bridge"}

(* It was replayable; where nothing was appended since, it is the loan.      *)
GoodSeen(what, step) ==
  /\ DOMAIN what = DOMAIN Nothing
  /\ what.loan \in LoanType /\ what.loan.ok
  /\ what.loan.version \in 0..Len(streams["loan"])
  /\ what.loan.version = Len(streams["loan"]) => what.loan = Loan
  /\ step \in BridgeSteps => what.loan.state = "ANALYSIS_COMPLETE"

SummarySteps == {"fraud_id", "fraud_summary_version", "fraud_append_summary"}
MirrorSteps == SummarySteps \cup {"fraud_load_agent", "fraud_append_agent"}

(* The copies of a screening that a call has still to append. *)
DueAt(step, command, s) ==
  \/ step \in SummarySteps /\ s = "fraud"
  \/ step \in MirrorSteps /\ s = command.mirror

Owing(s) == {c \in Clients : DueAt(pc[c], cmd[c], s)}

Copies == {"fraud"} \cup Sessions

Screened(s) == OfType(streams[s], "FraudScreeningCompleted")

StateInv ==
  /\ Shape(streams["loan"])
  /\ AtMostOne(OfType(streams["loan"], "ComplianceReviewStarted"))
  /\ seen = [c \in Clients |-> seen[c]]
  /\ \A c \in Clients : /\ pc[c] \in Steps
                        /\ pc[c] = "idle" => cmd[c] = NoCommand
                        /\ GoodSeen(seen[c], pc[c])
  /\ issued \in 0..MaxCommands
  /\ crashed \in 0..MaxCrashes

(* Each call on its way owes at most one copy to a stream. *)
CopiesInv ==
  /\ ScreeningsFollow(streams, clock)
  /\ \A s \in Copies :
       /\ IsFiniteSet(Owing(s))
       /\ Cardinality(Screened(s)) + Cardinality(Owing(s)) <= Cardinality(Screened("loan"))

(* The steps of a call whose analysis is in its session and not on the loan. *)
PendingSteps == {"credit_id", "credit_reload_loan", "credit_append_loan"}

Pending(s) == {c \in Clients : pc[c] \in PendingSteps /\ cmd[c].session = s}

Recorded(s) == OfType(streams[s], "CreditAnalysisCompleted")

Shown(s) ==
  {i \in OfType(streams["loan"], "CreditAnalysisCompleted") : streams["loan"][i].session = s}

(* Each analysis of a session is on the loan once, or on its way there, or   *)
(* its call has ended.                                                       *)
CreditsInv ==
  /\ CreditsBacked(streams)
  /\ \A s \in Sessions :
       /\ IsFiniteSet(Pending(s))
       /\ Cardinality(Shown(s)) + Cardinality(Pending(s)) <= Cardinality(Recorded(s))

CreditPosted(c, s, e, step) ==
  IF e.type = "CreditAnalysisCompleted"
  THEN IF s = "loan"
       THEN /\ pc[c] = "credit_append_loan" /\ step \notin PendingSteps
            /\ e.session = cmd[c].session /\ e.model = cmd[c].model
       ELSE s = cmd[c].session
  ELSE step \notin PendingSteps

NothingNewDue(c, step) ==
  \A s \in Copies : DueAt(step, cmd[c], s) => DueAt(pc[c], cmd[c], s)

(* A load. *)
Loads(c, what, step) ==
  /\ Frame
  /\ pc' = [pc EXCEPT ![c] = step] /\ cmd' = cmd /\ seen' = [seen EXCEPT ![c] = what]
  /\ step \in Steps \ {"idle"}
  /\ GoodSeen(what, step)
  /\ NothingNewDue(c, step)
  /\ step \in PendingSteps => pc[c] \in PendingSteps

(* An append: to the loan only where it is replayable, a bridge only where   *)
(* the analysis is complete, a copy only where one is due.                   *)
Posts(c, s, e, step) ==
  /\ s \in StreamIds
  /\ streams' = [streams EXCEPT ![s] = Append(@, e)]
  /\ e.gp = clock + 1 /\ clock' = e.gp
  /\ IF step = "idle" THEN Finish(c)
     ELSE pc' = [pc EXCEPT ![c] = step] /\ cmd' = cmd /\ seen' = seen
  /\ step \in Steps \ BridgeSteps
  /\ s = "loan" => /\ Loan.ok /\ seen[c].loan = Loan
                   /\ e.type \in LoanEvents
                   /\ e.type = "ComplianceReviewStarted" => Loan.state = "ANALYSIS_COMPLETE"
  /\ IF e.type = "FraudScreeningCompleted"
     THEN IF s = "loan"
          THEN step = "fraud_id"
          ELSE /\ s \in Copies /\ DueAt(pc[c], cmd[c], s) /\ ~ DueAt(step, cmd[c], s)
               /\ NothingNewDue(c, step)
     ELSE NothingNewDue(c, step)
  /\ CreditPosted(c, s, e, step)

Moves(c) ==
  /\ \/ Frame /\ Finish(c)
     \/ \E what, step : Loads(c, what, step)
     \/ \E s, e, step : Posts(c, s, e, step)
  /\ UNCHANGED issued
  /\ crashed' \in 0..MaxCrashes

LEMMA LoanSeq ==
  ASSUME LoanInv
  PROVE  /\ streams["loan"] \in Seq(Range(streams["loan"])) /\ Len(streams["loan"]) \in Nat
         /\ \A s \in StreamIds : streams[s] \in Seq(Range(streams[s])) /\ Len(streams[s]) \in Nat
         /\ clock \in Nat
<1>1. \A s \in StreamIds : streams[s] \in Seq(Range(streams[s]))
  BY DEF LoanInv, StoreInv, WellFormed
<1> QED
  BY <1>1, SessionsApart DEF LoanInv, StoreInv, WellFormed

(* The version gate lets a call append only to the loan it has seen. *)
LEMMA Fenced ==
  ASSUME LoanInv, StateInv, NEW c \in Clients,
         \/ Matches(seen[c].loan.version, streams["loan"])
         \/ Matches(OrNew(seen[c].loan.version), streams["loan"])
  PROVE  Loan.ok /\ seen[c].loan = Loan /\ Loan.version = Len(streams["loan"])
<1>1. GoodSeen(seen[c], pc[c]) /\ Len(streams["loan"]) \in Nat
  BY LoanSeq DEF StateInv
<1>2. streams["loan"] = <<>> => Len(streams["loan"]) = 0
  OBVIOUS
<1>3. streams["loan"] # <<>> => Len(streams["loan"]) # 0
  BY LoanSeq, EmptySeq
<1>4. seen[c].loan.version = Len(streams["loan"])
  BY <1>1, <1>2, <1>3 DEF Matches, OrNew, NewStream, GoodSeen
<1> QED
  BY <1>1, <1>4 DEF GoodSeen

LEMMA ReadMoves ==
  ASSUME StateInv, NEW c \in Clients, NEW check, NEW what, NEW step, Read(c, check, what, step),
         step \in Steps \ {"idle"}, check => GoodSeen(what, step), NothingNewDue(c, step),
         step \in PendingSteps => pc[c] \in PendingSteps
  PROVE  Moves(c)
<1>1. Frame /\ UNCHANGED <<issued, crashed>>
  BY DEF Read, Frame
<1>2. CASE check
  <2>1. Loads(c, what, step)
    BY <1>1, <1>2 DEF Read, Goto, Loads
  <2> QED
    BY <1>1, <2>1 DEF Moves, StateInv
<1>3. CASE ~ check
  BY <1>1, <1>3 DEF Read, Moves, StateInv
<1> QED
  BY <1>2, <1>3

LEMMA AppendMoves ==
  ASSUME StateInv, NEW c \in Clients, NEW s \in StreamIds, NEW expected, NEW e, NEW step,
         AppendTo(c, s, expected, e, step), e.gp = clock + 1, step \in Steps \ BridgeSteps,
         s = "loan" /\ Matches(expected, streams[s]) =>
           /\ Loan.ok /\ seen[c].loan = Loan
           /\ e.type \in LoanEvents
           /\ e.type = "ComplianceReviewStarted" => Loan.state = "ANALYSIS_COMPLETE",
         IF e.type = "FraudScreeningCompleted"
         THEN IF s = "loan"
              THEN step = "fraud_id"
              ELSE /\ s \in Copies /\ DueAt(pc[c], cmd[c], s) /\ ~ DueAt(step, cmd[c], s)
                   /\ NothingNewDue(c, step)
         ELSE NothingNewDue(c, step),
         CreditPosted(c, s, e, step)
  PROVE  Moves(c)
<1>1. UNCHANGED <<issued, crashed>>
  BY DEF AppendTo
<1>2. CASE Matches(expected, streams[s])
  <2>1. Posts(c, s, e, step)
    BY <1>2 DEF AppendTo, Goto, Posts
  <2> QED
    BY <1>1, <2>1 DEF Moves, StateInv
<1>3. CASE ~ Matches(expected, streams[s])
  BY <1>1, <1>3 DEF AppendTo, Moves, StateInv, Frame
<1> QED
  BY <1>2, <1>3

LEMMA NothingIsGood ==
  ASSUME NEW q, q \in Seq(Range(q))
  PROVE  /\ Nothing.loan \in LoanType /\ Nothing.loan.ok
         /\ Nothing.loan.version \in 0..Len(q)
         /\ Nothing.loan.version = Len(q) => Nothing.loan = LoanOf(q)
<1>1. Nothing.loan = NewLoan /\ NewLoan.version = 0 /\ NewLoan.ok
  BY DEF Nothing, NewLoan
<1>2. NewLoan \in LoanType
  BY DEF NewLoan, LoanType, States
<1>3. Len(q) \in Nat /\ (Len(q) = 0 => q = <<>>)
  BY LenProperties, EmptySeq
<1> QED
  BY <1>1, <1>2, <1>3, LoanOfEmpty

(* The loan stream after an append. *)
LEMMA PostedLoan ==
  ASSUME LoanInv, NEW c, NEW s, NEW e, NEW step, Posts(c, s, e, step)
  PROVE  /\ s # "loan" => streams'["loan"] = streams["loan"] /\ Loan' = Loan
         /\ s = "loan" => /\ streams'["loan"] = Append(streams["loan"], e)
                          /\ Loan' = ApplyToLoan(Loan, e)
                          /\ Len(streams'["loan"]) = Len(streams["loan"]) + 1
<1>1. s \in StreamIds /\ streams' = [streams EXCEPT ![s] = Append(@, e)]
  BY DEF Posts
<1>2. DOMAIN streams = StreamIds /\ "loan" \in StreamIds
  BY SessionsApart DEF LoanInv, StoreInv, WellFormed
<1>3. CASE s # "loan"
  BY <1>1, <1>2, <1>3 DEF Loan
<1>4. CASE s = "loan"
  <2>1. streams'["loan"] = Append(streams["loan"], e)
    BY <1>1, <1>2, <1>4
  <2>2. streams["loan"] \in Seq(Range(streams["loan"]))
    BY LoanSeq
  <2> QED
    BY <1>4, <2>1, <2>2, LoanOfNext, AppendFacts DEF Loan
<1> QED
  BY <1>3, <1>4

(* An append makes what others have seen of the loan out of date. *)
LEMMA SeenKept ==
  ASSUME LoanInv, NEW what, NEW step, GoodSeen(what, step),
         \/ streams'["loan"] = streams["loan"]
         \/ Len(streams'["loan"]) = Len(streams["loan"]) + 1
  PROVE  GoodSeen(what, step)'
<1>1. what.loan.version \in 0..Len(streams["loan"]) /\ Len(streams["loan"]) \in Nat
  BY LoanSeq DEF GoodSeen
<1>2. CASE streams'["loan"] = streams["loan"]
  BY <1>2 DEF GoodSeen, Loan
<1>3. CASE Len(streams'["loan"]) = Len(streams["loan"]) + 1
  BY <1>1, <1>3 DEF GoodSeen
<1> QED
  BY <1>2, <1>3

LEMMA StateNext ==
  ASSUME LoanInv, LoanInv', StateInv, NEW c \in Clients, Moves(c)
  PROVE  StateInv'
<1>0. /\ pc = [d \in Clients |-> pc[d]] /\ cmd = [d \in Clients |-> cmd[d]]
      /\ seen = [d \in Clients |-> seen[d]]
      /\ \A d \in Clients : /\ pc[d] \in Steps /\ GoodSeen(seen[d], pc[d])
                            /\ pc[d] = "idle" => cmd[d] = NoCommand
  BY DEF StateInv, LoanInv, CallInv
<1>1. issued' \in 0..MaxCommands /\ crashed' \in 0..MaxCrashes
  BY DEF Moves, StateInv
<1>2. streams'["loan"] \in Seq(Range(streams'["loan"]))
  BY SessionsApart DEF LoanInv, StoreInv, WellFormed
<1>3. /\ Nothing.loan \in LoanType /\ Nothing.loan.ok
      /\ Nothing.loan.version \in 0..Len(streams'["loan"])
      /\ Nothing.loan.version = Len(streams'["loan"]) => Nothing.loan = LoanOf(streams'["loan"])
  BY <1>2, NothingIsGood
<1>4. GoodSeen(Nothing, "idle")'
  BY <1>3 DEF GoodSeen, Loan, BridgeSteps
<1>5. ASSUME NEW step \in Steps, NEW what, GoodSeen(what, step)',
             pc' = [pc EXCEPT ![c] = step], seen' = [seen EXCEPT ![c] = what],
             (cmd' = cmd /\ step # "idle") \/ cmd' = [cmd EXCEPT ![c] = NoCommand],
             \A d \in Clients : d # c => GoodSeen(seen[d], pc[d])'
      PROVE  /\ seen' = [d \in Clients |-> seen'[d]]
             /\ \A d \in Clients : /\ pc'[d] \in Steps
                                   /\ pc'[d] = "idle" => cmd'[d] = NoCommand
                                   /\ GoodSeen(seen[d], pc[d])'
  <2>1. /\ pc'[c] = step /\ seen'[c] = what
        /\ \A d \in Clients : d # c => pc'[d] = pc[d] /\ seen'[d] = seen[d] /\ cmd'[d] = cmd[d]
        /\ seen' = [d \in Clients |-> seen'[d]]
        /\ step = "idle" => cmd'[c] = NoCommand
    BY <1>0, <1>5
  <2>2. GoodSeen(seen[c], pc[c])'
    BY <1>5, <2>1 DEF GoodSeen
  <2> QED
    BY <1>0, <1>5, <2>1, <2>2
<1>6. ASSUME streams'["loan"] = streams["loan"]
      PROVE  /\ Shape(streams["loan"])'
             /\ AtMostOne(OfType(streams["loan"], "ComplianceReviewStarted"))'
  BY <1>6 DEF StateInv
<1>7. ASSUME \/ streams'["loan"] = streams["loan"]
             \/ Len(streams'["loan"]) = Len(streams["loan"]) + 1,
             NEW step, pc' = [pc EXCEPT ![c] = step],
             NEW what, seen' = [seen EXCEPT ![c] = what],
             NEW d \in Clients, d # c
      PROVE  GoodSeen(seen[d], pc[d])'
  <2>1. pc'[d] = pc[d] /\ seen'[d] = seen[d] /\ GoodSeen(seen[d], pc[d])
    BY <1>0, <1>7
  <2>2. \A w, p : GoodSeen(w, p) => GoodSeen(w, p)'
    BY <1>7, SeenKept
  <2> QED
    BY <2>1, <2>2 DEF GoodSeen
<1>8. CASE Frame /\ Finish(c)
  <2>1. /\ pc' = [pc EXCEPT ![c] = "idle"] /\ cmd' = [cmd EXCEPT ![c] = NoCommand]
        /\ seen' = [seen EXCEPT ![c] = Nothing]
        /\ streams'["loan"] = streams["loan"] /\ "idle" \in Steps
    BY <1>8 DEF Finish, Frame, Steps
  <2>2. \A d \in Clients : d # c => GoodSeen(seen[d], pc[d])'
    BY <1>7, <2>1
  <2> QED
    BY <1>1, <1>4, <1>5, <1>6, <2>1, <2>2 DEF StateInv
<1>9. ASSUME NEW what, NEW step, Loads(c, what, step) PROVE StateInv'
  <2>1. /\ pc' = [pc EXCEPT ![c] = step] /\ cmd' = cmd /\ seen' = [seen EXCEPT ![c] = what]
        /\ streams'["loan"] = streams["loan"] /\ step \in Steps /\ step # "idle"
        /\ GoodSeen(what, step)
    BY <1>9 DEF Loads, Frame
  <2>2. \A d \in Clients : d # c => GoodSeen(seen[d], pc[d])'
    BY <1>7, <2>1
  <2>3. GoodSeen(what, step)'
    BY <2>1, SeenKept
  <2> QED
    BY <1>1, <1>5, <1>6, <2>1, <2>2, <2>3 DEF StateInv
<1>10. ASSUME NEW s, NEW e, NEW step, Posts(c, s, e, step) PROVE StateInv'
  <2>1. /\ s # "loan" => streams'["loan"] = streams["loan"] /\ Loan' = Loan
        /\ s = "loan" => /\ streams'["loan"] = Append(streams["loan"], e)
                         /\ Loan' = ApplyToLoan(Loan, e)
                         /\ Len(streams'["loan"]) = Len(streams["loan"]) + 1
    BY <1>10, PostedLoan
  <2>2. /\ Shape(streams["loan"])'
        /\ AtMostOne(OfType(streams["loan"], "ComplianceReviewStarted"))'
    <3>1. CASE s # "loan"
      BY <1>6, <2>1, <3>1
    <3>2. CASE s = "loan"
      <4> DEFINE q == streams["loan"]
      <4>1. /\ e.type \in LoanEvents /\ Loan.ok /\ q \in Seq(Range(q)) /\ Shape(q)
            /\ e.type = "ComplianceReviewStarted" => Loan.state = "ANALYSIS_COMPLETE"
            /\ AtMostOne(OfType(q, "ComplianceReviewStarted"))
        BY <1>10, <3>2, LoanSeq DEF Posts, StateInv
      <4>0. q = streams["loan"] /\ Loan = LoanOf(q)
        BY DEF Loan
      <4> HIDE DEF q
      <4>2. Shape(Append(q, e))
        BY <4>1, ShapeStep
      <4>3. e.type = "ComplianceReviewStarted" => OfType(q, "ComplianceReviewStarted") = {}
        BY <4>0, <4>1 DEF Shape, BeforeReview
      <4>4. OfType(Append(q, e), "ComplianceReviewStarted") =
              IF e.type = "ComplianceReviewStarted"
              THEN OfType(q, "ComplianceReviewStarted") \cup {Len(q) + 1}
              ELSE OfType(q, "ComplianceReviewStarted")
        BY <4>1, OfTypeAppend
      <4>5. AtMostOne(OfType(Append(q, e), "ComplianceReviewStarted"))
        BY <4>1, <4>3, <4>4 DEF AtMostOne
      <4> QED
        BY <2>1, <3>2, <4>0, <4>2, <4>5
    <3> QED
      BY <3>1, <3>2
  <2>3. CASE step = "idle"
    <3>1. /\ pc' = [pc EXCEPT ![c] = "idle"] /\ cmd' = [cmd EXCEPT ![c] = NoCommand]
          /\ seen' = [seen EXCEPT ![c] = Nothing] /\ "idle" \in Steps
      BY <1>10, <2>3 DEF Posts, Finish, Steps
    <3>2. \A d \in Clients : d # c => GoodSeen(seen[d], pc[d])'
      BY <1>7, <2>1, <3>1
    <3> QED
      BY <1>1, <1>4, <1>5, <2>2, <3>1, <3>2 DEF StateInv
  <2>4. CASE step # "idle"
    <3>0. PICK what : what = seen[c]
      OBVIOUS
    <3>1. /\ pc' = [pc EXCEPT ![c] = step] /\ cmd' = cmd /\ step \in Steps \ BridgeSteps
          /\ seen' = [seen EXCEPT ![c] = what]
      BY <1>0, <1>10, <2>4, <3>0 DEF Posts
    <3>2. GoodSeen(what, step)
      BY <1>0, <3>0, <3>1 DEF GoodSeen
    <3>3. GoodSeen(what, step)'
      BY <2>1, <3>2, SeenKept
    <3>4. \A d \in Clients : d # c => GoodSeen(seen[d], pc[d])'
      BY <1>7, <2>1, <3>1
    <3> QED
      BY <1>1, <1>5, <2>2, <2>4, <3>1, <3>3, <3>4 DEF StateInv
  <2> QED
    BY <2>3, <2>4
<1> QED
  BY <1>8, <1>9, <1>10 DEF Moves

(* The copies of the screenings *)

UpTo(s, gp) == {i \in Screened(s) : streams[s][i].gp <= gp}

LEMMA ScreenedFinite ==
  ASSUME LoanInv, NEW s \in StreamIds
  PROVE  /\ IsFiniteSet(Screened(s)) /\ Cardinality(Screened(s)) \in Nat
         /\ \A gp : IsFiniteSet(UpTo(s, gp)) /\ Cardinality(UpTo(s, gp)) \in Nat
<1>1. Len(streams[s]) \in Nat /\ DOMAIN streams[s] = 1..Len(streams[s])
  BY LoanSeq, AppendFacts
<1>2. IsFiniteSet(1..Len(streams[s]))
  BY <1>1, FS_Interval
<1>3. Screened(s) \subseteq 1..Len(streams[s])
  BY <1>1 DEF Screened, OfType
<1>4. IsFiniteSet(Screened(s)) /\ \A gp : IsFiniteSet(UpTo(s, gp))
  <2>1. IsFiniteSet(Screened(s))
    BY <1>2, <1>3, FS_Subset
  <2>2. \A gp : UpTo(s, gp) \subseteq Screened(s)
    BY DEF UpTo
  <2> QED
    BY <2>1, <2>2, FS_Subset
<1> QED
  BY <1>4, FS_CardinalityType

(* Up to the last position, that is all of them. *)
LEMMA UpToClock ==
  ASSUME LoanInv, NEW s \in StreamIds
  PROVE  UpTo(s, clock) = Screened(s) /\ (clock = 0 => Screened(s) = {})
<1>1. \A i \in DOMAIN streams[s] : streams[s][i].gp \in 1..clock
  BY DEF LoanInv, StoreInv, WellFormed
<1>2. clock \in Nat /\ Screened(s) \subseteq DOMAIN streams[s]
  BY LoanSeq DEF Screened, OfType
<1> QED
  BY <1>1, <1>2 DEF UpTo

LEMMA FollowsByCount ==
  ASSUME NEW last \in Nat
  PROVE  ScreeningsFollow(streams, last) <=>
           \A s \in Copies : \A gp \in 1..last :
             Cardinality(UpTo(s, gp)) <= Cardinality(UpTo("loan", gp))
BY DEF ScreeningsFollow, Copies, UpTo, Screened

LEMMA FollowsByCountNext ==
  ASSUME NEW last \in Nat
  PROVE  ScreeningsFollow(streams', last) <=>
           \A s \in Copies : \A gp \in 1..last :
             Cardinality(UpTo(s, gp)') <= Cardinality(UpTo("loan", gp)')
BY DEF ScreeningsFollow, Copies, UpTo, Screened

LEMMA PostedScreenings ==
  ASSUME LoanInv, NEW c, NEW s, NEW e, NEW step, Posts(c, s, e, step), NEW t \in StreamIds
  PROVE  /\ e.type = "FraudScreeningCompleted" /\ t = s =>
              /\ Screened(t)' = Screened(t) \cup {Len(streams[t]) + 1}
              /\ Cardinality(Screened(t)') = Cardinality(Screened(t)) + 1
         /\ ~ (e.type = "FraudScreeningCompleted" /\ t = s) => Screened(t)' = Screened(t)
         /\ \A gp \in 1..clock : UpTo(t, gp)' = UpTo(t, gp)
<1> DEFINE q == streams[t]
           F == "FraudScreeningCompleted"
<1>1. /\ streams' = [streams EXCEPT ![s] = Append(@, e)] /\ s \in StreamIds /\ e.gp = clock + 1
      /\ DOMAIN streams = StreamIds
  BY DEF Posts, LoanInv, StoreInv, WellFormed
<1>2. CASE t # s
  <2>1. streams'[t] = streams[t]
    BY <1>1, <1>2
  <2> QED
    BY <1>2, <2>1 DEF Screened, UpTo
<1>3. CASE t = s
  <2>1. streams'[t] = Append(q, e)
    BY <1>1, <1>3
  <2>2. /\ q \in Seq(Range(q)) /\ clock \in Nat
        /\ \A i \in DOMAIN q : q[i].gp \in 1..clock
        /\ IsFiniteSet(Screened(t))
        /\ Screened(t) = OfType(q, F) /\ Screened(t)' = OfType(streams'[t], F)
        /\ \A gp : UpTo(t, gp) = {i \in OfType(q, F) : q[i].gp <= gp}
        /\ \A gp : UpTo(t, gp)' = {i \in OfType(streams'[t], F) : streams'[t][i].gp <= gp}
    BY LoanSeq, ScreenedFinite DEF Screened, UpTo, LoanInv, StoreInv, WellFormed
  <2>q. PICK r : r = q
    OBVIOUS
  <2>3. OfType(Append(r, e), F) = IF e.type = F THEN OfType(r, F) \cup {Len(r) + 1} ELSE OfType(r, F)
    <3>1. r \in Seq(Range(r))
      BY <2>2, <2>q
    <3> HIDE DEF F
    <3> QED
      BY <3>1, OfTypeAppend
  <2>4. /\ Len(r) \in Nat /\ DOMAIN r = 1..Len(r)
        /\ \A i \in 1..Len(r) : Append(r, e)[i] = r[i]
        /\ Append(r, e)[Len(r) + 1] = e
    BY <2>2, <2>q, AppendFacts
  <2>5. OfType(r, F) \subseteq 1..Len(r) /\ Len(r) + 1 \notin 1..Len(r)
    BY <2>4 DEF OfType
  <2>6. ASSUME NEW gp \in 1..clock PROVE UpTo(t, gp)' = UpTo(t, gp)
    <3>1. ~ (e.gp <= gp)
      BY <1>1, <2>2
    <3>2. {i \in OfType(Append(r, e), F) : Append(r, e)[i].gp <= gp} = {i \in OfType(r, F) : r[i].gp <= gp}
      BY <2>3, <2>4, <2>5, <3>1
    <3> QED
      BY <2>1, <2>2, <2>q, <3>2
  <2>7. CASE e.type = F
    <3>1. Screened(t)' = Screened(t) \cup {Len(q) + 1} /\ Len(q) + 1 \notin Screened(t)
      BY <2>1, <2>2, <2>q, <2>3, <2>5, <2>7
    <3> QED
      BY <1>3, <2>2, <2>6, <2>7, <3>1, FS_AddElement
  <2>8. CASE e.type # F
    BY <2>1, <2>2, <2>q, <2>3, <2>6, <2>8
  <2> QED
    BY <2>7, <2>8
<1> QED
  BY <1>2, <1>3

LEMMA OwedFinite ==
  ASSUME CopiesInv, NEW s \in Copies, NEW more
  PROVE  /\ Cardinality(Owing(s)) \in Nat
         /\ \A T \in SUBSET Owing(s) : IsFiniteSet(T) /\ Cardinality(T) \in Nat
                                       /\ Cardinality(T) <= Cardinality(Owing(s))
         /\ \A T \in SUBSET (Owing(s) \cup {more}) :
              IsFiniteSet(T) /\ Cardinality(T) \in Nat /\ Cardinality(T) <= Cardinality(Owing(s)) + 1
<1>1. IsFiniteSet(Owing(s))
  BY DEF CopiesInv
<1>2. /\ Cardinality(Owing(s)) \in Nat
      /\ IsFiniteSet(Owing(s) \cup {more}) /\ Cardinality(Owing(s) \cup {more}) \in Nat
      /\ Cardinality(Owing(s) \cup {more}) <= Cardinality(Owing(s)) + 1
  <2>1. IsFiniteSet(Owing(s) \cup {more}) /\ Cardinality(Owing(s)) \in Nat
    BY <1>1, FS_AddElement, FS_CardinalityType
  <2> QED
    BY <1>1, <2>1, FS_AddElement, FS_CardinalityType
<1>3. \A S : IsFiniteSet(S) => \A T \in SUBSET S :
         IsFiniteSet(T) /\ Cardinality(T) \in Nat /\ Cardinality(T) <= Cardinality(S)
  BY FS_Subset, FS_CardinalityType
<1>4. \A T \in SUBSET (Owing(s) \cup {more}) :
         IsFiniteSet(T) /\ Cardinality(T) \in Nat /\ Cardinality(T) <= Cardinality(Owing(s)) + 1
  <2> TAKE T \in SUBSET (Owing(s) \cup {more})
  <2>1. /\ IsFiniteSet(T) /\ Cardinality(T) \in Nat
        /\ Cardinality(T) <= Cardinality(Owing(s) \cup {more})
    BY <1>2, <1>3
  <2> QED
    BY <1>2, <2>1
<1> QED
  BY <1>1, <1>2, <1>3, <1>4

LEMMA OwingMoves ==
  ASSUME LoanInv, NEW c \in Clients, NEW step, NEW t \in Copies,
         pc' = [pc EXCEPT ![c] = step],
         cmd' = cmd \/ (step = "idle" /\ cmd' = [cmd EXCEPT ![c] = NoCommand])
  PROVE  /\ Owing(t)' \subseteq Owing(t) \cup {c}
         /\ (step = "idle" \/ NothingNewDue(c, step)) => Owing(t)' \subseteq Owing(t)
         /\ ~ DueAt(step, cmd[c], t) => c \notin Owing(t)'
<1>1. /\ pc'[c] = step /\ (cmd'[c] = cmd[c] \/ step = "idle")
      /\ \A d \in Clients : d # c => pc'[d] = pc[d] /\ cmd'[d] = cmd[d]
  BY DEF LoanInv, CallInv
<1>2. step = "idle" => \A command : ~ DueAt(step, command, t)
  BY DEF DueAt, SummarySteps, MirrorSteps
<1>3. \A d \in Clients : d # c => (DueAt(pc'[d], cmd'[d], t) <=> DueAt(pc[d], cmd[d], t))
  BY <1>1
<1>4. DueAt(pc'[c], cmd'[c], t) => DueAt(step, cmd[c], t)
  BY <1>1, <1>2
<1>5. Owing(t)' = {d \in Clients : DueAt(pc'[d], cmd'[d], t)}
  BY DEF Owing, DueAt
<1>6. Owing(t) = {d \in Clients : DueAt(pc[d], cmd[d], t)}
  BY DEF Owing
<1>7. (step = "idle" \/ NothingNewDue(c, step)) /\ DueAt(step, cmd[c], t) => DueAt(pc[c], cmd[c], t)
  BY <1>2 DEF NothingNewDue
<1> QED
  BY <1>3, <1>4, <1>5, <1>6, <1>7

LEMMA CopiesNext ==
  ASSUME LoanInv, LoanInv', StateInv, CopiesInv, NEW c \in Clients, Moves(c)
  PROVE  CopiesInv'
<1> DEFINE Covered(t) == /\ IsFiniteSet(Owing(t)')
                         /\ Cardinality(Screened(t)') + Cardinality(Owing(t)')
                              <= Cardinality(Screened("loan")')
<1>0. "loan" \in StreamIds /\ Copies \subseteq StreamIds /\ "loan" \notin Copies
  BY SessionsApart DEF Copies
<1>1. \A t \in Copies : Cardinality(Screened(t)) + Cardinality(Owing(t)) <= Cardinality(Screened("loan"))
  BY DEF CopiesInv
<1>2. \A t \in StreamIds : Cardinality(Screened(t)) \in Nat
  BY ScreenedFinite
<1>3. \A t \in Copies : \A T \in SUBSET Owing(t) :
         /\ IsFiniteSet(T) /\ Cardinality(T) \in Nat /\ Cardinality(T) <= Cardinality(Owing(t))
         /\ Cardinality(Owing(t)) \in Nat
  BY OwedFinite
<1>4. ASSUME UNCHANGED <<streams, clock>>, NEW step, pc' = [pc EXCEPT ![c] = step],
             step = "idle" \/ NothingNewDue(c, step),
             cmd' = cmd \/ (step = "idle" /\ cmd' = [cmd EXCEPT ![c] = NoCommand])
      PROVE  CopiesInv'
  <2>1. \A t \in StreamIds : Screened(t)' = Screened(t)
    BY <1>4 DEF Screened
  <2>2. \A t \in Copies : Owing(t)' \subseteq Owing(t)
    BY <1>4, OwingMoves
  <2>3. ASSUME NEW t \in Copies PROVE Covered(t)
    <3>1. /\ IsFiniteSet(Owing(t)') /\ Cardinality(Owing(t)') \in Nat
          /\ Cardinality(Owing(t)') <= Cardinality(Owing(t)) /\ Cardinality(Owing(t)) \in Nat
      BY <1>3, <2>2
    <3>2. Screened(t)' = Screened(t) /\ Screened("loan")' = Screened("loan")
      BY <1>0, <2>1
    <3>3. Cardinality(Screened(t)) \in Nat /\ Cardinality(Screened("loan")) \in Nat
      BY <1>0, <1>2
    <3> QED
      BY <1>1, <3>1, <3>2, <3>3
  <2>4. ScreeningsFollow(streams', clock')
    BY <1>4 DEF CopiesInv
  <2> QED
    BY <2>3, <2>4 DEF CopiesInv
<1>5. CASE Frame /\ Finish(c)
  BY <1>4, <1>5 DEF Frame, Finish
<1>6. ASSUME NEW what, NEW step, Loads(c, what, step) PROVE CopiesInv'
  BY <1>4, <1>6 DEF Loads, Frame
<1>7. ASSUME NEW s, NEW e, NEW step, Posts(c, s, e, step) PROVE CopiesInv'
  <2> DEFINE F == "FraudScreeningCompleted"
  <2>1. /\ pc' = [pc EXCEPT ![c] = step]
        /\ cmd' = cmd \/ (step = "idle" /\ cmd' = [cmd EXCEPT ![c] = NoCommand])
        /\ clock' = clock + 1 /\ clock \in Nat /\ s \in StreamIds
    BY <1>7, LoanSeq DEF Posts, Finish
  <2>2. \A t \in StreamIds :
          /\ e.type = F /\ t = s => Cardinality(Screened(t)') = Cardinality(Screened(t)) + 1
          /\ ~ (e.type = F /\ t = s) => Screened(t)' = Screened(t)
          /\ \A gp \in 1..clock : UpTo(t, gp)' = UpTo(t, gp)
    BY <1>7, PostedScreenings
  <2>3. ASSUME NEW t \in Copies PROVE Covered(t)
    <3>0. t \in StreamIds /\ Cardinality(Screened(t)) \in Nat /\ Cardinality(Screened("loan")) \in Nat
          /\ Cardinality(Owing(t)) \in Nat
      BY <1>0, <1>2, <1>3
    <3>1. CASE e.type # F \/ (s # "loan" /\ s # t)
      <4>1. step = "idle" \/ NothingNewDue(c, step)
        BY <1>7, <3>1 DEF Posts
      <4>2. Owing(t)' \subseteq Owing(t)
        BY <2>1, <4>1, OwingMoves
      <4>3. Screened(t)' = Screened(t) /\ Screened("loan")' = Screened("loan")
        BY <1>0, <2>2, <3>0, <3>1
      <4>4. /\ IsFiniteSet(Owing(t)') /\ Cardinality(Owing(t)') \in Nat
            /\ Cardinality(Owing(t)') <= Cardinality(Owing(t))
        BY <1>3, <4>2
      <4> QED
        BY <1>1, <3>0, <4>3, <4>4
    <3>2. CASE e.type = F /\ s = "loan"
      <4>1. Owing(t)' \subseteq Owing(t) \cup {c}
        BY <2>1, OwingMoves
      <4>2. /\ Screened(t)' = Screened(t)
            /\ Cardinality(Screened("loan")') = Cardinality(Screened("loan")) + 1
        BY <1>0, <2>2, <3>0, <3>2
      <4>3. /\ IsFiniteSet(Owing(t)') /\ Cardinality(Owing(t)') \in Nat
            /\ Cardinality(Owing(t)') <= Cardinality(Owing(t)) + 1
        BY <4>1, OwedFinite
      <4> QED
        BY <1>1, <3>0, <4>2, <4>3
    <3>3. CASE e.type = F /\ s = t
      <4>1. /\ s # "loan" /\ DueAt(pc[c], cmd[c], t) /\ ~ DueAt(step, cmd[c], t)
            /\ NothingNewDue(c, step)
        BY <1>0, <1>7, <3>3 DEF Posts
      <4>2. Owing(t)' \subseteq Owing(t) /\ c \notin Owing(t)' /\ c \in Owing(t)
        BY <2>1, <4>1, OwingMoves DEF Owing
      <4>3. Owing(t)' \in SUBSET (Owing(t) \ {c}) /\ IsFiniteSet(Owing(t))
        BY <4>2 DEF CopiesInv
      <4>4. /\ IsFiniteSet(Owing(t) \ {c})
            /\ Cardinality(Owing(t) \ {c}) = Cardinality(Owing(t)) - 1
        BY <4>2, <4>3, FS_RemoveElement
      <4>5. /\ IsFiniteSet(Owing(t)') /\ Cardinality(Owing(t)') \in Nat
            /\ Cardinality(Owing(t)') <= Cardinality(Owing(t)) - 1
        BY <4>3, <4>4, FS_Subset, FS_CardinalityType
      <4>6. /\ Cardinality(Screened(t)') = Cardinality(Screened(t)) + 1
            /\ Screened("loan")' = Screened("loan")
        BY <1>0, <2>2, <3>0, <3>3, <4>1
      <4> QED
        BY <1>1, <3>0, <4>5, <4>6
    <3> QED
      BY <3>1, <3>2, <3>3
  <2>4. ScreeningsFollow(streams', clock + 1)
    <3>1. ASSUME NEW t \in Copies, NEW gp \in 1..(clock + 1)
          PROVE  Cardinality(UpTo(t, gp)') <= Cardinality(UpTo("loan", gp)')
      <4>1. CASE gp \in 1..clock
        <5>1. UpTo(t, gp)' = UpTo(t, gp) /\ UpTo("loan", gp)' = UpTo("loan", gp)
          BY <1>0, <2>2, <4>1
        <5>2. Cardinality(UpTo(t, gp)) <= Cardinality(UpTo("loan", gp))
          BY <2>1, <4>1, FollowsByCount DEF CopiesInv
        <5> QED
          BY <5>1, <5>2
      <4>2. CASE gp = clock'
        <5>1. UpTo(t, gp)' = Screened(t)' /\ UpTo("loan", gp)' = Screened("loan")'
          <6>1. \A r \in StreamIds : \A i \in DOMAIN streams'[r] : streams'[r][i].gp \in 1..clock'
            BY DEF LoanInv, StoreInv, WellFormed
          <6> QED
            BY <1>0, <2>1, <4>2, <6>1 DEF UpTo, Screened, OfType
        <5>2. Covered(t) /\ Cardinality(Owing(t)') \in Nat
          BY <2>3, FS_CardinalityType
        <5>3. Cardinality(Screened(t)') \in Nat /\ Cardinality(Screened("loan")') \in Nat
          BY <1>0, <1>2, <2>2
        <5> QED
          BY <5>1, <5>2, <5>3
      <4> QED
        BY <2>1, <4>1, <4>2
    <3>2. clock + 1 \in Nat
      BY <2>1
    <3> QED
      BY <3>1, <3>2, FollowsByCountNext
  <2> QED
    BY <2>1, <2>3, <2>4 DEF CopiesInv
<1> QED
  BY <1>5, <1>6, <1>7 DEF Moves
-------------------------------------------------------------------------------
(* The steps of the handlers *)

LEMMA NothingIsDue ==
  ASSUME NEW c, NEW step, step \notin MirrorSteps
  PROVE  NothingNewDue(c, step)
BY DEF NothingNewDue, DueAt, MirrorSteps

LEMMA LoanRead ==
  ASSUME LoanInv, StateInv, NEW c \in Clients, NEW check, NEW what, NEW step,
         Read(c, check, what, step), what = [seen[c] EXCEPT !.loan = Loan], check => Loan.ok,
         step \in Steps \ {"idle"}, step \notin MirrorSteps,
         step \in BridgeSteps => (check => Loan.state = "ANALYSIS_COMPLETE"),
         step \in PendingSteps => pc[c] \in PendingSteps
  PROVE  Moves(c)
<1>1. GoodSeen(seen[c], pc[c]) /\ Shape(streams["loan"])
  BY DEF StateInv
<1>2. Loan \in LoanType /\ Loan.version \in 0..Len(streams["loan"])
  BY <1>1 DEF Shape, Loan
<1>3. what.loan = Loan /\ DOMAIN what = DOMAIN Nothing
  BY <1>1 DEF GoodSeen, Nothing
<1>4. check => GoodSeen(what, step)
  BY <1>2, <1>3 DEF GoodSeen
<1> QED
  BY <1>4, NothingIsDue, ReadMoves

(* A load of something else. *)
LEMMA OtherRead ==
  ASSUME LoanInv, StateInv, NEW c \in Clients, NEW check, NEW what, NEW step,
         Read(c, check, what, step), what.loan = seen[c].loan, DOMAIN what = DOMAIN seen[c],
         step \in Steps \ {"idle"}, NothingNewDue(c, step),
         step \in BridgeSteps => seen[c].loan.state = "ANALYSIS_COMPLETE",
         step \in PendingSteps => pc[c] \in PendingSteps
  PROVE  Moves(c)
<1>1. GoodSeen(what, step)
  BY DEF StateInv, GoodSeen
<1> QED
  BY <1>1, ReadMoves

LEMMA LoanReadsMove ==
  ASSUME LoanInv, StateInv, NEW c \in Clients,
         \/ SubmitLoad(c) \/ SubmitReload(c) \/ CreditLoadLoan(c) \/ CreditReloadLoan(c) \/ CreditCheckBridge(c)
         \/ FraudLoad(c) \/ FraudReloadLoan(c) \/ DecisionLoad(c) \/ DecisionReload(c)
         \/ RequestReviewLoad(c) \/ ReviewLoad(c) \/ ReviewReload(c)
  PROVE  Moves(c)
<1> DEFINE Leads(check, step) == Read(c, check, [seen[c] EXCEPT !.loan = Loan], step)
<1>1. ASSUME NEW check, NEW step, Leads(check, step), check => Loan.ok,
             step \in Steps \ {"idle"}, step \notin MirrorSteps,
             step \in BridgeSteps => (check => Loan.state = "ANALYSIS_COMPLETE"),
             step \in PendingSteps => pc[c] \in PendingSteps
      PROVE  Moves(c)
  BY <1>1, LoanRead
<1> HIDE DEF Leads
<1> USE DEF Steps, MirrorSteps, SummarySteps, BridgeSteps, PendingSteps
<1>2. CASE SubmitLoad(c)
  <2> DEFINE check == Loan.ok /\ Loan.version = 0 /\ Loan.state = "NONE"
  <2>1. Leads(check, "submit_append")
    BY <1>2 DEF Leads, SubmitLoad, LoadLoan
  <2> QED
    BY <1>1, <2>1
<1>3. CASE SubmitReload(c)
  <2> DEFINE check == Loan.ok /\ Always(Loan)
  <2>1. Leads(check, "submit_request")
    BY <1>3 DEF Leads, SubmitReload, LoadLoan
  <2> QED
    BY <1>1, <2>1
<1>4. CASE CreditLoadLoan(c)
  <2> DEFINE check == Loan.ok /\ Always(Loan)
  <2>1. Leads(check, "credit_load_session")
    BY <1>4 DEF Leads, CreditLoadLoan, LoadLoan
  <2> QED
    BY <1>1, <2>1
<1>5. CASE CreditReloadLoan(c)
  <2> DEFINE check == Loan.ok /\ Always(Loan)
  <2>1. Leads(check, "credit_append_loan") /\ pc[c] = "credit_reload_loan"
    BY <1>5 DEF Leads, CreditReloadLoan, LoadLoan
  <2> QED
    BY <1>1, <2>1
<1>6. CASE CreditCheckBridge(c)
  <2> DEFINE check == Loan.ok /\ Loan.state = "ANALYSIS_COMPLETE"
  <2>1. Leads(check, "append_bridge")
    BY <1>6 DEF Leads, CreditCheckBridge, LoadLoan
  <2> QED
    BY <1>1, <2>1
<1>7. CASE FraudLoad(c)
  <2> DEFINE check == Loan.ok /\ Loan.state = "AWAITING_ANALYSIS"
  <2>1. Leads(check, "fraud_append_loan")
    BY <1>7 DEF Leads, FraudLoad, LoadLoan
  <2> QED
    BY <1>1, <2>1
<1>8. CASE FraudReloadLoan(c)
  <2> DEFINE check == Loan.ok /\ Loan.state = "ANALYSIS_COMPLETE"
  <2>1. Leads(check, "fraud_check_bridge")
    BY <1>8 DEF Leads, FraudReloadLoan, LoadLoan
  <2> QED
    BY <1>1, <2>1
<1>9. CASE DecisionLoad(c)
  <2> DEFINE check == Loan.ok /\ Always(Loan)
  <2>1. Leads(check, "decision_validate")
    BY <1>9 DEF Leads, DecisionLoad, LoadLoan
  <2> QED
    BY <1>1, <2>1
<1>10. CASE DecisionReload(c)
  <2> DEFINE check == Loan.ok /\ Always(Loan)
  <2>1. Leads(check, "decision_append")
    BY <1>10 DEF Leads, DecisionReload, LoadLoan
  <2> QED
    BY <1>1, <2>1
<1>11. CASE RequestReviewLoad(c)
  <2> DEFINE check == Loan.ok /\ Always(Loan)
  <2>1. Leads(check, "request_review_append")
    BY <1>11 DEF Leads, RequestReviewLoad, LoadLoan
  <2> QED
    BY <1>1, <2>1
<1>12. CASE ReviewLoad(c)
  <2> DEFINE check == Loan.ok /\ Always(Loan)
  <2>1. Leads(check, "review_append")
    BY <1>12 DEF Leads, ReviewLoad, LoadLoan
  <2> QED
    BY <1>1, <2>1
<1>13. CASE ReviewReload(c)
  <2> DEFINE check == Loan.ok /\ Always(Loan)
  <2>1. Leads(check, "review_gate")
    BY <1>13 DEF Leads, ReviewReload, LoadLoan
  <2> QED
    BY <1>1, <2>1
<1> QED
  BY <1>2, <1>3, <1>4, <1>5, <1>6, <1>7, <1>8, <1>9, <1>10, <1>11, <1>12, <1>13

LEMMA OtherReadsMove ==
  ASSUME LoanInv, StateInv, NEW c \in Clients,
         \/ StartLoad(c) \/ CreditLoadSession(c) \/ CreditLoadLoanEvents(c) \/ CreditValidate(c)
         \/ CreditAnchorId(c) \/ CreditReloadAgent(c) \/ CreditId(c) \/ FraudId(c)
         \/ FraudSummaryVersion(c) \/ FraudLoadAgent(c) \/ FraudCheckBridge(c) \/ ComplianceLoad(c)
         \/ ComplianceReload(c) \/ DecisionValidateCausalChain(c) \/ ReviewGate(c)
  PROVE  Moves(c)
<1> DEFINE Leads(from, step) ==
             /\ pc[c] = from
             /\ \E check, what : /\ Read(c, check, what, step)
                                /\ what.loan = seen[c].loan /\ DOMAIN what = DOMAIN seen[c]
<1>1. ASSUME NEW from, NEW step, Leads(from, step), step \in Steps \ {"idle"},
             step \in MirrorSteps => from \in MirrorSteps /\ (step \in SummarySteps => from \in SummarySteps),
             step \in BridgeSteps => from \in BridgeSteps,
             step \in PendingSteps => from \in PendingSteps
      PROVE  Moves(c)
  <2>1. NothingNewDue(c, step)
    BY <1>1 DEF NothingNewDue, DueAt, MirrorSteps
  <2>2. step \in BridgeSteps => seen[c].loan.state = "ANALYSIS_COMPLETE"
    BY <1>1 DEF StateInv, GoodSeen
  <2> QED
    BY <1>1, <2>1, <2>2, OtherRead
<1>2. DOMAIN seen[c] = DOMAIN Nothing
  BY DEF StateInv, GoodSeen
<1>3. DOMAIN seen[c] = {"loan", "agent", "version", "lastCredit", "overridden", "passes", "cause"}
  BY <1>2 DEF Nothing
<1>4. /\ \A x : LET w == [seen[c] EXCEPT !.agent = x] IN w.loan = seen[c].loan /\ DOMAIN w = DOMAIN seen[c]
      /\ \A x : LET w == [seen[c] EXCEPT !.cause = x] IN w.loan = seen[c].loan /\ DOMAIN w = DOMAIN seen[c]
      /\ \A x : LET w == [seen[c] EXCEPT !.version = x] IN w.loan = seen[c].loan /\ DOMAIN w = DOMAIN seen[c]
      /\ \A x : LET w == [seen[c] EXCEPT !.lastCredit = x] IN w.loan = seen[c].loan /\ DOMAIN w = DOMAIN seen[c]
      /\ \A x : LET w == [seen[c] EXCEPT !.overridden = x] IN w.loan = seen[c].loan /\ DOMAIN w = DOMAIN seen[c]
      /\ \A x : LET w == [seen[c] EXCEPT !.version = x, !.passes = @ + 1]
               IN w.loan = seen[c].loan /\ DOMAIN w = DOMAIN seen[c]
  BY <1>3
<1> USE DEF Steps, MirrorSteps, SummarySteps, BridgeSteps, PendingSteps
<1>5. CASE StartLoad(c)
  <2>1. Leads("start", "start_append")
    BY <1>4, <1>5 DEF StartLoad
  <2> HIDE DEF Leads
  <2> QED
    BY <1>1, <2>1
<1>6. CASE CreditLoadSession(c)
  <2>1. Leads("credit_load_session", "credit_load_loan_events")
    BY <1>4, <1>6 DEF CreditLoadSession
  <2> HIDE DEF Leads
  <2> QED
    BY <1>1, <2>1
<1>7. CASE CreditLoadLoanEvents(c)
  <2> DEFINE got == \E i \in OfType(streams["loan"], "HumanReviewCompleted") :
                       /\ streams["loan"][i].override
                       /\ streams["loan"][i].gp > seen[c].lastCredit
             check == TRUE
             what == [seen[c] EXCEPT !.overridden = got]
  <2>1. pc[c] = "credit_load_loan_events" /\ Read(c, check, what, "credit_validate")
    BY <1>7 DEF CreditLoadLoanEvents
  <2>2. what.loan = seen[c].loan /\ DOMAIN what = DOMAIN seen[c]
    BY <1>4
  <2> HIDE DEF check, what
  <2>3. Leads("credit_load_loan_events", "credit_validate")
    BY <2>1, <2>2
  <2> HIDE DEF Leads
  <2> QED
    BY <1>1, <2>3
<1>8. CASE CreditValidate(c)
  <2>1. Leads("credit_validate", "credit_anchor") \/ Leads("credit_validate", "credit_append_agent")
    BY <1>4, <1>8 DEF CreditValidate
  <2> HIDE DEF Leads
  <2> QED
    BY <1>1, <2>1
<1>9. CASE CreditAnchorId(c)
  <2>1. Leads("credit_anchor_id", "credit_reload_agent")
    BY <1>4, <1>9 DEF CreditAnchorId, ReadLastEvent
  <2> HIDE DEF Leads
  <2> QED
    BY <1>1, <2>1
<1>10. CASE CreditReloadAgent(c)
  <2> DEFINE got == AgentOf(streams[cmd[c].session])
             check == got.ok /\ got.context /\ got.model = cmd[c].model
             what == [seen[c] EXCEPT !.agent = got]
  <2>1. pc[c] = "credit_reload_agent" /\ Read(c, check, what, "credit_append_agent")
    BY <1>10 DEF CreditReloadAgent
  <2>2. what.loan = seen[c].loan /\ DOMAIN what = DOMAIN seen[c]
    BY <1>4
  <2> HIDE DEF check, what
  <2>3. Leads("credit_reload_agent", "credit_append_agent")
    BY <2>1, <2>2
  <2> HIDE DEF Leads
  <2> QED
    BY <1>1, <2>3
<1>11. CASE CreditId(c)
  <2>1. Leads("credit_id", "credit_reload_loan")
    BY <1>4, <1>11 DEF CreditId, ReadLastEvent
  <2> HIDE DEF Leads
  <2> QED
    BY <1>1, <2>1
<1>12. CASE FraudId(c)
  <2>1. Leads("fraud_id", "fraud_summary_version")
    BY <1>4, <1>12 DEF FraudId, ReadLastEvent
  <2> HIDE DEF Leads
  <2> QED
    BY <1>1, <2>1
<1>13. CASE FraudSummaryVersion(c)
  <2>1. Leads("fraud_summary_version", "fraud_append_summary")
    BY <1>4, <1>13 DEF FraudSummaryVersion
  <2> HIDE DEF Leads
  <2> QED
    BY <1>1, <2>1
<1>14. CASE FraudLoadAgent(c)
  <2> DEFINE got == AgentOf(streams[cmd[c].mirror])
             check == got.ok /\ got.context
             what == [seen[c] EXCEPT !.agent = got]
  <2>1. pc[c] = "fraud_load_agent" /\ Read(c, check, what, "fraud_append_agent")
    BY <1>14 DEF FraudLoadAgent
  <2>2. what.loan = seen[c].loan /\ DOMAIN what = DOMAIN seen[c]
    BY <1>4
  <2> HIDE DEF check, what
  <2>3. Leads("fraud_load_agent", "fraud_append_agent")
    BY <2>1, <2>2
  <2> HIDE DEF Leads
  <2> QED
    BY <1>1, <2>3
<1>15. CASE FraudCheckBridge(c)
  <2>1. Leads("fraud_check_bridge", "append_bridge")
    BY <1>4, <1>15 DEF FraudCheckBridge
  <2> HIDE DEF Leads
  <2> QED
    BY <1>1, <2>1
<1>16. CASE ComplianceLoad(c)
  <2>1. Leads("compliance", "compliance_append_request")
    BY <1>4, <1>16 DEF ComplianceLoad
  <2> HIDE DEF Leads
  <2> QED
    BY <1>1, <2>1
<1>17. CASE ComplianceReload(c)
  <2>1. Leads("compliance_reload", "compliance_append_pass")
    BY <1>4, <1>17 DEF ComplianceReload
  <2> HIDE DEF Leads
  <2> QED
    BY <1>1, <2>1
<1>18. CASE DecisionValidateCausalChain(c)
  <2>1. Leads("decision_validate", "decision_reload")
    BY <1>4, <1>18 DEF DecisionValidateCausalChain
  <2> HIDE DEF Leads
  <2> QED
    BY <1>1, <2>1
<1>19. CASE ReviewGate(c)
  <2>1. Leads("review_gate", "review_approve")
    BY <1>4, <1>19 DEF ReviewGate
  <2> HIDE DEF Leads
  <2> QED
    BY <1>1, <2>1
<1> QED
  BY <1>5, <1>6, <1>7, <1>8, <1>9, <1>10, <1>11, <1>12, <1>13, <1>14, <1>15, <1>16, <1>17, <1>18, <1>19

LEMMA LoanAppend ==
  ASSUME LoanInv, StateInv, NEW c \in Clients, NEW expected, NEW e, NEW step,
         AppendTo(c, "loan", expected, e, step),
         expected \in {seen[c].loan.version, OrNew(seen[c].loan.version)},
         e.gp = clock + 1, e.type \in LoanEvents,
         e.type = "ComplianceReviewStarted" => pc[c] = "append_bridge",
         step \in Steps \ BridgeSteps, step \notin MirrorSteps \/ step = "fraud_id",
         e.type = "FraudScreeningCompleted" <=> step = "fraud_id",
         CreditPosted(c, "loan", e, step)
  PROVE  Moves(c)
<1>1. Matches(expected, streams["loan"]) => Loan.ok /\ seen[c].loan = Loan
  BY Fenced
<1>2. pc[c] = "append_bridge" => seen[c].loan.state = "ANALYSIS_COMPLETE"
  BY DEF StateInv, GoodSeen, BridgeSteps
<1>3. step # "fraud_id" => NothingNewDue(c, step)
  BY NothingIsDue
<1>4. "loan" \in StreamIds
  BY SessionsApart
<1> QED
  BY <1>1, <1>2, <1>3, <1>4, AppendMoves

LEMMA LoanAppendsMove ==
  ASSUME LoanInv, StateInv, NEW c \in Clients,
         \/ SubmitAppend(c) \/ SubmitRequest(c) \/ CreditAppendLoan(c) \/ AppendBridge(c)
         \/ FraudAppendLoan(c) \/ DecisionAppend(c) \/ RequestReviewAppend(c)
         \/ ReviewAppend(c) \/ ReviewApprove(c)
  PROVE  Moves(c)
<1> DEFINE Leads(e, step) ==
             /\ \E expected \in {seen[c].loan.version, OrNew(seen[c].loan.version)} :
                  AppendTo(c, "loan", expected, e, step)
             /\ e.gp = clock + 1
<1>1. ASSUME NEW e, NEW step, Leads(e, step), e.type \in LoanEvents,
             e.type = "ComplianceReviewStarted" => pc[c] = "append_bridge",
             step \in Steps \ BridgeSteps, step \notin MirrorSteps \/ step = "fraud_id",
             e.type = "FraudScreeningCompleted" <=> step = "fraud_id",
             CreditPosted(c, "loan", e, step)
      PROVE  Moves(c)
  BY <1>1, LoanAppend
<1> USE DEF Steps, MirrorSteps, SummarySteps, BridgeSteps, PendingSteps, LoanEvents
<1>2. CASE SubmitAppend(c)
  <2> DEFINE e == Event("ApplicationSubmitted", 0)
             step == "submit_reload"
  <2>1. /\ Leads(e, step) /\ e.type = "ApplicationSubmitted"
    BY <1>2 DEF SubmitAppend, Event
  <2> HIDE DEF e, Leads
  <2>2. CreditPosted(c, "loan", e, step)
    BY <2>1 DEF CreditPosted
  <2> QED
    BY <1>1, <2>1, <2>2
<1>3. CASE SubmitRequest(c)
  <2> DEFINE e == Event("CreditAnalysisRequested", LastEvent("loan"))
             step == "idle"
  <2>1. /\ Leads(e, step) /\ e.type = "CreditAnalysisRequested"
    BY <1>3 DEF SubmitRequest, Event
  <2> HIDE DEF e, Leads
  <2>2. CreditPosted(c, "loan", e, step)
    BY <2>1 DEF CreditPosted
  <2> QED
    BY <1>1, <2>1, <2>2
<1>4. CASE CreditAppendLoan(c)
  <2> DEFINE e == Credit(cmd[c].session, cmd[c].model, seen[c].cause)
             step == "credit_check_bridge"
  <2>1. /\ Leads(e, step) /\ e.type = "CreditAnalysisCompleted"
        /\ pc[c] = "credit_append_loan"
        /\ e.session = cmd[c].session /\ e.model = cmd[c].model
    BY <1>4 DEF CreditAppendLoan, Credit
  <2> HIDE DEF e, Leads
  <2>2. CreditPosted(c, "loan", e, step)
    BY <2>1 DEF CreditPosted
  <2> QED
    BY <1>1, <2>1, <2>2
<1>5. CASE AppendBridge(c)
  <2> DEFINE e == Event("ComplianceReviewStarted", LastEvent("loan"))
             step == "idle"
  <2>1. /\ Leads(e, step) /\ e.type = "ComplianceReviewStarted"
        /\ pc[c] = "append_bridge"
    BY <1>5 DEF AppendBridge, Event
  <2> HIDE DEF e, Leads
  <2>2. CreditPosted(c, "loan", e, step)
    BY <2>1 DEF CreditPosted
  <2> QED
    BY <1>1, <2>1, <2>2
<1>6. CASE FraudAppendLoan(c)
  <2> DEFINE e == Event("FraudScreeningCompleted", 0)
             step == "fraud_id"
  <2>1. /\ Leads(e, step) /\ e.type = "FraudScreeningCompleted"
    BY <1>6 DEF FraudAppendLoan, Event
  <2> HIDE DEF e, Leads
  <2>2. CreditPosted(c, "loan", e, step)
    BY <2>1 DEF CreditPosted
  <2> QED
    BY <1>1, <2>1, <2>2
<1>7. CASE DecisionAppend(c)
  <2> DEFINE e == [type |-> "DecisionGenerated", gp |-> clock + 1,
                   cause |-> LastEvent("loan"), sessions |-> cmd[c].sessions]
             step == "idle"
  <2>1. /\ Leads(e, step) /\ e.type = "DecisionGenerated"
    BY <1>7 DEF DecisionAppend
  <2> HIDE DEF e, Leads
  <2>2. CreditPosted(c, "loan", e, step)
    BY <2>1 DEF CreditPosted
  <2> QED
    BY <1>1, <2>1, <2>2
<1>8. CASE RequestReviewAppend(c)
  <2> DEFINE e == Event("HumanReviewRequested", LastEvent("loan"))
             step == "idle"
  <2>1. /\ Leads(e, step) /\ e.type = "HumanReviewRequested"
    BY <1>8 DEF RequestReviewAppend, Event
  <2> HIDE DEF e, Leads
  <2>2. CreditPosted(c, "loan", e, step)
    BY <2>1 DEF CreditPosted
  <2> QED
    BY <1>1, <2>1, <2>2
<1>9. CASE ReviewAppend(c)
  <2> DEFINE e == [type |-> "HumanReviewCompleted", gp |-> clock + 1, cause |-> 0,
                   final |-> cmd[c].final, override |-> cmd[c].override]
             step == IF cmd[c].emit THEN "review_reload" ELSE "idle"
  <2>1. /\ Leads(e, step) /\ e.type = "HumanReviewCompleted"
    BY <1>9 DEF ReviewAppend
  <2> HIDE DEF e, Leads
  <2>2. CreditPosted(c, "loan", e, step)
    BY <2>1 DEF CreditPosted
  <2> QED
    BY <1>1, <2>1, <2>2
<1>10. CASE ReviewApprove(c)
  <2> DEFINE e == Event("ApplicationApproved", LastEvent("loan"))
             step == "idle"
  <2>1. /\ Leads(e, step) /\ e.type = "ApplicationApproved"
    BY <1>10 DEF ReviewApprove, Event
  <2> HIDE DEF e, Leads
  <2>2. CreditPosted(c, "loan", e, step)
    BY <2>1 DEF CreditPosted
  <2> QED
    BY <1>1, <2>1, <2>2
<1> QED
  BY <1>2, <1>3, <1>4, <1>5, <1>6, <1>7, <1>8, <1>9, <1>10

LEMMA OtherAppend ==
  ASSUME StateInv, NEW c \in Clients, NEW s \in StreamIds, s # "loan", NEW expected, NEW e, NEW step,
         AppendTo(c, s, expected, e, step), e.gp = clock + 1, step \in Steps \ BridgeSteps,
         step \notin MirrorSteps, e.type # "FraudScreeningCompleted",
         CreditPosted(c, s, e, step)
  PROVE  Moves(c)
BY NothingIsDue, AppendMoves

LEMMA OtherAppendsMove ==
  ASSUME LoanInv, StateInv, NEW c \in Clients,
         \/ StartAppend(c) \/ CreditAnchor(c) \/ CreditAppendAgent(c)
         \/ ComplianceAppendRequest(c) \/ ComplianceAppendPass(c)
  PROVE  Moves(c)
<1>0. Commanded(c)
  BY DEF LoanInv, CallInv
<1> USE DEF Steps, MirrorSteps, SummarySteps, BridgeSteps, PendingSteps
<1>1. CASE StartAppend(c)
  <2> DEFINE s == cmd[c].session
             expected == NewStream
             e == Anchor(cmd[c].model)
             step == "idle"
  <2>1. AppendTo(c, s, expected, e, step)
    BY <1>1 DEF StartAppend
  <2>2. e.gp = clock + 1 /\ e.type = "AgentContextLoaded"
    BY DEF Anchor
  <2>3. s \in StreamIds /\ s # "loan"
    BY <1>0, <1>1, SessionsApart, CommandFacts DEF StartAppend, Commanded, StartSteps, CreditSteps
  <2>4. step \in Steps \ BridgeSteps /\ step \notin MirrorSteps
    OBVIOUS
  <2>5. CreditPosted(c, s, e, step)
    BY <2>2, <2>3 DEF CreditPosted
  <2> HIDE DEF s, expected, e, step
  <2> QED
    BY <2>1, <2>2, <2>3, <2>4, <2>5, OtherAppend
<1>2. CASE CreditAnchor(c)
  <2> DEFINE s == cmd[c].session
             expected == NewStream
             e == Anchor(cmd[c].model)
             step == "credit_anchor_id"
  <2>1. AppendTo(c, s, expected, e, step)
    BY <1>2 DEF CreditAnchor
  <2>2. e.gp = clock + 1 /\ e.type = "AgentContextLoaded"
    BY DEF Anchor
  <2>3. s \in StreamIds /\ s # "loan"
    BY <1>0, <1>2, SessionsApart, CommandFacts DEF CreditAnchor, Commanded, StartSteps, CreditSteps
  <2>4. step \in Steps \ BridgeSteps /\ step \notin MirrorSteps
    OBVIOUS
  <2>5. CreditPosted(c, s, e, step)
    BY <2>2, <2>3 DEF CreditPosted
  <2> HIDE DEF s, expected, e, step
  <2> QED
    BY <2>1, <2>2, <2>3, <2>4, <2>5, OtherAppend
<1>3. CASE CreditAppendAgent(c)
  <2> DEFINE s == cmd[c].session
             expected == seen[c].agent.version
             e == Credit(s, cmd[c].model, CreditCause(c))
             step == "credit_id"
  <2>1. AppendTo(c, s, expected, e, step)
    BY <1>3 DEF CreditAppendAgent
  <2>2. e.gp = clock + 1 /\ e.type = "CreditAnalysisCompleted"
    BY DEF Credit
  <2>3. s \in StreamIds /\ s # "loan"
    BY <1>0, <1>3, SessionsApart, CommandFacts DEF CreditAppendAgent, Commanded, StartSteps, CreditSteps
  <2>4. step \in Steps \ BridgeSteps /\ step \notin MirrorSteps
    OBVIOUS
  <2>5. CreditPosted(c, s, e, step)
    BY <2>2, <2>3 DEF CreditPosted
  <2> HIDE DEF s, expected, e, step
  <2> QED
    BY <2>1, <2>2, <2>3, <2>4, <2>5, OtherAppend
<1>4. CASE ComplianceAppendRequest(c)
  <2> DEFINE s == "compliance"
             expected == OrNew(seen[c].version)
             e == [type |-> "ComplianceCheckRequested", gp |-> clock + 1, cause |-> 0,
                   required |-> cmd[c].required]
             step == IF cmd[c].passes = <<>> THEN "idle" ELSE "compliance_reload"
  <2>1. AppendTo(c, s, expected, e, step)
    BY <1>4 DEF ComplianceAppendRequest
  <2>2. e.gp = clock + 1 /\ e.type = "ComplianceCheckRequested"
    BY DEF Event
  <2>3. s \in StreamIds /\ s # "loan"
    BY <1>0, <1>4, SessionsApart, CommandFacts DEF ComplianceAppendRequest, Commanded, StartSteps, CreditSteps
  <2>4. step \in Steps \ BridgeSteps /\ step \notin MirrorSteps
    OBVIOUS
  <2>5. CreditPosted(c, s, e, step)
    BY <2>2, <2>3 DEF CreditPosted
  <2> HIDE DEF s, expected, e, step
  <2> QED
    BY <2>1, <2>2, <2>3, <2>4, <2>5, OtherAppend
<1>5. CASE ComplianceAppendPass(c)
  <2> DEFINE s == "compliance"
             expected == seen[c].version
             e == [type |-> "ComplianceRulePassed", gp |-> clock + 1, cause |-> 0,
                   rule |-> cmd[c].passes[seen[c].passes]]
             step == IF seen[c].passes = Len(cmd[c].passes) THEN "idle" ELSE "compliance_reload"
  <2>1. AppendTo(c, s, expected, e, step)
    BY <1>5 DEF ComplianceAppendPass
  <2>2. e.gp = clock + 1 /\ e.type = "ComplianceRulePassed"
    BY DEF Event
  <2>3. s \in StreamIds /\ s # "loan"
    BY <1>0, <1>5, SessionsApart, CommandFacts DEF ComplianceAppendPass, Commanded, StartSteps, CreditSteps
  <2>4. step \in Steps \ BridgeSteps /\ step \notin MirrorSteps
    OBVIOUS
  <2>5. CreditPosted(c, s, e, step)
    BY <2>2, <2>3 DEF CreditPosted
  <2> HIDE DEF s, expected, e, step
  <2> QED
    BY <2>1, <2>2, <2>3, <2>4, <2>5, OtherAppend
<1> QED
  BY <1>1, <1>2, <1>3, <1>4, <1>5

LEMMA CopyAppendsMove ==
  ASSUME LoanInv, StateInv, NEW c \in Clients, FraudAppendSummary(c) \/ FraudAppendAgent(c)
  PROVE  Moves(c)
<1>1. Commanded(c) /\ pc[c] # "idle" /\ cmd[c].mirror \in Sessions \cup {None}
  <2>1. pc[c] \in {"fraud_append_summary", "fraud_append_agent"}
    BY DEF FraudAppendSummary, FraudAppendAgent
  <2> QED
    BY <2>1, CommandFacts DEF LoanInv, CallInv, Commanded, FraudSteps
<1> USE DEF SummarySteps, MirrorSteps, BridgeSteps, PendingSteps, Steps
<1>2. CASE FraudAppendSummary(c)
  <2> DEFINE e == Event("FraudScreeningCompleted", seen[c].cause)
             step == IF cmd[c].mirror = None THEN "fraud_reload_loan" ELSE "fraud_load_agent"
  <2>1. /\ pc[c] = "fraud_append_summary"
        /\ AppendTo(c, "fraud", OrNew(seen[c].version), e, step)
    BY <1>2 DEF FraudAppendSummary
  <2>2. e.gp = clock + 1 /\ e.type = "FraudScreeningCompleted"
    BY DEF Event
  <2>3. "fraud" \in StreamIds /\ "fraud" \in Copies /\ "fraud" \notin Sessions
    BY SessionsApart DEF Copies
  <2>4. step \in Steps \ BridgeSteps
    OBVIOUS
  <2>5. DueAt(pc[c], cmd[c], "fraud") /\ ~ DueAt(step, cmd[c], "fraud")
    BY <1>1, <2>1, <2>3, CommandAssumption DEF DueAt
  <2>6. NothingNewDue(c, step)
    BY <2>1 DEF NothingNewDue, DueAt
  <2>7. CreditPosted(c, "fraud", e, step)
    BY <2>2 DEF CreditPosted
  <2> HIDE DEF e, step
  <2> QED
    BY <2>1, <2>2, <2>3, <2>4, <2>5, <2>6, <2>7, AppendMoves
<1>3. CASE FraudAppendAgent(c)
  <2> DEFINE e == Event("FraudScreeningCompleted", LastEvent(cmd[c].mirror))
             s == cmd[c].mirror
  <2>1. /\ pc[c] = "fraud_append_agent"
        /\ AppendTo(c, s, seen[c].agent.version, e, "fraud_reload_loan")
    BY <1>3 DEF FraudAppendAgent
  <2>2. e.gp = clock + 1 /\ e.type = "FraudScreeningCompleted"
    BY DEF Event
  <2>3. s \in Sessions /\ s \in StreamIds /\ s # "loan" /\ s \in Copies
    BY <1>1, <2>1, SessionsApart DEF Copies, Commanded
  <2>5. DueAt(pc[c], cmd[c], s) /\ ~ DueAt("fraud_reload_loan", cmd[c], s)
    BY <2>1 DEF DueAt
  <2>6. NothingNewDue(c, "fraud_reload_loan")
    BY NothingIsDue
  <2>7. CreditPosted(c, s, e, "fraud_reload_loan")
    BY <2>2 DEF CreditPosted
  <2> HIDE DEF e, s
  <2> QED
    BY <2>1, <2>2, <2>3, <2>5, <2>6, <2>7, AppendMoves
<1> QED
  BY <1>2, <1>3

LEMMA StepMoves ==
  ASSUME LoanInv, StateInv, NEW c \in Clients,
         \/ Submit(c) \/ StartSession(c) \/ CreditAnalysis(c) \/ FraudScreening(c)
         \/ AppendBridge(c) \/ ComplianceCheck(c) \/ GenerateDecision(c) \/ HumanReview(c)
         \/ Crash(c)
  PROVE  Moves(c)
<1>1. CASE Submit(c) \/ StartSession(c)
  BY <1>1, LoanReadsMove, OtherReadsMove, LoanAppendsMove, OtherAppendsMove
     DEF Submit, StartSession
<1>2. CASE CreditAnalysis(c) \/ AppendBridge(c)
  BY <1>2, LoanReadsMove, OtherReadsMove, LoanAppendsMove, OtherAppendsMove DEF CreditAnalysis
<1>3. CASE FraudScreening(c)
  BY <1>3, LoanReadsMove, OtherReadsMove, LoanAppendsMove, CopyAppendsMove DEF FraudScreening
<1>4. CASE ComplianceCheck(c) \/ GenerateDecision(c)
  BY <1>4, LoanReadsMove, OtherReadsMove, LoanAppendsMove, OtherAppendsMove
     DEF ComplianceCheck, GenerateDecision
<1>5. CASE HumanReview(c)
  BY <1>5, LoanReadsMove, OtherReadsMove, LoanAppendsMove DEF HumanReview
<1>6. CASE Crash(c)
  <2>1. MaxCrashes \in Nat /\ crashed \in 0..MaxCrashes
    BY CommandAssumption DEF StateInv
  <2> QED
    BY <1>6, <2>1 DEF Crash, Moves, Frame
<1> QED
  BY <1>1, <1>2, <1>3, <1>4, <1>5, <1>6

LEMMA IssueKeepsState ==
  ASSUME LoanInv, StateInv, CopiesInv, NEW c \in Clients, NEW command \in CommandSet,
         Issue(c, command)
  PROVE  StateInv' /\ CopiesInv'
<1>1. /\ Frame /\ command.kind \in Kinds /\ pc[c] = "idle" /\ seen' = seen /\ crashed' = crashed
      /\ pc' = [pc EXCEPT ![c] = command.kind] /\ cmd' = [cmd EXCEPT ![c] = command]
      /\ issued < MaxCommands /\ issued' = issued + 1 /\ MaxCommands \in Nat
  BY CommandAssumption DEF Issue, Frame
<1>2. /\ pc'[c] = command.kind
      /\ \A d \in Clients : d # c => pc'[d] = pc[d] /\ cmd'[d] = cmd[d]
  BY <1>1 DEF LoanInv, CallInv
<1>3. Kinds \subseteq Steps \ ({"idle"} \cup BridgeSteps \cup MirrorSteps)
  BY DEF Kinds, Steps, BridgeSteps, MirrorSteps, SummarySteps
<1>4. StateInv'
  <2>1. streams' = streams
    BY <1>1 DEF Frame
  <2>2. ASSUME NEW d \in Clients
        PROVE  /\ pc'[d] \in Steps /\ (pc'[d] = "idle" => cmd'[d] = NoCommand)
               /\ GoodSeen(seen[d], pc[d])'
    <3>1. pc[d] \in Steps /\ (pc[d] = "idle" => cmd[d] = NoCommand) /\ GoodSeen(seen[d], pc[d])
      BY DEF StateInv
    <3>2. pc'[d] \in BridgeSteps => pc[d] \in BridgeSteps
      BY <1>1, <1>2, <1>3
    <3>3. GoodSeen(seen[d], pc[d])'
      BY <1>1, <2>1, <3>1, <3>2 DEF GoodSeen, Loan
    <3> QED
      BY <1>1, <1>2, <1>3, <3>1, <3>3
  <2>3. issued' \in 0..MaxCommands
    BY <1>1 DEF StateInv
  <2> QED
    BY <1>1, <2>1, <2>2, <2>3 DEF StateInv
<1>5. CopiesInv'
  <2>1. ASSUME NEW s \in Copies PROVE Owing(s)' = Owing(s)
    <3>1. \A d \in Clients : d # c => (DueAt(pc'[d], cmd'[d], s) <=> DueAt(pc[d], cmd[d], s))
      BY <1>2
    <3>2. ~ DueAt(pc[c], cmd[c], s) /\ ~ DueAt(pc'[c], cmd'[c], s)
      BY <1>1, <1>2, <1>3 DEF DueAt, MirrorSteps, SummarySteps
    <3>3. /\ Owing(s)' = {d \in Clients : DueAt(pc'[d], cmd'[d], s)}
          /\ Owing(s) = {d \in Clients : DueAt(pc[d], cmd[d], s)}
      BY DEF Owing, DueAt
    <3> QED
      BY <3>1, <3>2, <3>3
  <2>2. \A s : Screened(s)' = Screened(s)
    BY <1>1 DEF Screened, Frame
  <2>3. ScreeningsFollow(streams', clock')
    BY <1>1 DEF CopiesInv, Frame
  <2> QED
    BY <2>1, <2>2, <2>3 DEF CopiesInv
<1> QED
  BY <1>4, <1>5

LEMMA StateStep ==
  LoanInv /\ LoanInv' /\ StateInv /\ CopiesInv /\ [Next]_vars => StateInv' /\ CopiesInv'
<1> SUFFICES ASSUME LoanInv, LoanInv', StateInv, CopiesInv, [Next]_vars
             PROVE  StateInv' /\ CopiesInv'
  OBVIOUS
<1>1. ASSUME NEW c \in Clients, Moves(c) PROVE StateInv' /\ CopiesInv'
  BY <1>1, StateNext, CopiesNext
<1>2. CASE UNCHANGED vars
  <2>1. StateInv'
    BY <1>2 DEF vars, StateInv, GoodSeen, Loan
  <2>2. \A s : Owing(s)' = Owing(s) /\ Screened(s)' = Screened(s)
    BY <1>2 DEF vars, Owing, DueAt, Screened
  <2>3. CopiesInv'
    BY <1>2, <2>2 DEF vars, CopiesInv
  <2> QED
    BY <2>1, <2>3
<1>3. CASE Next
  BY <1>1, <1>3, StepMoves, IssueKeepsState DEF Next
<1> QED
  BY <1>2, <1>3

LEMMA StateInit == Init => StateInv /\ CopiesInv
<1> SUFFICES ASSUME Init PROVE StateInv /\ CopiesInv
  OBVIOUS
<1>0. LoanInv
  BY LoanInit
<1>1. /\ streams \in InitialStores /\ clock = LastPosition(streams)
      /\ pc = [c \in Clients |-> "idle"] /\ cmd = [c \in Clients |-> NoCommand]
      /\ seen = [c \in Clients |-> Nothing] /\ issued = 0 /\ crashed = 0
  BY DEF Init
<1>2. /\ streams["loan"] \in Seq(Range(streams["loan"])) /\ Loan.ok
      /\ \A i \in DOMAIN streams["loan"] : streams["loan"][i].type \in LoanEvents
      /\ ScreeningsFollow(streams, clock)
  BY <1>0, <1>1, LoanSeq, StoreAssumption DEF Loan
<1>3. StateInv
  <2>1. Shape(streams["loan"])
    BY <1>2, ShapeOfLoan
  <2>2. AtMostOne(OfType(streams["loan"], "ComplianceReviewStarted"))
    BY <1>2, <2>1 DEF Shape, Loan
  <2>3. GoodSeen(Nothing, "idle")
    BY <1>2, NothingIsGood DEF GoodSeen, BridgeSteps, Loan
  <2>4. issued \in 0..MaxCommands /\ crashed \in 0..MaxCrashes
    <3>1. MaxCommands \in Nat /\ MaxCrashes \in Nat
      BY CommandAssumption
    <3> QED
      BY <1>1, <3>1
  <2>5. \A c \in Clients : /\ pc[c] \in Steps
                           /\ pc[c] = "idle" => cmd[c] = NoCommand
                           /\ GoodSeen(seen[c], pc[c])
    BY <1>1, <2>3 DEF Steps
  <2>6. seen = [c \in Clients |-> seen[c]]
    BY <1>1
  <2> QED
    BY <2>1, <2>2, <2>4, <2>5, <2>6 DEF StateInv
<1>4. CopiesInv
  <2>1. ASSUME NEW s \in Copies
        PROVE  /\ IsFiniteSet(Owing(s))
               /\ Cardinality(Screened(s)) + Cardinality(Owing(s)) <= Cardinality(Screened("loan"))
    <3>1. s \in StreamIds /\ "loan" \in StreamIds
      BY SessionsApart DEF Copies
    <3>2. Owing(s) = {}
      BY <1>1 DEF Owing, DueAt, SummarySteps, MirrorSteps
    <3>3. /\ IsFiniteSet(Owing(s)) /\ Cardinality(Owing(s)) = 0
          /\ Cardinality(Screened(s)) \in Nat /\ Cardinality(Screened("loan")) \in Nat
          /\ clock \in Nat
      BY <1>0, <3>1, <3>2, FS_EmptySet, ScreenedFinite, LoanSeq
    <3>4. CASE clock = 0
      <4>1. Screened(s) = {} /\ Screened("loan") = {}
        BY <1>0, <3>1, <3>4, UpToClock
      <4> QED
        BY <3>3, <4>1, FS_EmptySet
    <3>5. CASE clock # 0
      <4>1. Cardinality(UpTo(s, clock)) <= Cardinality(UpTo("loan", clock))
        BY <1>2, <3>3, <3>5, FollowsByCount
      <4>2. UpTo(s, clock) = Screened(s) /\ UpTo("loan", clock) = Screened("loan")
        BY <1>0, <3>1, UpToClock
      <4> QED
        BY <3>3, <4>1, <4>2
    <3> QED
      BY <3>4, <3>5
  <2> QED
    BY <1>2, <2>1 DEF CopiesInv
<1> QED
  BY <1>3, <1>4

(* What the calls have seen of the loan is either the loan or out of date,   *)
(* and each screening on the loan pays for the copies that follow it.        *)
THEOREM StateInvariant == Spec => [](StateInv /\ CopiesInv)
<1>1. Init => StateInv /\ CopiesInv
  BY StateInit
<1>2. LoanInv /\ LoanInv' /\ (StateInv /\ CopiesInv) /\ [Next]_vars => (StateInv /\ CopiesInv)'
  BY StateStep
<1> QED
  BY <1>1, <1>2, LoanInvariant, PTL DEF Spec

-------------------------------------------------------------------------------
(* The analyses of a session, on the loan and on their way there *)

LEMMA CreditsFinite ==
  ASSUME LoanInv, NEW s \in Sessions
  PROVE  /\ IsFiniteSet(Recorded(s)) /\ Cardinality(Recorded(s)) \in Nat
         /\ IsFiniteSet(Shown(s)) /\ Cardinality(Shown(s)) \in Nat
         /\ Recorded(s) \subseteq 1..Len(streams[s])
         /\ Shown(s) \subseteq 1..Len(streams["loan"])
<1>1. /\ Len(streams[s]) \in Nat /\ DOMAIN streams[s] = 1..Len(streams[s])
      /\ Len(streams["loan"]) \in Nat /\ DOMAIN streams["loan"] = 1..Len(streams["loan"])
  BY SessionsApart, LoanSeq, AppendFacts
<1>2. IsFiniteSet(1..Len(streams[s])) /\ IsFiniteSet(1..Len(streams["loan"]))
  BY <1>1, FS_Interval
<1>3. /\ Recorded(s) \subseteq 1..Len(streams[s])
      /\ Shown(s) \subseteq 1..Len(streams["loan"])
  BY <1>1 DEF Recorded, Shown, OfType
<1> QED
  BY <1>2, <1>3, FS_Subset, FS_CardinalityType

LEMMA PostedCredits ==
  ASSUME LoanInv, NEW c, NEW s, NEW e, NEW step, Posts(c, s, e, step), NEW t \in Sessions
  PROVE  /\ e.type = "CreditAnalysisCompleted" /\ s = t =>
              Cardinality(Recorded(t)') = Cardinality(Recorded(t)) + 1
         /\ ~ (e.type = "CreditAnalysisCompleted" /\ s = t) => Recorded(t)' = Recorded(t)
         /\ e.type = "CreditAnalysisCompleted" /\ s = "loan" /\ e.session = t =>
              /\ Shown(t)' = Shown(t) \cup {Len(streams["loan"]) + 1}
              /\ Cardinality(Shown(t)') = Cardinality(Shown(t)) + 1
         /\ ~ (e.type = "CreditAnalysisCompleted" /\ s = "loan" /\ e.session = t) =>
              Shown(t)' = Shown(t)
<1> DEFINE C == "CreditAnalysisCompleted"
<1>1. /\ streams' = [streams EXCEPT ![s] = Append(@, e)] /\ s \in StreamIds
      /\ DOMAIN streams = StreamIds /\ t \in StreamIds /\ "loan" \in StreamIds /\ t # "loan"
  BY SessionsApart DEF Posts, LoanInv, StoreInv, WellFormed
<1>2. \A u \in StreamIds : /\ u # s => streams'[u] = streams[u]
                           /\ u = s => streams'[u] = Append(streams[u], e)
  BY <1>1
<1>3. ASSUME NEW u \in StreamIds
      PROVE  /\ Len(streams[u]) \in Nat
             /\ OfType(streams[u], C) \subseteq 1..Len(streams[u])
             /\ \A i \in 1..Len(streams[u]) : Append(streams[u], e)[i] = streams[u][i]
             /\ Append(streams[u], e)[Len(streams[u]) + 1] = e
             /\ OfType(Append(streams[u], e), C) =
                  IF e.type = C THEN OfType(streams[u], C) \cup {Len(streams[u]) + 1}
                  ELSE OfType(streams[u], C)
  <2>0. PICK q : q = streams[u]
    OBVIOUS
  <2>1. q \in Seq(Range(q))
    BY <2>0, LoanSeq
  <2>2. /\ Len(q) \in Nat /\ DOMAIN q = 1..Len(q)
        /\ \A i \in 1..Len(q) : Append(q, e)[i] = q[i]
        /\ Append(q, e)[Len(q) + 1] = e
    BY <2>1, AppendFacts
  <2>3. OfType(q, C) \subseteq 1..Len(q)
    BY <2>2 DEF OfType
  <2> HIDE DEF C
  <2>4. OfType(Append(q, e), C) =
          IF e.type = C THEN OfType(q, C) \cup {Len(q) + 1} ELSE OfType(q, C)
    <3>1. q \in Seq(Range(q))
      BY <2>1
    <3> QED
      BY <3>1, OfTypeAppend
  <2> QED
    BY <2>0, <2>2, <2>3, <2>4
<1>4. Recorded(t) = OfType(streams[t], C) /\ Recorded(t)' = OfType(streams'[t], C)
  BY DEF Recorded
<1>5. /\ Shown(t) = {i \in OfType(streams["loan"], C) : streams["loan"][i].session = t}
      /\ Shown(t)' = {i \in OfType(streams'["loan"], C) : streams'["loan"][i].session = t}
  BY DEF Shown
<1> HIDE DEF C
<1>6. /\ e.type = C /\ s = t => Recorded(t)' = Recorded(t) \cup {Len(streams[t]) + 1}
      /\ ~ (e.type = C /\ s = t) => Recorded(t)' = Recorded(t)
  BY <1>1, <1>2, <1>3, <1>4
<1>7. /\ e.type = C /\ s = "loan" /\ e.session = t =>
           Shown(t)' = Shown(t) \cup {Len(streams["loan"]) + 1}
      /\ ~ (e.type = C /\ s = "loan" /\ e.session = t) => Shown(t)' = Shown(t)
  <2> DEFINE q == streams["loan"]
  <2>1. CASE s # "loan"
    BY <1>1, <1>2, <1>5, <2>1
  <2>2. CASE s = "loan"
    <3>1. streams'["loan"] = Append(q, e)
      BY <1>1, <1>2, <2>2
    <3>2. /\ Len(q) \in Nat /\ OfType(q, C) \subseteq 1..Len(q)
          /\ \A i \in 1..Len(q) : Append(q, e)[i] = q[i]
          /\ Append(q, e)[Len(q) + 1] = e
          /\ OfType(Append(q, e), C) =
               IF e.type = C THEN OfType(q, C) \cup {Len(q) + 1} ELSE OfType(q, C)
      BY <1>1, <1>3
    <3> HIDE DEF q
    <3>3. Shown(t) = {i \in OfType(q, C) : q[i].session = t}
      BY <1>5 DEF q
    <3>4. Shown(t)' = {i \in OfType(Append(q, e), C) : Append(q, e)[i].session = t}
      BY <1>5, <3>1
    <3>5. \A i \in OfType(q, C) : Append(q, e)[i] = q[i]
      BY <3>2
    <3>6. CASE e.type = C /\ e.session = t
      <4>1. Shown(t)' = Shown(t) \cup {Len(q) + 1}
        BY <3>2, <3>3, <3>4, <3>5, <3>6
      <4> QED
        BY <2>2, <3>6, <4>1 DEF q
    <3>7. CASE e.type # C \/ e.session # t
      <4>1. Shown(t)' = Shown(t)
        BY <3>2, <3>3, <3>4, <3>5, <3>7
      <4> QED
        BY <3>7, <4>1
    <3> QED
      BY <3>6, <3>7
  <2> QED
    BY <2>1, <2>2
<1>8. /\ IsFiniteSet(Recorded(t)) /\ Len(streams[t]) + 1 \notin Recorded(t)
      /\ IsFiniteSet(Shown(t)) /\ Len(streams["loan"]) + 1 \notin Shown(t)
  BY <1>1, <1>3, CreditsFinite
<1>9. /\ e.type = C /\ s = t => Cardinality(Recorded(t)') = Cardinality(Recorded(t)) + 1
      /\ e.type = C /\ s = "loan" /\ e.session = t =>
           Cardinality(Shown(t)') = Cardinality(Shown(t)) + 1
  BY <1>6, <1>7, <1>8, FS_AddElement
<1> QED
  BY <1>6, <1>7, <1>9 DEF C

(* Only the call that recorded an analysis is added to those on their way.   *)
LEMMA PendingMoves ==
  ASSUME LoanInv, NEW c \in Clients, NEW step, NEW t \in Sessions,
         pc' = [pc EXCEPT ![c] = step],
         cmd' = cmd \/ (step = "idle" /\ cmd' = [cmd EXCEPT ![c] = NoCommand])
  PROVE  /\ Pending(t)' \subseteq Pending(t) \cup {c}
         /\ (step \in PendingSteps => pc[c] \in PendingSteps) => Pending(t)' \subseteq Pending(t)
         /\ cmd[c].session # t => Pending(t)' \subseteq Pending(t)
         /\ step \notin PendingSteps => c \notin Pending(t)'
<1>1. /\ pc'[c] = step /\ (cmd'[c] = cmd[c] \/ step = "idle")
      /\ \A d \in Clients : d # c => pc'[d] = pc[d] /\ cmd'[d] = cmd[d]
  BY DEF LoanInv, CallInv
<1>2. "idle" \notin PendingSteps
  BY DEF PendingSteps
<1>3. /\ Pending(t)' = {d \in Clients : pc'[d] \in PendingSteps /\ cmd'[d].session = t}
      /\ Pending(t) = {d \in Clients : pc[d] \in PendingSteps /\ cmd[d].session = t}
  BY DEF Pending
<1>4. ASSUME NEW d \in Pending(t)', d # c PROVE d \in Pending(t)
  BY <1>1, <1>3, <1>4
<1>5. c \in Pending(t)' => step \in PendingSteps /\ cmd[c].session = t
  BY <1>1, <1>2, <1>3
<1>6. c \in Pending(t)' /\ pc[c] \in PendingSteps => c \in Pending(t)
  BY <1>3, <1>5
<1> QED
  BY <1>4, <1>5, <1>6

(* An analysis on the loan stays backed: what it is counted against lies     *)
(* before it.                                                                *)
LEMMA BackedStays ==
  ASSUME LoanInv, CreditsBacked(streams), NEW c, NEW s, NEW e, NEW step, Posts(c, s, e, step),
         s = "loan" /\ e.type = "CreditAnalysisCompleted" =>
           LET S == e.session
           IN /\ S \in Sessions
              /\ \A j \in Recorded(S) : streams[S][j].model = e.model
              /\ Cardinality(Shown(S)) + 1 <= Cardinality(Recorded(S))
  PROVE  CreditsBacked(streams')
<1> DEFINE C == "CreditAnalysisCompleted"
           q == streams["loan"]
           p == streams'["loan"]
           Upto(r, i) == {k \in OfType(r, C) : k <= i /\ r[k].session = r[i].session}
           Before(st, i, z) == {j \in OfType(st[z], C) : /\ st[z][j].gp < st["loan"][i].gp
                                                     /\ st[z][j].model = st["loan"][i].model}
<1>1. /\ streams' = [streams EXCEPT ![s] = Append(@, e)] /\ s \in StreamIds
      /\ DOMAIN streams = StreamIds /\ Sessions \subseteq StreamIds
      /\ "loan" \in StreamIds /\ "loan" \notin Sessions
      /\ e.gp = clock + 1 /\ clock \in Nat
      /\ \A u \in StreamIds : \A i \in DOMAIN streams[u] : streams[u][i].gp \in 1..clock
  BY SessionsApart, LoanSeq DEF Posts, LoanInv, StoreInv, WellFormed
<1>2. ASSUME NEW u \in StreamIds
      PROVE  /\ Len(streams[u]) \in Nat /\ DOMAIN streams[u] = 1..Len(streams[u])
             /\ \A i \in DOMAIN streams[u] : streams'[u][i] = streams[u][i]
             /\ OfType(streams[u], C) \subseteq DOMAIN streams[u]
             /\ \A i : i \in OfType(streams'[u], C) <=>
                   \/ i \in OfType(streams[u], C)
                   \/ u = s /\ e.type = C /\ i = Len(streams[u]) + 1
             /\ u = s => streams'[u][Len(streams[u]) + 1] = e
  <2>0. PICK r : r = streams[u]
    OBVIOUS
  <2>1. r \in Seq(Range(r)) /\ (u = s => streams'[u] = Append(r, e)) /\ (u # s => streams'[u] = r)
    BY <1>1, <2>0, LoanSeq
  <2>2. /\ Len(r) \in Nat /\ DOMAIN r = 1..Len(r)
        /\ \A i \in 1..Len(r) : Append(r, e)[i] = r[i]
        /\ Append(r, e)[Len(r) + 1] = e
    BY <2>1, AppendFacts
  <2>3. OfType(r, C) \subseteq DOMAIN r
    BY DEF OfType
  <2> HIDE DEF C
  <2>4. OfType(Append(r, e), C) =
          IF e.type = C THEN OfType(r, C) \cup {Len(r) + 1} ELSE OfType(r, C)
    <3>1. r \in Seq(Range(r))
      BY <2>1
    <3> QED
      BY <3>1, OfTypeAppend
  <2> QED
    BY <2>0, <2>1, <2>2, <2>3, <2>4
<1>3. \A i \in OfType(q, C) :
        /\ q[i].session \in Sessions
        /\ Cardinality(Upto(q, i)) <= Cardinality(Before(streams, i, q[i].session))
  BY DEF CreditsBacked
<1>4. SUFFICES ASSUME NEW i \in OfType(p, C)
               PROVE  /\ p[i].session \in Sessions
                      /\ Cardinality(Upto(p, i)) <= Cardinality(Before(streams', i, p[i].session))
  BY DEF CreditsBacked
<1> HIDE DEF C
<1>5. CASE i \in OfType(q, C)
  <2>1. p[i] = q[i] /\ i \in DOMAIN q /\ q[i].session \in Sessions
    BY <1>1, <1>2, <1>3, <1>5
  <2>2. Upto(p, i) = Upto(q, i)
    <3>1. ASSUME NEW k, k \in OfType(p, C), k <= i PROVE k \in OfType(q, C)
      BY <1>1, <1>2, <2>1, <3>1
    <3>2. ASSUME NEW k \in OfType(q, C) PROVE k \in OfType(p, C) /\ p[k] = q[k]
      BY <1>1, <1>2
    <3> QED
      BY <2>1, <3>1, <3>2
  <2>3. Before(streams', i, q[i].session) = Before(streams, i, q[i].session)
    <3> PICK z : z = q[i].session
      OBVIOUS
    <3>1. z \in StreamIds /\ p[i].gp \in 1..clock
      BY <1>1, <2>1
    <3>2. ASSUME NEW j \in OfType(streams[z], C)
          PROVE j \in OfType(streams'[z], C) /\ streams'[z][j] = streams[z][j]
      BY <1>2, <3>1
    <3>3. ASSUME NEW j \in OfType(streams'[z], C), streams'[z][j].gp < p[i].gp
          PROVE  j \in OfType(streams[z], C)
      BY <1>1, <1>2, <3>1, <3>3
    <3> QED
      BY <2>1, <3>2, <3>3
  <2> QED
    BY <1>3, <1>5, <2>1, <2>2, <2>3
<1>6. CASE s = "loan" /\ e.type = C /\ i = Len(q) + 1
  <2>1. /\ p[i] = e /\ e.session \in Sessions
        /\ \A j \in Recorded(e.session) : streams[e.session][j].model = e.model
        /\ Cardinality(Shown(e.session)) + 1 <= Cardinality(Recorded(e.session))
    BY <1>1, <1>2, <1>6 DEF C
  <2> PICK z : z = e.session
    OBVIOUS
  <2>2. z \in StreamIds /\ z # "loan" /\ streams'[z] = streams[z]
    BY <1>1, <1>6, <2>1
  <2>3. Before(streams', i, z) = Recorded(z)
    <3>1. OfType(streams'[z], C) = Recorded(z)
      BY <2>2 DEF Recorded, C
    <3>2. ASSUME NEW j \in Recorded(z) PROVE streams'[z][j].gp < e.gp /\ streams'[z][j].model = e.model
      <4>1. j \in DOMAIN streams[z]
        BY DEF Recorded, OfType
      <4> QED
        BY <1>1, <2>1, <2>2, <4>1
    <3> QED
      BY <2>1, <3>1, <3>2
  <2>4. Upto(p, i) = Shown(z)'
    <3>1. Shown(z)' = {k \in OfType(p, C) : p[k].session = z}
      BY DEF Shown, C
    <3>2. \A k \in OfType(p, C) : k <= i
      BY <1>1, <1>2, <1>6
    <3> QED
      BY <2>1, <3>1, <3>2
  <2>5. Cardinality(Shown(z)') = Cardinality(Shown(z)) + 1
    BY <1>6, <2>1, PostedCredits DEF C
  <2> QED
    BY <2>1, <2>3, <2>4, <2>5
<1>7. i \in OfType(q, C) \/ (s = "loan" /\ e.type = C /\ i = Len(q) + 1)
  BY <1>1, <1>2, <1>4
<1> QED
  BY <1>5, <1>6, <1>7

LEMMA PendingFinite ==
  ASSUME CreditsInv, NEW s \in Sessions, NEW more
  PROVE  /\ Cardinality(Pending(s)) \in Nat
         /\ \A T \in SUBSET Pending(s) :
              IsFiniteSet(T) /\ Cardinality(T) \in Nat /\ Cardinality(T) <= Cardinality(Pending(s))
         /\ \A T \in SUBSET (Pending(s) \cup {more}) :
              IsFiniteSet(T) /\ Cardinality(T) \in Nat /\ Cardinality(T) <= Cardinality(Pending(s)) + 1
         /\ more \in Pending(s) =>
              \A T \in SUBSET (Pending(s) \ {more}) :
                IsFiniteSet(T) /\ Cardinality(T) \in Nat /\ Cardinality(T) + 1 <= Cardinality(Pending(s))
<1>0. PICK P : P = Pending(s)
  OBVIOUS
<1>1. IsFiniteSet(P) /\ Cardinality(P) \in Nat
  BY <1>0, FS_CardinalityType DEF CreditsInv
<1>2. \A S : IsFiniteSet(S) => \A T \in SUBSET S :
         IsFiniteSet(T) /\ Cardinality(T) \in Nat /\ Cardinality(T) <= Cardinality(S)
  BY FS_Subset, FS_CardinalityType
<1>3. /\ IsFiniteSet(P \cup {more}) /\ Cardinality(P \cup {more}) \in Nat
      /\ Cardinality(P \cup {more}) <= Cardinality(P) + 1
  <2>1. CASE more \in P
    <3>1. P \cup {more} = P
      BY <2>1
    <3> QED
      BY <1>1, <3>1
  <2>2. CASE more \notin P
    <3>1. IsFiniteSet(P \cup {more}) /\ Cardinality(P \cup {more}) = Cardinality(P) + 1
      BY <1>1, <2>2, FS_AddElement
    <3> QED
      BY <1>1, <3>1
  <2> QED
    BY <2>1, <2>2
<1>4. more \in P => /\ IsFiniteSet(P \ {more}) /\ Cardinality(P \ {more}) \in Nat
                    /\ Cardinality(P \ {more}) + 1 = Cardinality(P)
  <2>1. IsFiniteSet(P \ {more}) /\ Cardinality(P \ {more}) \in Nat
    BY <1>1, <1>2
  <2>2. more \in P => Cardinality(P \ {more}) = Cardinality(P) - 1
    BY <1>1, FS_RemoveElement
  <2> QED
    BY <1>1, <2>1, <2>2
<1>5. \A T \in SUBSET P :
         IsFiniteSet(T) /\ Cardinality(T) \in Nat /\ Cardinality(T) <= Cardinality(P)
  BY <1>1, <1>2
<1>6. ASSUME NEW T \in SUBSET (P \cup {more})
      PROVE  IsFiniteSet(T) /\ Cardinality(T) \in Nat /\ Cardinality(T) <= Cardinality(P) + 1
  <2>1. IsFiniteSet(T) /\ Cardinality(T) \in Nat /\ Cardinality(T) <= Cardinality(P \cup {more})
    BY <1>2, <1>3
  <2> QED
    BY <1>1, <1>3, <2>1
<1>7. ASSUME more \in P, NEW T \in SUBSET (P \ {more})
      PROVE  IsFiniteSet(T) /\ Cardinality(T) \in Nat /\ Cardinality(T) + 1 <= Cardinality(P)
  <2>1. IsFiniteSet(T) /\ Cardinality(T) \in Nat /\ Cardinality(T) <= Cardinality(P \ {more})
    BY <1>2, <1>4, <1>7
  <2> QED
    BY <1>1, <1>4, <1>7, <2>1
<1> QED
  BY <1>0, <1>1, <1>5, <1>6, <1>7

LEMMA CreditsNext ==
  ASSUME LoanInv, CreditsInv, NEW c \in Clients, Moves(c)
  PROVE  CreditsInv'
<1> DEFINE Counted(t) == /\ IsFiniteSet(Pending(t)')
                         /\ Cardinality(Shown(t)') + Cardinality(Pending(t)')
                              <= Cardinality(Recorded(t)')
           C == "CreditAnalysisCompleted"
<1>1. \A t \in Sessions :
        /\ Cardinality(Shown(t)) + Cardinality(Pending(t)) <= Cardinality(Recorded(t))
        /\ Cardinality(Shown(t)) \in Nat /\ Cardinality(Recorded(t)) \in Nat
  BY CreditsFinite DEF CreditsInv
<1>2. ASSUME UNCHANGED <<streams, clock>>, NEW step, pc' = [pc EXCEPT ![c] = step],
             step \in PendingSteps => pc[c] \in PendingSteps,
             cmd' = cmd \/ (step = "idle" /\ cmd' = [cmd EXCEPT ![c] = NoCommand])
      PROVE  CreditsInv'
  <2>1. ASSUME NEW t \in Sessions PROVE Counted(t)
    <3>1. Recorded(t)' = Recorded(t) /\ Shown(t)' = Shown(t)
      BY <1>2 DEF Recorded, Shown
    <3>2. Pending(t)' \subseteq Pending(t)
      BY <1>2, PendingMoves
    <3>3. /\ IsFiniteSet(Pending(t)') /\ Cardinality(Pending(t)') \in Nat
          /\ Cardinality(Pending(t)') <= Cardinality(Pending(t)) /\ Cardinality(Pending(t)) \in Nat
      BY <3>2, PendingFinite
    <3> QED
      BY <1>1, <3>1, <3>3
  <2>2. CreditsBacked(streams')
    BY <1>2 DEF CreditsInv
  <2> QED
    BY <2>1, <2>2 DEF CreditsInv
<1>3. CASE Frame /\ Finish(c)
  BY <1>2, <1>3 DEF Frame, Finish, PendingSteps
<1>4. ASSUME NEW what, NEW step, Loads(c, what, step) PROVE CreditsInv'
  BY <1>2, <1>4 DEF Loads, Frame
<1>5. ASSUME NEW s, NEW e, NEW step, Posts(c, s, e, step) PROVE CreditsInv'
  <2>1. /\ pc' = [pc EXCEPT ![c] = step]
        /\ cmd' = cmd \/ (step = "idle" /\ cmd' = [cmd EXCEPT ![c] = NoCommand])
        /\ CreditPosted(c, s, e, step)
    BY <1>5 DEF Posts, Finish
  <2>2. CASE e.type # C
    <3>1. step \notin PendingSteps
      BY <2>1, <2>2 DEF CreditPosted
    <3>2. ASSUME NEW t \in Sessions PROVE Counted(t)
      <4>1. Recorded(t)' = Recorded(t) /\ Shown(t)' = Shown(t)
        BY <1>5, <2>2, PostedCredits
      <4>2. Pending(t)' \subseteq Pending(t)
        BY <2>1, <3>1, PendingMoves
      <4>3. /\ IsFiniteSet(Pending(t)') /\ Cardinality(Pending(t)') \in Nat
            /\ Cardinality(Pending(t)') <= Cardinality(Pending(t)) /\ Cardinality(Pending(t)) \in Nat
        BY <4>2, PendingFinite
      <4> QED
        BY <1>1, <4>1, <4>3
    <3>3. CreditsBacked(streams')
      BY <1>5, <2>2, BackedStays DEF CreditsInv
    <3> QED
      BY <3>2, <3>3 DEF CreditsInv
  <2>3. CASE e.type = C /\ s # "loan"
    <3>1. s = cmd[c].session
      BY <2>1, <2>3 DEF CreditPosted
    <3>2. ASSUME NEW t \in Sessions PROVE Counted(t)
      <4>1. Shown(t)' = Shown(t)
        BY <1>5, <2>3, PostedCredits
      <4>2. CASE t = s
        <5>1. Cardinality(Recorded(t)') = Cardinality(Recorded(t)) + 1
          BY <1>5, <2>3, <4>2, PostedCredits
        <5>2. Pending(t)' \subseteq Pending(t) \cup {c}
          BY <2>1, PendingMoves
        <5>3. /\ IsFiniteSet(Pending(t)') /\ Cardinality(Pending(t)') \in Nat
              /\ Cardinality(Pending(t)') <= Cardinality(Pending(t)) + 1 /\ Cardinality(Pending(t)) \in Nat
          BY <5>2, PendingFinite
        <5> QED
          BY <1>1, <4>1, <5>1, <5>3
      <4>3. CASE t # s
        <5>1. Recorded(t)' = Recorded(t)
          BY <1>5, <4>3, PostedCredits
        <5>2. Pending(t)' \subseteq Pending(t)
          BY <2>1, <3>1, <4>3, PendingMoves
        <5>3. /\ IsFiniteSet(Pending(t)') /\ Cardinality(Pending(t)') \in Nat
              /\ Cardinality(Pending(t)') <= Cardinality(Pending(t)) /\ Cardinality(Pending(t)) \in Nat
          BY <5>2, PendingFinite
        <5> QED
          BY <1>1, <4>1, <5>1, <5>3
      <4> QED
        BY <4>2, <4>3
    <3>3. CreditsBacked(streams')
      BY <1>5, <2>3, BackedStays DEF CreditsInv
    <3> QED
      BY <3>2, <3>3 DEF CreditsInv
  <2>4. CASE e.type = C /\ s = "loan"
    <3>1. /\ pc[c] = "credit_append_loan" /\ step \notin PendingSteps
          /\ e.session = cmd[c].session /\ e.model = cmd[c].model
      BY <2>1, <2>4 DEF CreditPosted
    <3> DEFINE z == cmd[c].session
    <3>2. z \in Sessions /\ Credited(z, cmd[c].model) /\ c \in Pending(z)
      BY <3>1, CommandFacts DEF LoanInv, CallInv, Commanded, Knows, CreditSteps, Pending, PendingSteps
    <3>3. \A j \in Recorded(z) : streams[z][j].model = cmd[c].model
      <4>1. \A j \in Recorded(z) : streams[z][j].model = streams[z][1].model
        BY <3>2 DEF LoanInv, StoreInv, OneModel, Recorded
      <4>2. PICK j \in Recorded(z) : streams[z][j].model = cmd[c].model
        BY <3>2 DEF Credited, Recorded
      <4> QED
        BY <4>1, <4>2
    <3> HIDE DEF z
    <3>4. "loan" \notin Sessions
      BY SessionsApart
    <3>5. ASSUME NEW t \in Sessions PROVE Counted(t)
      <4>1. Recorded(t)' = Recorded(t)
        BY <1>5, <2>4, <3>4, PostedCredits
      <4>2. CASE t = z
        <5>1. Cardinality(Shown(t)') = Cardinality(Shown(t)) + 1
          BY <1>5, <2>4, <3>1, <4>2, PostedCredits DEF z
        <5>2. Pending(t)' \subseteq Pending(t) \ {c}
          BY <2>1, <3>1, PendingMoves
        <5>3. /\ IsFiniteSet(Pending(t)') /\ Cardinality(Pending(t)') \in Nat
              /\ Cardinality(Pending(t)') + 1 <= Cardinality(Pending(t)) /\ Cardinality(Pending(t)) \in Nat
          BY <3>2, <4>2, <5>2, PendingFinite
        <5> QED
          BY <1>1, <4>1, <5>1, <5>3
      <4>3. CASE t # z
        <5>1. Shown(t)' = Shown(t)
          BY <1>5, <3>1, <4>3, PostedCredits DEF z
        <5>2. Pending(t)' \subseteq Pending(t)
          BY <2>1, <3>1, PendingMoves
        <5>3. /\ IsFiniteSet(Pending(t)') /\ Cardinality(Pending(t)') \in Nat
              /\ Cardinality(Pending(t)') <= Cardinality(Pending(t)) /\ Cardinality(Pending(t)) \in Nat
          BY <5>2, PendingFinite
        <5> QED
          BY <1>1, <4>1, <5>1, <5>3
      <4> QED
        BY <4>2, <4>3
    <3>6. Cardinality(Shown(z)) + 1 <= Cardinality(Recorded(z))
      <4>1. Cardinality({}) + 1 <= Cardinality(Pending(z)) /\ Cardinality(Pending(z)) \in Nat
        BY <3>2, PendingFinite
      <4>2. Cardinality({}) = 0
        BY FS_EmptySet
      <4> QED
        BY <1>1, <3>2, <4>1, <4>2
    <3>7. CreditsBacked(streams')
      <4>1. /\ e.session = z /\ e.model = cmd[c].model
        BY <3>1 DEF z
      <4> QED
        BY <1>5, <3>2, <3>3, <3>6, <4>1, BackedStays DEF CreditsInv
    <3> QED
      BY <3>5, <3>7 DEF CreditsInv
  <2> QED
    BY <2>2, <2>3, <2>4
<1> QED
  BY <1>3, <1>4, <1>5 DEF Moves

LEMMA CreditsInit == Init => CreditsInv
<1> SUFFICES ASSUME Init PROVE CreditsInv
  OBVIOUS
<1> DEFINE C == "CreditAnalysisCompleted"
           q == streams["loan"]
<1>0. LoanInv
  BY LoanInit
<1>1. CreditsBacked(streams) /\ pc = [c \in Clients |-> "idle"]
  BY StoreAssumption DEF Init
<1>2. ASSUME NEW s \in Sessions
      PROVE  /\ IsFiniteSet(Pending(s))
             /\ Cardinality(Shown(s)) + Cardinality(Pending(s)) <= Cardinality(Recorded(s))
  <2>1. Pending(s) = {}
    BY <1>1 DEF Pending, PendingSteps
  <2>2. IsFiniteSet(Pending(s)) /\ Cardinality(Pending(s)) = 0
    BY <2>1, FS_EmptySet
  <2>3. /\ IsFiniteSet(Recorded(s)) /\ Cardinality(Recorded(s)) \in Nat /\ Cardinality(Shown(s)) \in Nat
        /\ Shown(s) \subseteq 1..Len(q)
    BY <1>0, CreditsFinite
  <2>4. CASE Shown(s) = {}
    BY <2>2, <2>3, <2>4, FS_EmptySet
  <2>5. CASE Shown(s) # {}
    <3>1. Len(q) \in Nat
      BY <1>0, LoanSeq
    <3>2. PICK i \in Shown(s) : \A k \in Shown(s) : i >= k
      BY <2>3, <2>5, <3>1, MaxOfBounded
    <3>3. /\ i \in OfType(q, C) /\ q[i].session = s
          /\ \A k \in Shown(s) : k <= i
      BY <2>3, <3>1, <3>2 DEF Shown
    <3> DEFINE before == {j \in OfType(streams[s], C) : /\ streams[s][j].gp < q[i].gp
                                                       /\ streams[s][j].model = q[i].model}
               upto == {k \in OfType(q, C) : k <= i /\ q[k].session = s}
    <3>4. Cardinality(upto) <= Cardinality(before)
      BY <1>1, <3>3 DEF CreditsBacked
    <3>5. upto = Shown(s) /\ before \subseteq Recorded(s)
      BY <3>3 DEF Shown, Recorded
    <3> HIDE DEF before, upto
    <3>6. Cardinality(before) \in Nat /\ Cardinality(before) <= Cardinality(Recorded(s))
      BY <2>3, <3>5, FS_Subset, FS_CardinalityType
    <3> QED
      BY <2>2, <2>3, <3>4, <3>5, <3>6
  <2> QED
    BY <2>4, <2>5
<1> QED
  BY <1>1, <1>2 DEF CreditsInv

(* Every analysis of a session is on the loan at most once, and until then   *)
(* its call holds a claim to it that ends with the call.                     *)
THEOREM CreditsInvariant == Spec => []CreditsInv
<1>1. Init => CreditsInv
  BY CreditsInit
<1>2. LoanInv /\ StateInv /\ CreditsInv /\ [Next]_vars => CreditsInv'
  <2> SUFFICES ASSUME LoanInv, StateInv, CreditsInv, [Next]_vars PROVE CreditsInv'
    OBVIOUS
  <2>1. ASSUME NEW c \in Clients, Moves(c) PROVE CreditsInv'
    BY <2>1, CreditsNext
  <2>2. ASSUME NEW c \in Clients, NEW command \in CommandSet, Issue(c, command) PROVE CreditsInv'
    <3>1. /\ Frame /\ pc[c] = "idle" /\ command.kind \in Kinds
          /\ pc' = [pc EXCEPT ![c] = command.kind] /\ cmd' = [cmd EXCEPT ![c] = command]
      BY <2>2, CommandAssumption DEF Issue, Frame
    <3>2. /\ pc'[c] \notin PendingSteps /\ pc[c] \notin PendingSteps
          /\ \A d \in Clients : d # c => pc'[d] = pc[d] /\ cmd'[d] = cmd[d]
      BY <3>1 DEF LoanInv, CallInv, Kinds, PendingSteps
    <3>3. ASSUME NEW t \in Sessions
          PROVE  Pending(t)' = Pending(t) /\ Shown(t)' = Shown(t) /\ Recorded(t)' = Recorded(t)
      <4>1. /\ Pending(t)' = {d \in Clients : pc'[d] \in PendingSteps /\ cmd'[d].session = t}
            /\ Pending(t) = {d \in Clients : pc[d] \in PendingSteps /\ cmd[d].session = t}
        BY DEF Pending
      <4>2. Pending(t)' = Pending(t)
        BY <3>2, <4>1
      <4> QED
        BY <3>1, <4>2 DEF Frame, Shown, Recorded
    <3>4. CreditsBacked(streams')
      BY <3>1 DEF Frame, CreditsInv
    <3> QED
      BY <3>3, <3>4 DEF CreditsInv
  <2>3. CASE UNCHANGED vars
    <3>1. \A t : Pending(t)' = Pending(t) /\ Shown(t)' = Shown(t) /\ Recorded(t)' = Recorded(t)
      BY <2>3 DEF vars, Pending, Shown, Recorded
    <3> QED
      BY <2>3, <3>1 DEF vars, CreditsInv
  <2> QED
    BY <2>1, <2>2, <2>3, StepMoves DEF Next
<1> QED
  BY <1>1, <1>2, LoanInvariant, StateInvariant, PTL DEF Spec

(* An analysis reaches the loan stream only after the session it names       *)
(* recorded it with the same model version, and no two share one, whatever   *)
(* calls conflict or crash between the two appends.                          *)
THEOREM CreditsAreBacked == Spec => []CreditIsBackedBySession
<1>1. CreditsInv => CreditIsBackedBySession
  BY DEF CreditsInv, CreditIsBackedBySession
<1> QED
  BY <1>1, CreditsInvariant, PTL

-------------------------------------------------------------------------------
(* What every caller may rely on *)

(* Each caller is idle or at a step of its command, and decides on a loan    *)
(* that replayed.                                                            *)
THEOREM CommandsTypeCorrect == Spec => []TypeOK
<1>1. ASSUME LoanInv, StateInv PROVE TypeOK
  <2>1. /\ DOMAIN streams = StreamIds
        /\ \A s \in StreamIds : \A i \in DOMAIN streams[s] : streams[s][i].gp \in 1..clock
    BY <1>1 DEF LoanInv, StoreInv, WellFormed
  <2>2. pc \in [Clients -> Steps]
    BY <1>1 DEF LoanInv, CallInv, StateInv
  <2>3. NoCommand \notin CommandSet
    BY CommandAssumption DEF NoCommand, Kinds
  <2>4. \A c \in Clients : /\ cmd[c] \in CommandSet \cup {NoCommand}
                           /\ pc[c] = "idle" <=> cmd[c] = NoCommand
    BY <1>1, <2>3 DEF LoanInv, CallInv, Commanded, StateInv
  <2>5. \A c \in Clients : seen[c].loan.state \in States /\ seen[c].loan.ok
    BY <1>1 DEF StateInv, GoodSeen, LoanType
  <2> QED
    BY <1>1, <2>1, <2>2, <2>4, <2>5 DEF TypeOK, StateInv
<1> QED
  BY <1>1, LoanInvariant, StateInvariant, PTL

(* The bridge to COMPLIANCE_REVIEW is appended once, however many calls find *)
(* the analysis complete: the version gate lets one of them through, and the *)
(* others have seen a loan that is out of date.                              *)
THEOREM BridgeIsUnique == Spec => []OneBridge
<1>1. StateInv => OneBridge
  BY AtMostOneCardinality DEF StateInv, OneBridge
<1> QED
  BY <1>1, StateInvariant, PTL

(* The fraud summary and the mirrors never run ahead of the loan, whatever   *)
(* calls crash between the appends of one screening.                         *)
THEOREM CopiesFollow == Spec => []FraudSummaryFollowsLoan
<1>1. CopiesInv => FraudSummaryFollowsLoan
  BY DEF CopiesInv, FraudSummaryFollowsLoan
<1> QED
  BY <1>1, StateInvariant, PTL

(* A loan whose stream no longer replays is left as it is: no handler        *)
(* appends to it, for it can no longer be loaded, nor at a version read      *)
(* before.                                                                   *)
BrokenLoanIsFrozen == [][~ Loan.ok => UNCHANGED streams["loan"]]_vars

THEOREM BrokenLoansAreFrozen == Spec => BrokenLoanIsFrozen
<1>1. LoanInv /\ StateInv /\ [Next]_vars => [~ Loan.ok => UNCHANGED streams["loan"]]_vars
  <2> SUFFICES ASSUME LoanInv, StateInv, ~ Loan.ok, [Next]_vars
               PROVE  UNCHANGED streams["loan"]
    OBVIOUS
  <2>1. ASSUME NEW c \in Clients, Moves(c) PROVE UNCHANGED streams["loan"]
    <3>1. \A s, e, step : Posts(c, s, e, step) => s # "loan"
      BY DEF Posts
    <3>2. \A s, e, step : Posts(c, s, e, step) => streams'["loan"] = streams["loan"]
      BY <3>1, PostedLoan
    <3> QED
      BY <2>1, <3>2 DEF Moves, Loads, Frame
  <2>2. ASSUME NEW c \in Clients, NEW command \in CommandSet, Issue(c, command)
        PROVE  UNCHANGED streams["loan"]
    BY <2>2 DEF Issue
  <2>3. CASE Next
    BY <2>1, <2>2, <2>3, StepMoves DEF Next
  <2>4. CASE UNCHANGED vars
    BY <2>4 DEF vars
  <2> QED
    BY <2>3, <2>4
<1> QED
  BY <1>1, LoanInvariant, StateInvariant, PTL DEF Spec, BrokenLoanIsFrozen
-------------------------------------------------------------------------------
(* One caller that checks the documented preconditions *)

(* It works on stores that such callers left: at most one credit analysis,   *)
(* and approvals that all the checks before them support.                    *)
OneOrderlyCaller ==
  /\ Disciplined
  /\ AtMostOne(Clients)
  /\ \A store \in InitialStores :
       /\ AtMostOne(OfType(store["loan"], "CreditAnalysisCompleted"))
       /\ ApprovalsCurrent(store)

(* What is so at each step of its handler. *)
Ready(step, command, what) ==
  /\ Loan.ok
  /\ step = "submit_append" => what.loan.state = "NONE"
  /\ step \in {"submit_reload", "submit_request"} => Loan.state = "SUBMITTED"
  /\ step \in {"credit_load_session", "credit_load_loan_events", "credit_validate"} =>
       what.loan = Loan
  /\ step \in {"credit_anchor", "credit_anchor_id", "credit_reload_agent", "credit_append_agent",
               "credit_id", "credit_reload_loan", "credit_append_loan"} =>
       Loan.state = "AWAITING_ANALYSIS" /\ ~ Loan.credit
  /\ step = "fraud_append_loan" => what.loan.state = "AWAITING_ANALYSIS"
  /\ step \in DecisionSteps => Loan.state = "COMPLIANCE_REVIEW"
  /\ step \in {"request_review", "request_review_append", "review", "review_append"} =>
       Loan.state = "PENDING_DECISION"
  /\ step \in {"review", "review_append"} /\ command.emit => command.final = "APPROVE"
  /\ step \in {"review_reload", "review_gate", "review_approve"} =>
       Loan.state = "DECIDED_PENDING_HUMAN" /\ Loan.human = "APPROVE"
  /\ step = "review_approve" => AllMandatoryChecksPassed(streams["compliance"])

OrderInv ==
  /\ Loan.ok
  /\ AtMostOne(OfType(streams["loan"], "CreditAnalysisCompleted"))
  /\ ApprovalsCurrent(streams)
  /\ \A c \in Clients : Ready(pc[c], cmd[c], seen[c])

LEMMA Appended ==
  ASSUME LoanInv, NEW s \in StreamIds, NEW e, streams' = [streams EXCEPT ![s] = Append(@, e)],
         NEW t \in StreamIds
  PROVE  /\ t # s => streams'[t] = streams[t]
         /\ Len(streams[t]) \in Nat /\ DOMAIN streams[t] = 1..Len(streams[t])
         /\ \A i \in DOMAIN streams[t] : i \in DOMAIN streams'[t] /\ streams'[t][i] = streams[t][i]
         /\ \A i \in DOMAIN streams'[t] :
              \/ i \in DOMAIN streams[t]
              \/ t = s /\ i = Len(streams[t]) + 1 /\ streams'[t][i] = e
         /\ \A n \in DOMAIN streams[t] : SubSeq(streams'[t], 1, n) = SubSeq(streams[t], 1, n)
<1>1. DOMAIN streams = StreamIds /\ streams[t] \in Seq(Range(streams[t]))
  BY LoanSeq DEF LoanInv, StoreInv, WellFormed
<1>2. PICK q : q = streams[t]
  OBVIOUS
<1>3. /\ Len(q) \in Nat /\ DOMAIN q = 1..Len(q) /\ DOMAIN Append(q, e) = 1..(Len(q) + 1)
      /\ \A i \in 1..Len(q) : Append(q, e)[i] = q[i]
      /\ Append(q, e)[Len(q) + 1] = e
      /\ \A n \in 1..Len(q) : SubSeq(Append(q, e), 1, n) = SubSeq(q, 1, n)
  BY <1>1, <1>2, AppendFacts
<1>4. CASE t = s
  <2>1. streams'[t] = Append(q, e)
    BY <1>1, <1>2, <1>4
  <2> QED
    BY <1>2, <1>3, <1>4, <2>1
<1>5. CASE t # s
  <2>1. streams'[t] = q
    BY <1>1, <1>2, <1>5
  <2> QED
    BY <1>2, <1>3, <1>5, <2>1
<1> QED
  BY <1>4, <1>5

(* No check that is written later changes what an approval rests on.         *)
LEMMA ApprovalsCurrentNext ==
  ASSUME LoanInv, ApprovalsCurrent(streams), NEW s \in StreamIds, NEW e, e.gp = clock + 1,
         streams' = [streams EXCEPT ![s] = Append(@, e)],
         s = "loan" /\ e.type = "ApplicationApproved" =>
           AllMandatoryChecksPassed(streams["compliance"])
  PROVE  ApprovalsCurrent(streams')
<1> DEFINE A == "ApplicationApproved"
<1>0. PICK q, r, loan, next :
        /\ q = streams["compliance"] /\ r = streams'["compliance"]
        /\ loan = streams["loan"] /\ next = streams'["loan"]
  OBVIOUS
<1>1. {"loan", "compliance"} \subseteq StreamIds
  BY SessionsApart
<1>2. /\ clock \in Nat
      /\ \A i \in DOMAIN loan : loan[i].gp \in 1..clock
      /\ \A i \in DOMAIN q : q[i].gp \in 1..clock
      /\ q \in Seq(Range(q))
  BY <1>0, <1>1, LoanSeq DEF LoanInv, StoreInv, WellFormed
<1>3. /\ Len(q) \in Nat /\ DOMAIN q = 1..Len(q)
      /\ \A i \in DOMAIN q : i \in DOMAIN r /\ r[i] = q[i]
      /\ \A i \in DOMAIN r : i \in DOMAIN q \/ (i = Len(q) + 1 /\ r[i] = e)
      /\ \A n \in DOMAIN q : SubSeq(r, 1, n) = SubSeq(q, 1, n)
      /\ s # "compliance" => r = q
  BY <1>0, <1>1, Appended
<1>4. /\ \A i \in DOMAIN loan : i \in DOMAIN next /\ next[i] = loan[i]
      /\ \A i \in DOMAIN next :
           i \in DOMAIN loan \/ (s = "loan" /\ i = Len(loan) + 1 /\ next[i] = e)
  BY <1>0, <1>1, Appended
<1>5. ASSUME NEW i \in OfType(next, A)
      PROVE  \E n \in DOMAIN r :
               /\ \A k \in DOMAIN r : k <= n <=> r[k].gp < next[i].gp
               /\ AllMandatoryChecksPassed(SubSeq(r, 1, n))
  <2>0. i \in DOMAIN next /\ next[i].type = A
    BY DEF OfType
  <2>1. CASE i \in DOMAIN loan
    <3>1. i \in OfType(loan, A) /\ next[i] = loan[i]
      BY <1>4, <2>0, <2>1 DEF OfType
    <3>2. PICK n \in DOMAIN q : /\ \A k \in DOMAIN q : k <= n <=> q[k].gp < loan[i].gp
                                /\ AllMandatoryChecksPassed(SubSeq(q, 1, n))
      BY <1>0, <3>1 DEF ApprovalsCurrent
    <3>3. ASSUME NEW k \in DOMAIN r PROVE k <= n <=> r[k].gp < next[i].gp
      <4>1. CASE k \in DOMAIN q
        BY <1>3, <3>1, <3>2, <4>1
      <4>2. CASE k = Len(q) + 1 /\ r[k] = e
        <5>1. ~ (k <= n)
          BY <1>3, <4>2
        <5>2. ~ (e.gp < loan[i].gp)
          BY <1>2, <2>1
        <5> QED
          BY <3>1, <4>2, <5>1, <5>2
      <4> QED
        BY <1>3, <4>1, <4>2
    <3>4. n \in DOMAIN r /\ SubSeq(r, 1, n) = SubSeq(q, 1, n)
      BY <1>3
    <3> QED
      BY <3>2, <3>3, <3>4
  <2>2. CASE s = "loan" /\ next[i] = e
    <3>1. r = q /\ AllMandatoryChecksPassed(q)
      BY <1>0, <1>3, <2>0, <2>2
    <3>2. q # <<>>
      BY <3>1 DEF AllMandatoryChecksPassed, Required, OfType
    <3>3. Len(q) \in DOMAIN q
      BY <1>2, <1>3, <3>2, EmptySeq
    <3>4. SubSeq(q, 1, Len(q)) = q
      BY <1>2, SubSeqFull
    <3>5. \A k \in DOMAIN q : k <= Len(q) <=> q[k].gp < e.gp
      BY <1>2, <1>3
    <3> QED
      BY <2>2, <3>1, <3>3, <3>4, <3>5
  <2> QED
    BY <1>4, <2>0, <2>1, <2>2
<1> QED
  BY <1>0, <1>5 DEF ApprovalsCurrent

(* The state after an event that the loan takes. *)
LEMMA TookState ==
  ASSUME NEW loan \in LoanType, NEW e, Took(loan, e)
  PROVE  LET next == ApplyToLoan(loan, e)
         IN /\ e.type = "ApplicationSubmitted" => next.state = "SUBMITTED"
            /\ e.type = "HumanReviewCompleted" /\ e.final = "APPROVE" =>
                 next.state = "DECIDED_PENDING_HUMAN" /\ next.human = "APPROVE"
<1> DEFINE n == Accepted(loan, e)
<1>1. ApplyToLoan(loan, e) = [n EXCEPT !.version = loan.version + 1]
  BY DEF ApplyToLoan, Took
<1>2. CASE e.type = "ApplicationSubmitted"
  <2>1. n = [loan EXCEPT !.state = "SUBMITTED"]
    BY <1>2 DEF Accepted
  <2> QED
    BY <1>1, <1>2, <2>1 DEF LoanType
<1>3. CASE e.type = "HumanReviewCompleted" /\ e.final = "APPROVE"
  <2>1. n = [loan EXCEPT !.state = "DECIDED_PENDING_HUMAN", !.human = "APPROVE"]
    BY <1>3 DEF Accepted
  <2> QED
    BY <1>1, <1>3, <2>1 DEF LoanType
<1> QED
  BY <1>2, <1>3

(* An append that the loan takes, where it is to the loan. *)
Writes(c, s, e, step) ==
  /\ s \in StreamIds
  /\ streams' = [streams EXCEPT ![s] = Append(@, e)]
  /\ e.gp = clock + 1 /\ clock' = e.gp
  /\ IF step = "idle" THEN Finish(c)
     ELSE pc' = [pc EXCEPT ![c] = step] /\ cmd' = cmd /\ seen' = seen
  /\ s # "loan" => Ready(step, cmd[c], seen[c]) /\ step # "review_approve"
  /\ s = "loan" =>
       /\ Took(Loan, e) /\ e.type \in LoanEvents
       /\ e.type = "CreditAnalysisCompleted" => ~ Loan.credit
       /\ e.type = "ApplicationApproved" => AllMandatoryChecksPassed(streams["compliance"])
       /\ step \in {"idle", "submit_reload", "fraud_id", "credit_check_bridge", "review_reload"}
       /\ step = "submit_reload" => e.type = "ApplicationSubmitted"
       /\ step = "review_reload" => e.type = "HumanReviewCompleted" /\ e.final = "APPROVE"

Turns(c, command, what, step) ==
  /\ pc' = [pc EXCEPT ![c] = step] /\ cmd' = [cmd EXCEPT ![c] = command]
  /\ seen' = [seen EXCEPT ![c] = what]
  /\ Ready(step, command, what)

Proceeds(c) ==
  \/ Frame /\ \E command, what, step : Turns(c, command, what, step)
  \/ \E s, e, step : Writes(c, s, e, step)

LEMMA IdleIsReady == ASSUME Loan.ok PROVE \A command, what : Ready("idle", command, what)
BY DEF Ready, DecisionSteps

LEMMA OrderNext ==
  ASSUME OneOrderlyCaller, LoanInv, LoanInv', StateInv, StateInv', OrderInv,
         NEW c \in Clients, Proceeds(c)
  PROVE  OrderInv'
<1>0. /\ \A d \in Clients : d = c
      /\ pc = [d \in Clients |-> pc[d]] /\ cmd = [d \in Clients |-> cmd[d]]
      /\ seen = [d \in Clients |-> seen[d]]
  BY DEF OneOrderlyCaller, AtMostOne, LoanInv, CallInv, StateInv
<1>1. ASSUME Frame, NEW command, NEW what, NEW step, Turns(c, command, what, step)
      PROVE  OrderInv'
  <2>1. streams' = streams /\ Loan' = Loan
    BY <1>1 DEF Frame, Loan
  <2>2. /\ \A d \in Clients : pc'[d] = step /\ cmd'[d] = command /\ seen'[d] = what
        /\ Ready(step, command, what)
    BY <1>0, <1>1 DEF Turns
  <2>3. \A d \in Clients : Ready(pc[d], cmd[d], seen[d])'
    BY <2>1, <2>2 DEF Ready
  <2> QED
    BY <2>1, <2>3 DEF OrderInv
<1>2. ASSUME NEW s, NEW e, NEW step, Writes(c, s, e, step) PROVE OrderInv'
  <2> DEFINE C == "CreditAnalysisCompleted"
  <2>0. /\ s \in StreamIds /\ e.gp = clock + 1
        /\ streams' = [streams EXCEPT ![s] = Append(@, e)]
        /\ {"loan", "compliance"} \subseteq StreamIds
    BY <1>2, SessionsApart DEF Writes
  <2>1. ApprovalsCurrent(streams')
    BY <1>2, <2>0, ApprovalsCurrentNext DEF Writes, OrderInv
  <2>2. /\ Loan \in LoanType
        /\ Loan.ok => (Loan.credit <=> OfType(streams["loan"], C) # {})
    BY DEF StateInv, Shape, Loan
  <2>3. \/ step = "idle" /\ (\A d \in Clients : pc'[d] = "idle")
        \/ \A d \in Clients : pc'[d] = step /\ cmd'[d] = cmd[c] /\ seen'[d] = seen[c]
    BY <1>0, <1>2 DEF Writes, Finish
  <2>4. CASE s # "loan"
    <3>1. streams'["loan"] = streams["loan"] /\ Loan' = Loan
      BY <2>0, <2>4, Appended DEF Loan
    <3>2. Ready(step, cmd[c], seen[c]) /\ step # "review_approve"
      BY <1>2, <2>4 DEF Writes
    <3>3. \A d \in Clients : Ready(pc[d], cmd[d], seen[d])'
      BY <2>3, <3>1, <3>2 DEF Ready, DecisionSteps
    <3> QED
      BY <2>1, <3>1, <3>3 DEF OrderInv
  <2>5. CASE s = "loan"
    <3>1. PICK q : q = streams["loan"]
      OBVIOUS
    <3>2. q \in Seq(Range(q))
      BY <3>1, LoanSeq
    <3>3. streams'["loan"] = Append(q, e)
      BY <2>0, <2>5, <3>1, LoanSeq DEF LoanInv, StoreInv, WellFormed
    <3>4. Loan' = ApplyToLoan(Loan, e)
      BY <3>1, <3>2, <3>3, LoanOfNext DEF Loan
    <3>5. Took(Loan, e) /\ e.type \in LoanEvents
      BY <1>2, <2>5 DEF Writes
    <3>6. Loan'.ok
      BY <2>2, <3>4, <3>5, ApplyFacts
    <3>7. AtMostOne(OfType(streams["loan"], C))'
      <4>1. OfType(Append(q, e), C) =
              IF e.type = C THEN OfType(q, C) \cup {Len(q) + 1} ELSE OfType(q, C)
        <5> HIDE DEF C
        <5> QED
          BY <3>2, OfTypeAppend
      <4>2. AtMostOne(OfType(q, C)) /\ (e.type = C => OfType(q, C) = {})
        BY <1>2, <2>2, <2>5, <3>1 DEF OrderInv, Writes
      <4>3. AtMostOne(OfType(Append(q, e), C))
        BY <4>1, <4>2 DEF AtMostOne
      <4> QED
        BY <3>3, <4>3
    <3>8. /\ step \in {"idle", "submit_reload", "fraud_id", "credit_check_bridge", "review_reload"}
          /\ step = "submit_reload" => Loan'.state = "SUBMITTED"
          /\ step = "review_reload" => Loan'.state = "DECIDED_PENDING_HUMAN" /\ Loan'.human = "APPROVE"
      <4>1. /\ step \in {"idle", "submit_reload", "fraud_id", "credit_check_bridge", "review_reload"}
            /\ step = "submit_reload" => e.type = "ApplicationSubmitted"
            /\ step = "review_reload" => e.type = "HumanReviewCompleted" /\ e.final = "APPROVE"
        BY <1>2, <2>5 DEF Writes
      <4>2. /\ e.type = "ApplicationSubmitted" => ApplyToLoan(Loan, e).state = "SUBMITTED"
            /\ e.type = "HumanReviewCompleted" /\ e.final = "APPROVE" =>
                 /\ ApplyToLoan(Loan, e).state = "DECIDED_PENDING_HUMAN"
                 /\ ApplyToLoan(Loan, e).human = "APPROVE"
        BY <2>2, <3>5, TookState
      <4> QED
        BY <3>4, <4>1, <4>2
    <3>9. \A d \in Clients : Ready(pc[d], cmd[d], seen[d])'
      BY <2>3, <3>6, <3>8 DEF Ready, DecisionSteps
    <3> QED
      BY <2>1, <3>6, <3>7, <3>9 DEF OrderInv
  <2> QED
    BY <2>4, <2>5
<1> QED
  BY <1>1, <1>2 DEF Proceeds

LEMMA ReadProceeds ==
  ASSUME LoanInv, StateInv, OrderInv, NEW c \in Clients, NEW check, NEW what, NEW step,
         Read(c, check, what, step), check => Ready(step, cmd[c], what)
  PROVE  Proceeds(c)
<1>1. Frame
  BY DEF Read, Frame
<1>2. CASE check
  <2>1. PICK command : command = cmd[c]
    OBVIOUS
  <2>2. cmd' = [cmd EXCEPT ![c] = command]
    BY <1>2, <2>1 DEF Read, Goto, LoanInv, CallInv
  <2>3. Turns(c, command, what, step)
    BY <1>2, <2>1, <2>2 DEF Read, Goto, Turns
  <2> QED
    BY <1>1, <2>3 DEF Proceeds
<1>3. CASE ~ check
  <2>1. Turns(c, NoCommand, Nothing, "idle")
    BY <1>3, IdleIsReady DEF Read, Finish, Turns, OrderInv
  <2> QED
    BY <1>1, <2>1 DEF Proceeds
<1> QED
  BY <1>2, <1>3

LEMMA AppendProceeds ==
  ASSUME LoanInv, StateInv, OrderInv, NEW c \in Clients, NEW s \in StreamIds, NEW expected,
         NEW e, NEW step, AppendTo(c, s, expected, e, step), e.gp = clock + 1,
         s # "loan" => Ready(step, cmd[c], seen[c]) /\ step # "review_approve",
         s = "loan" /\ Matches(expected, streams["loan"]) =>
           /\ Took(Loan, e) /\ e.type \in LoanEvents
           /\ e.type = "CreditAnalysisCompleted" => ~ Loan.credit
           /\ e.type = "ApplicationApproved" => AllMandatoryChecksPassed(streams["compliance"])
           /\ step \in {"idle", "submit_reload", "fraud_id", "credit_check_bridge", "review_reload"}
           /\ step = "submit_reload" => e.type = "ApplicationSubmitted"
           /\ step = "review_reload" => e.type = "HumanReviewCompleted" /\ e.final = "APPROVE"
  PROVE  Proceeds(c)
<1>1. CASE Matches(expected, streams[s])
  <2>1. Writes(c, s, e, step)
    BY <1>1 DEF AppendTo, Goto, Writes
  <2> QED
    BY <2>1 DEF Proceeds
<1>2. CASE ~ Matches(expected, streams[s])
  <2>1. Frame /\ Turns(c, NoCommand, Nothing, "idle")
    BY <1>2, IdleIsReady DEF AppendTo, Finish, Frame, Turns, OrderInv
  <2> QED
    BY <2>1 DEF Proceeds
<1> QED
  BY <1>1, <1>2

LEMMA LoanReadsProceed ==
  ASSUME LoanInv, StateInv, OrderInv, NEW c \in Clients,
         \/ SubmitLoad(c) \/ SubmitReload(c) \/ CreditLoadLoan(c) \/ CreditReloadLoan(c) \/ CreditCheckBridge(c)
         \/ FraudLoad(c) \/ FraudReloadLoan(c) \/ DecisionLoad(c) \/ DecisionReload(c)
         \/ RequestReviewLoad(c) \/ ReviewLoad(c) \/ ReviewReload(c)
  PROVE  Proceeds(c)
<1> DEFINE Leads(from, check, step) ==
             pc[c] = from /\ Read(c, check, [seen[c] EXCEPT !.loan = Loan], step)
<1>1. ASSUME NEW from, NEW check, NEW step, Leads(from, check, step),
             \A what : what.loan = Loan /\ check /\ Ready(from, cmd[c], seen[c]) =>
                        Ready(step, cmd[c], what)
      PROVE  Proceeds(c)
  <2> DEFINE what == [seen[c] EXCEPT !.loan = Loan]
  <2>1. what.loan = Loan
    BY DEF StateInv, GoodSeen, Nothing
  <2>2. pc[c] = from /\ Read(c, check, what, step)
    BY <1>1
  <2>3. Ready(from, cmd[c], seen[c])
    BY <2>2 DEF OrderInv
  <2> HIDE DEF what
  <2> QED
    BY <1>1, <2>1, <2>2, <2>3, ReadProceeds
<1> HIDE DEF Leads
<1>2. Loan.ok
  BY DEF OrderInv
<1> USE DEF Ready, DecisionSteps
<1>3. CASE SubmitLoad(c)
  <2> DEFINE check == Loan.ok /\ Loan.version = 0 /\ Loan.state = "NONE"
  <2>1. Leads("submit", check, "submit_append")
    BY <1>3 DEF Leads, SubmitLoad, LoadLoan
  <2> QED
    BY <1>1, <1>2, <2>1
<1>4. CASE SubmitReload(c)
  <2> DEFINE check == Loan.ok /\ Always(Loan)
  <2>1. Leads("submit_reload", check, "submit_request")
    BY <1>4 DEF Leads, SubmitReload, LoadLoan
  <2> QED
    BY <1>1, <1>2, <2>1
<1>5. CASE CreditLoadLoan(c)
  <2> DEFINE check == Loan.ok /\ Always(Loan)
  <2>1. Leads("credit", check, "credit_load_session")
    BY <1>5 DEF Leads, CreditLoadLoan, LoadLoan
  <2> QED
    BY <1>1, <1>2, <2>1
<1>6. CASE CreditReloadLoan(c)
  <2> DEFINE check == Loan.ok /\ Always(Loan)
  <2>1. Leads("credit_reload_loan", check, "credit_append_loan")
    BY <1>6 DEF Leads, CreditReloadLoan, LoadLoan
  <2> QED
    BY <1>1, <1>2, <2>1
<1>7. CASE CreditCheckBridge(c)
  <2> DEFINE check == Loan.ok /\ Loan.state = "ANALYSIS_COMPLETE"
  <2>1. Leads("credit_check_bridge", check, "append_bridge")
    BY <1>7 DEF Leads, CreditCheckBridge, LoadLoan
  <2> QED
    BY <1>1, <1>2, <2>1
<1>8. CASE FraudLoad(c)
  <2> DEFINE check == Loan.ok /\ Loan.state = "AWAITING_ANALYSIS"
  <2>1. Leads("fraud", check, "fraud_append_loan")
    BY <1>8 DEF Leads, FraudLoad, LoadLoan
  <2> QED
    BY <1>1, <1>2, <2>1
<1>9. CASE FraudReloadLoan(c)
  <2> DEFINE check == Loan.ok /\ Loan.state = "ANALYSIS_COMPLETE"
  <2>1. Leads("fraud_reload_loan", check, "fraud_check_bridge")
    BY <1>9 DEF Leads, FraudReloadLoan, LoadLoan
  <2> QED
    BY <1>1, <1>2, <2>1
<1>10. CASE DecisionLoad(c)
  <2> DEFINE check == Loan.ok /\ Always(Loan)
  <2>1. Leads("decision", check, "decision_validate")
    BY <1>10 DEF Leads, DecisionLoad, LoadLoan
  <2> QED
    BY <1>1, <1>2, <2>1
<1>11. CASE DecisionReload(c)
  <2> DEFINE check == Loan.ok /\ Always(Loan)
  <2>1. Leads("decision_reload", check, "decision_append")
    BY <1>11 DEF Leads, DecisionReload, LoadLoan
  <2> QED
    BY <1>1, <1>2, <2>1
<1>12. CASE RequestReviewLoad(c)
  <2> DEFINE check == Loan.ok /\ Always(Loan)
  <2>1. Leads("request_review", check, "request_review_append")
    BY <1>12 DEF Leads, RequestReviewLoad, LoadLoan
  <2> QED
    BY <1>1, <1>2, <2>1
<1>13. CASE ReviewLoad(c)
  <2> DEFINE check == Loan.ok /\ Always(Loan)
  <2>1. Leads("review", check, "review_append")
    BY <1>13 DEF Leads, ReviewLoad, LoadLoan
  <2> QED
    BY <1>1, <1>2, <2>1
<1>14. CASE ReviewReload(c)
  <2> DEFINE check == Loan.ok /\ Always(Loan)
  <2>1. Leads("review_reload", check, "review_gate")
    BY <1>14 DEF Leads, ReviewReload, LoadLoan
  <2> QED
    BY <1>1, <1>2, <2>1
<1> QED
  BY <1>3, <1>4, <1>5, <1>6, <1>7, <1>8, <1>9, <1>10, <1>11, <1>12, <1>13, <1>14

LEMMA OtherReadsProceed ==
  ASSUME LoanInv, StateInv, OrderInv, NEW c \in Clients,
         \/ StartLoad(c) \/ CreditLoadSession(c) \/ CreditLoadLoanEvents(c) \/ CreditValidate(c)
         \/ CreditAnchorId(c) \/ CreditReloadAgent(c) \/ CreditId(c) \/ FraudId(c)
         \/ FraudSummaryVersion(c) \/ FraudLoadAgent(c) \/ FraudCheckBridge(c) \/ ComplianceLoad(c)
         \/ ComplianceReload(c) \/ DecisionValidateCausalChain(c) \/ ReviewGate(c)
  PROVE  Proceeds(c)
<1> DEFINE Leads(from, guard, step) ==
             /\ pc[c] = from
             /\ \E check, what : /\ Read(c, check, what, step)
                                /\ what.loan = seen[c].loan /\ (check => guard)
<1>1. ASSUME NEW from, NEW guard, NEW step, Leads(from, guard, step),
             \A what : what.loan = seen[c].loan /\ guard /\ Ready(from, cmd[c], seen[c]) =>
                        Ready(step, cmd[c], what)
      PROVE  Proceeds(c)
  <2>1. PICK check, what : /\ Read(c, check, what, step)
                           /\ what.loan = seen[c].loan /\ (check => guard)
    BY <1>1
  <2>2. Ready(from, cmd[c], seen[c])
    BY <1>1 DEF OrderInv
  <2> QED
    BY <1>1, <2>1, <2>2, ReadProceeds
<1>2. DOMAIN seen[c] = DOMAIN Nothing
  BY DEF StateInv, GoodSeen
<1>3. DOMAIN seen[c] = {"loan", "agent", "version", "lastCredit", "overridden", "passes", "cause"}
  BY <1>2 DEF Nothing
<1>4. \A x : /\ [seen[c] EXCEPT !.agent = x].loan = seen[c].loan
            /\ [seen[c] EXCEPT !.cause = x].loan = seen[c].loan
            /\ [seen[c] EXCEPT !.version = x].loan = seen[c].loan
            /\ [seen[c] EXCEPT !.lastCredit = x].loan = seen[c].loan
            /\ [seen[c] EXCEPT !.overridden = x].loan = seen[c].loan
            /\ [seen[c] EXCEPT !.version = x, !.passes = @ + 1].loan = seen[c].loan
  BY <1>3
<1> USE DEF Ready, DecisionSteps
<1>5. CASE StartLoad(c)
  <2>1. Leads("start", TRUE, "start_append")
    BY <1>4, <1>5 DEF StartLoad
  <2> HIDE DEF Leads
  <2> QED
    BY <1>1, <2>1
<1>6. CASE CreditLoadSession(c)
  <2>1. Leads("credit_load_session", TRUE, "credit_load_loan_events")
    BY <1>4, <1>6 DEF CreditLoadSession
  <2> HIDE DEF Leads
  <2> QED
    BY <1>1, <2>1
<1>7. CASE CreditLoadLoanEvents(c)
  <2> DEFINE got == \E i \in OfType(streams["loan"], "HumanReviewCompleted") :
                       /\ streams["loan"][i].override
                       /\ streams["loan"][i].gp > seen[c].lastCredit
             check == TRUE
             what == [seen[c] EXCEPT !.overridden = got]
  <2>1. pc[c] = "credit_load_loan_events" /\ Read(c, check, what, "credit_validate")
    BY <1>7 DEF CreditLoadLoanEvents
  <2>2. what.loan = seen[c].loan
    BY <1>4
  <2> HIDE DEF check, what
  <2>3. Leads("credit_load_loan_events", TRUE, "credit_validate")
    BY <2>1, <2>2
  <2> HIDE DEF Leads
  <2> QED
    BY <1>1, <2>3
<1>8. CASE CreditValidate(c)
  <2> DEFINE guard == seen[c].loan.state = "AWAITING_ANALYSIS" /\ ~ seen[c].loan.credit
  <2>1. \/ Leads("credit_validate", guard, "credit_anchor")
        \/ Leads("credit_validate", guard, "credit_append_agent")
    BY <1>4, <1>8 DEF CreditValidate
  <2> HIDE DEF Leads
  <2>2. Loan.ok
    BY DEF OrderInv
  <2> QED
    BY <1>1, <2>1, <2>2
<1>9. CASE CreditAnchorId(c)
  <2>1. Leads("credit_anchor_id", TRUE, "credit_reload_agent")
    BY <1>4, <1>9 DEF CreditAnchorId, ReadLastEvent
  <2> HIDE DEF Leads
  <2> QED
    BY <1>1, <2>1
<1>10. CASE CreditReloadAgent(c)
  <2> DEFINE got == AgentOf(streams[cmd[c].session])
             check == got.ok /\ got.context /\ got.model = cmd[c].model
             what == [seen[c] EXCEPT !.agent = got]
  <2>1. pc[c] = "credit_reload_agent" /\ Read(c, check, what, "credit_append_agent")
    BY <1>10 DEF CreditReloadAgent
  <2>2. what.loan = seen[c].loan
    BY <1>4
  <2> HIDE DEF check, what
  <2>3. Leads("credit_reload_agent", TRUE, "credit_append_agent")
    BY <2>1, <2>2
  <2> HIDE DEF Leads
  <2> QED
    BY <1>1, <2>3
<1>11. CASE CreditId(c)
  <2>1. Leads("credit_id", TRUE, "credit_reload_loan")
    BY <1>4, <1>11 DEF CreditId, ReadLastEvent
  <2> HIDE DEF Leads
  <2> QED
    BY <1>1, <2>1
<1>12. CASE FraudId(c)
  <2>1. Leads("fraud_id", TRUE, "fraud_summary_version")
    BY <1>4, <1>12 DEF FraudId, ReadLastEvent
  <2> HIDE DEF Leads
  <2> QED
    BY <1>1, <2>1
<1>13. CASE FraudSummaryVersion(c)
  <2>1. Leads("fraud_summary_version", TRUE, "fraud_append_summary")
    BY <1>4, <1>13 DEF FraudSummaryVersion
  <2> HIDE DEF Leads
  <2> QED
    BY <1>1, <2>1
<1>14. CASE FraudLoadAgent(c)
  <2> DEFINE got == AgentOf(streams[cmd[c].mirror])
             check == got.ok /\ got.context
             what == [seen[c] EXCEPT !.agent = got]
  <2>1. pc[c] = "fraud_load_agent" /\ Read(c, check, what, "fraud_append_agent")
    BY <1>14 DEF FraudLoadAgent
  <2>2. what.loan = seen[c].loan
    BY <1>4
  <2> HIDE DEF check, what
  <2>3. Leads("fraud_load_agent", TRUE, "fraud_append_agent")
    BY <2>1, <2>2
  <2> HIDE DEF Leads
  <2> QED
    BY <1>1, <2>3
<1>15. CASE FraudCheckBridge(c)
  <2>1. Leads("fraud_check_bridge", TRUE, "append_bridge")
    BY <1>4, <1>15 DEF FraudCheckBridge
  <2> HIDE DEF Leads
  <2> QED
    BY <1>1, <2>1
<1>16. CASE ComplianceLoad(c)
  <2>1. Leads("compliance", TRUE, "compliance_append_request")
    BY <1>4, <1>16 DEF ComplianceLoad
  <2> HIDE DEF Leads
  <2> QED
    BY <1>1, <2>1
<1>17. CASE ComplianceReload(c)
  <2>1. Leads("compliance_reload", TRUE, "compliance_append_pass")
    BY <1>4, <1>17 DEF ComplianceReload
  <2> HIDE DEF Leads
  <2> QED
    BY <1>1, <2>1
<1>18. CASE DecisionValidateCausalChain(c)
  <2>1. Leads("decision_validate", TRUE, "decision_reload")
    BY <1>4, <1>18 DEF DecisionValidateCausalChain
  <2> HIDE DEF Leads
  <2> QED
    BY <1>1, <2>1
<1>19. CASE ReviewGate(c)
  <2> DEFINE guard == AllMandatoryChecksPassed(streams["compliance"])
  <2>1. Leads("review_gate", guard, "review_approve")
    BY <1>4, <1>19 DEF ReviewGate
  <2> HIDE DEF Leads
  <2> QED
    BY <1>1, <2>1
<1> QED
  BY <1>5, <1>6, <1>7, <1>8, <1>9, <1>10, <1>11, <1>12, <1>13, <1>14, <1>15, <1>16, <1>17, <1>18, <1>19

LEMMA LoanAppendsProceed ==
  ASSUME LoanInv, StateInv, OrderInv, NEW c \in Clients,
         \/ SubmitAppend(c) \/ SubmitRequest(c) \/ CreditAppendLoan(c) \/ AppendBridge(c)
         \/ FraudAppendLoan(c) \/ DecisionAppend(c) \/ RequestReviewAppend(c)
         \/ ReviewAppend(c) \/ ReviewApprove(c)
  PROVE  Proceeds(c)
<1> DEFINE Leads(from, e, step) ==
             /\ pc[c] = from
             /\ \E expected \in {seen[c].loan.version, OrNew(seen[c].loan.version)} :
                  AppendTo(c, "loan", expected, e, step)
             /\ e.gp = clock + 1
           Taken(e, step) ==
             /\ Took(Loan, e) /\ e.type \in LoanEvents
             /\ e.type = "CreditAnalysisCompleted" => ~ Loan.credit
             /\ e.type = "ApplicationApproved" => AllMandatoryChecksPassed(streams["compliance"])
             /\ step \in {"idle", "submit_reload", "fraud_id", "credit_check_bridge", "review_reload"}
             /\ step = "submit_reload" => e.type = "ApplicationSubmitted"
             /\ step = "review_reload" => e.type = "HumanReviewCompleted" /\ e.final = "APPROVE"
<1>1. ASSUME NEW from, NEW e, NEW step, Leads(from, e, step),
             /\ seen[c].loan = Loan /\ Loan.ok /\ Ready(from, cmd[c], seen[c])
             /\ from = "append_bridge" => Loan.state = "ANALYSIS_COMPLETE"
             => Taken(e, step)
      PROVE  Proceeds(c)
  <2>1. PICK expected \in {seen[c].loan.version, OrNew(seen[c].loan.version)} :
          AppendTo(c, "loan", expected, e, step)
    BY <1>1
  <2>2. Matches(expected, streams["loan"]) => Loan.ok /\ seen[c].loan = Loan
    BY <2>1, Fenced
  <2>3. /\ Ready(from, cmd[c], seen[c])
        /\ from = "append_bridge" => seen[c].loan.state = "ANALYSIS_COMPLETE"
    BY <1>1 DEF OrderInv, StateInv, GoodSeen, BridgeSteps
  <2>4. Matches(expected, streams["loan"]) => Taken(e, step)
    BY <1>1, <2>2, <2>3
  <2>5. "loan" \in StreamIds
    BY SessionsApart
  <2> QED
    BY <1>1, <2>1, <2>4, <2>5, AppendProceeds
<1>2. CASE SubmitAppend(c)
  <2> DEFINE e == Event("ApplicationSubmitted", 0)
             step == "submit_reload"
  <2>1. /\ Leads("submit_append", e, step)
        /\ e.type = "ApplicationSubmitted"
    BY <1>2 DEF SubmitAppend, Event
  <2> HIDE DEF e, Leads
  <2>2. /\ seen[c].loan = Loan /\ Loan.ok /\ Ready("submit_append", cmd[c], seen[c])
        /\ "submit_append" = "append_bridge" => Loan.state = "ANALYSIS_COMPLETE"
        => Taken(e, step)
    BY <2>1 DEF Ready, DecisionSteps, Took, Accepts, LoanEvents
  <2> HIDE DEF Taken, step
  <2> QED
    BY <1>1, <2>1, <2>2
<1>3. CASE SubmitRequest(c)
  <2> DEFINE e == Event("CreditAnalysisRequested", LastEvent("loan"))
             step == "idle"
  <2>1. /\ Leads("submit_request", e, step)
        /\ e.type = "CreditAnalysisRequested"
    BY <1>3 DEF SubmitRequest, Event
  <2> HIDE DEF e, Leads
  <2>2. /\ seen[c].loan = Loan /\ Loan.ok /\ Ready("submit_request", cmd[c], seen[c])
        /\ "submit_request" = "append_bridge" => Loan.state = "ANALYSIS_COMPLETE"
        => Taken(e, step)
    BY <2>1 DEF Ready, DecisionSteps, Took, Accepts, LoanEvents
  <2> HIDE DEF Taken, step
  <2> QED
    BY <1>1, <2>1, <2>2
<1>4. CASE CreditAppendLoan(c)
  <2> DEFINE e == Credit(cmd[c].session, cmd[c].model, seen[c].cause)
             step == "credit_check_bridge"
  <2>1. /\ Leads("credit_append_loan", e, step)
        /\ e.type = "CreditAnalysisCompleted"
    BY <1>4 DEF CreditAppendLoan, Credit
  <2> HIDE DEF e, Leads
  <2>2. /\ seen[c].loan = Loan /\ Loan.ok /\ Ready("credit_append_loan", cmd[c], seen[c])
        /\ "credit_append_loan" = "append_bridge" => Loan.state = "ANALYSIS_COMPLETE"
        => Taken(e, step)
    BY <2>1 DEF Ready, DecisionSteps, Took, Accepts, LoanEvents
  <2> HIDE DEF Taken, step
  <2> QED
    BY <1>1, <2>1, <2>2
<1>5. CASE AppendBridge(c)
  <2> DEFINE e == Event("ComplianceReviewStarted", LastEvent("loan"))
             step == "idle"
  <2>1. /\ Leads("append_bridge", e, step)
        /\ e.type = "ComplianceReviewStarted"
    BY <1>5 DEF AppendBridge, Event
  <2> HIDE DEF e, Leads
  <2>2. /\ seen[c].loan = Loan /\ Loan.ok /\ Ready("append_bridge", cmd[c], seen[c])
        /\ "append_bridge" = "append_bridge" => Loan.state = "ANALYSIS_COMPLETE"
        => Taken(e, step)
    BY <2>1 DEF Ready, DecisionSteps, Took, Accepts, LoanEvents
  <2> HIDE DEF Taken, step
  <2> QED
    BY <1>1, <2>1, <2>2
<1>6. CASE FraudAppendLoan(c)
  <2> DEFINE e == Event("FraudScreeningCompleted", 0)
             step == "fraud_id"
  <2>1. /\ Leads("fraud_append_loan", e, step)
        /\ e.type = "FraudScreeningCompleted"
    BY <1>6 DEF FraudAppendLoan, Event
  <2> HIDE DEF e, Leads
  <2>2. /\ seen[c].loan = Loan /\ Loan.ok /\ Ready("fraud_append_loan", cmd[c], seen[c])
        /\ "fraud_append_loan" = "append_bridge" => Loan.state = "ANALYSIS_COMPLETE"
        => Taken(e, step)
    BY <2>1 DEF Ready, DecisionSteps, Took, Accepts, LoanEvents
  <2> HIDE DEF Taken, step
  <2> QED
    BY <1>1, <2>1, <2>2
<1>7. CASE DecisionAppend(c)
  <2> DEFINE e == [type |-> "DecisionGenerated", gp |-> clock + 1,
                   cause |-> LastEvent("loan"), sessions |-> cmd[c].sessions]
             step == "idle"
  <2>1. /\ Leads("decision_append", e, step)
        /\ e.type = "DecisionGenerated"
    BY <1>7 DEF DecisionAppend
  <2> HIDE DEF e, Leads
  <2>2. /\ seen[c].loan = Loan /\ Loan.ok /\ Ready("decision_append", cmd[c], seen[c])
        /\ "decision_append" = "append_bridge" => Loan.state = "ANALYSIS_COMPLETE"
        => Taken(e, step)
    BY <2>1 DEF Ready, DecisionSteps, Took, Accepts, LoanEvents
  <2> HIDE DEF Taken, step
  <2> QED
    BY <1>1, <2>1, <2>2
<1>8. CASE RequestReviewAppend(c)
  <2> DEFINE e == Event("HumanReviewRequested", LastEvent("loan"))
             step == "idle"
  <2>1. /\ Leads("request_review_append", e, step)
        /\ e.type = "HumanReviewRequested"
    BY <1>8 DEF RequestReviewAppend, Event
  <2> HIDE DEF e, Leads
  <2>2. /\ seen[c].loan = Loan /\ Loan.ok /\ Ready("request_review_append", cmd[c], seen[c])
        /\ "request_review_append" = "append_bridge" => Loan.state = "ANALYSIS_COMPLETE"
        => Taken(e, step)
    BY <2>1 DEF Ready, DecisionSteps, Took, Accepts, LoanEvents
  <2> HIDE DEF Taken, step
  <2> QED
    BY <1>1, <2>1, <2>2
<1>9. CASE ReviewAppend(c)
  <2> DEFINE e == [type |-> "HumanReviewCompleted", gp |-> clock + 1, cause |-> 0,
                   final |-> cmd[c].final, override |-> cmd[c].override]
             step == IF cmd[c].emit THEN "review_reload" ELSE "idle"
  <2>1. /\ Leads("review_append", e, step)
        /\ e.type = "HumanReviewCompleted"
        /\ e.final = cmd[c].final
    BY <1>9 DEF ReviewAppend
  <2> HIDE DEF e, Leads
  <2>2. /\ seen[c].loan = Loan /\ Loan.ok /\ Ready("review_append", cmd[c], seen[c])
        /\ "review_append" = "append_bridge" => Loan.state = "ANALYSIS_COMPLETE"
        => Taken(e, step)
    BY <2>1 DEF Ready, DecisionSteps, Took, Accepts, LoanEvents
  <2> HIDE DEF Taken, step
  <2> QED
    BY <1>1, <2>1, <2>2
<1>10. CASE ReviewApprove(c)
  <2> DEFINE e == Event("ApplicationApproved", LastEvent("loan"))
             step == "idle"
  <2>1. /\ Leads("review_approve", e, step)
        /\ e.type = "ApplicationApproved"
    BY <1>10 DEF ReviewApprove, Event
  <2> HIDE DEF e, Leads
  <2>2. /\ seen[c].loan = Loan /\ Loan.ok /\ Ready("review_approve", cmd[c], seen[c])
        /\ "review_approve" = "append_bridge" => Loan.state = "ANALYSIS_COMPLETE"
        => Taken(e, step)
    BY <2>1 DEF Ready, DecisionSteps, Took, Accepts, LoanEvents
  <2> HIDE DEF Taken, step
  <2> QED
    BY <1>1, <2>1, <2>2
<1> QED
  BY <1>2, <1>3, <1>4, <1>5, <1>6, <1>7, <1>8, <1>9, <1>10

LEMMA OtherAppendsProceed ==
  ASSUME LoanInv, StateInv, OrderInv, NEW c \in Clients,
         \/ StartAppend(c) \/ CreditAnchor(c) \/ CreditAppendAgent(c)
         \/ ComplianceAppendRequest(c) \/ ComplianceAppendPass(c)
         \/ FraudAppendSummary(c) \/ FraudAppendAgent(c)
  PROVE  Proceeds(c)
<1>0. Commanded(c) /\ Ready(pc[c], cmd[c], seen[c]) /\ Loan.ok
  BY DEF LoanInv, CallInv, OrderInv
<1>1. CASE StartAppend(c)
  <2> DEFINE s == cmd[c].session
             expected == NewStream
             e == Anchor(cmd[c].model)
             step == "idle"
  <2>1. pc[c] = "start_append" /\ AppendTo(c, s, expected, e, step)
    BY <1>1 DEF StartAppend
  <2>2. e.gp = clock + 1
    BY DEF Anchor
  <2>3. s \in StreamIds /\ s # "loan"
    BY <1>0, <2>1, SessionsApart, CommandFacts DEF Commanded, StartSteps, CreditSteps, FraudSteps
  <2>4. Ready(step, cmd[c], seen[c]) /\ step # "review_approve"
    BY <1>0, <2>1 DEF Ready, DecisionSteps
  <2> HIDE DEF s, expected, e, step
  <2> QED
    BY <2>1, <2>2, <2>3, <2>4, AppendProceeds
<1>2. CASE CreditAnchor(c)
  <2> DEFINE s == cmd[c].session
             expected == NewStream
             e == Anchor(cmd[c].model)
             step == "credit_anchor_id"
  <2>1. pc[c] = "credit_anchor" /\ AppendTo(c, s, expected, e, step)
    BY <1>2 DEF CreditAnchor
  <2>2. e.gp = clock + 1
    BY DEF Anchor
  <2>3. s \in StreamIds /\ s # "loan"
    BY <1>0, <2>1, SessionsApart, CommandFacts DEF Commanded, StartSteps, CreditSteps, FraudSteps
  <2>4. Ready(step, cmd[c], seen[c]) /\ step # "review_approve"
    BY <1>0, <2>1 DEF Ready, DecisionSteps
  <2> HIDE DEF s, expected, e, step
  <2> QED
    BY <2>1, <2>2, <2>3, <2>4, AppendProceeds
<1>3. CASE CreditAppendAgent(c)
  <2> DEFINE s == cmd[c].session
             expected == seen[c].agent.version
             e == Credit(s, cmd[c].model, CreditCause(c))
             step == "credit_id"
  <2>1. pc[c] = "credit_append_agent" /\ AppendTo(c, s, expected, e, step)
    BY <1>3 DEF CreditAppendAgent
  <2>2. e.gp = clock + 1
    BY DEF Credit
  <2>3. s \in StreamIds /\ s # "loan"
    BY <1>0, <2>1, SessionsApart, CommandFacts DEF Commanded, StartSteps, CreditSteps, FraudSteps
  <2>4. Ready(step, cmd[c], seen[c]) /\ step # "review_approve"
    BY <1>0, <2>1 DEF Ready, DecisionSteps
  <2> HIDE DEF s, expected, e, step
  <2> QED
    BY <2>1, <2>2, <2>3, <2>4, AppendProceeds
<1>4. CASE ComplianceAppendRequest(c)
  <2> DEFINE s == "compliance"
             expected == OrNew(seen[c].version)
             e == [type |-> "ComplianceCheckRequested", gp |-> clock + 1, cause |-> 0,
                   required |-> cmd[c].required]
             step == IF cmd[c].passes = <<>> THEN "idle" ELSE "compliance_reload"
  <2>1. pc[c] = "compliance_append_request" /\ AppendTo(c, s, expected, e, step)
    BY <1>4 DEF ComplianceAppendRequest
  <2>2. e.gp = clock + 1
    BY DEF Event
  <2>3. s \in StreamIds /\ s # "loan"
    BY <1>0, <2>1, SessionsApart, CommandFacts DEF Commanded, StartSteps, CreditSteps, FraudSteps
  <2>4. Ready(step, cmd[c], seen[c]) /\ step # "review_approve"
    BY <1>0, <2>1 DEF Ready, DecisionSteps
  <2> HIDE DEF s, expected, e, step
  <2> QED
    BY <2>1, <2>2, <2>3, <2>4, AppendProceeds
<1>5. CASE ComplianceAppendPass(c)
  <2> DEFINE s == "compliance"
             expected == seen[c].version
             e == [type |-> "ComplianceRulePassed", gp |-> clock + 1, cause |-> 0,
                   rule |-> cmd[c].passes[seen[c].passes]]
             step == IF seen[c].passes = Len(cmd[c].passes) THEN "idle" ELSE "compliance_reload"
  <2>1. pc[c] = "compliance_append_pass" /\ AppendTo(c, s, expected, e, step)
    BY <1>5 DEF ComplianceAppendPass
  <2>2. e.gp = clock + 1
    BY DEF Event
  <2>3. s \in StreamIds /\ s # "loan"
    BY <1>0, <2>1, SessionsApart, CommandFacts DEF Commanded, StartSteps, CreditSteps, FraudSteps
  <2>4. Ready(step, cmd[c], seen[c]) /\ step # "review_approve"
    BY <1>0, <2>1 DEF Ready, DecisionSteps
  <2> HIDE DEF s, expected, e, step
  <2> QED
    BY <2>1, <2>2, <2>3, <2>4, AppendProceeds
<1>6. CASE FraudAppendSummary(c)
  <2> DEFINE s == "fraud"
             expected == OrNew(seen[c].version)
             e == Event("FraudScreeningCompleted", seen[c].cause)
             step == IF cmd[c].mirror = None THEN "fraud_reload_loan" ELSE "fraud_load_agent"
  <2>1. pc[c] = "fraud_append_summary" /\ AppendTo(c, s, expected, e, step)
    BY <1>6 DEF FraudAppendSummary
  <2>2. e.gp = clock + 1
    BY DEF Event
  <2>3. s \in StreamIds /\ s # "loan"
    BY <1>0, <2>1, SessionsApart, CommandFacts DEF Commanded, StartSteps, CreditSteps, FraudSteps
  <2>4. Ready(step, cmd[c], seen[c]) /\ step # "review_approve"
    BY <1>0, <2>1 DEF Ready, DecisionSteps
  <2> HIDE DEF s, expected, e, step
  <2> QED
    BY <2>1, <2>2, <2>3, <2>4, AppendProceeds
<1>7. CASE FraudAppendAgent(c)
  <2> DEFINE s == cmd[c].mirror
             expected == seen[c].agent.version
             e == Event("FraudScreeningCompleted", LastEvent(cmd[c].mirror))
             step == "fraud_reload_loan"
  <2>1. pc[c] = "fraud_append_agent" /\ AppendTo(c, s, expected, e, step)
    BY <1>7 DEF FraudAppendAgent
  <2>2. e.gp = clock + 1
    BY DEF Event
  <2>3. s \in StreamIds /\ s # "loan"
    BY <1>0, <2>1, SessionsApart, CommandFacts DEF Commanded, StartSteps, CreditSteps, FraudSteps
  <2>4. Ready(step, cmd[c], seen[c]) /\ step # "review_approve"
    BY <1>0, <2>1 DEF Ready, DecisionSteps
  <2> HIDE DEF s, expected, e, step
  <2> QED
    BY <2>1, <2>2, <2>3, <2>4, AppendProceeds
<1> QED
  BY <1>1, <1>2, <1>3, <1>4, <1>5, <1>6, <1>7

(* The preconditions are what the handlers do not check themselves.          *)
LEMMA IssueProceeds ==
  ASSUME OneOrderlyCaller, LoanInv, StateInv, OrderInv, NEW c \in Clients,
         NEW command \in CommandSet, Issue(c, command)
  PROVE  Proceeds(c)
<1>1. /\ Frame /\ Precondition(command) /\ seen' = seen /\ command.kind \in Kinds
      /\ pc' = [pc EXCEPT ![c] = command.kind] /\ cmd' = [cmd EXCEPT ![c] = command]
  BY CommandAssumption DEF Issue, Frame, OneOrderlyCaller
<1>2. PICK what : what = seen[c]
  OBVIOUS
<1>3. seen' = [seen EXCEPT ![c] = what]
  BY <1>1, <1>2 DEF StateInv
<1>4. Ready(command.kind, command, what)
  <2>1. Loan.ok
    BY DEF OrderInv
  <2>2. command.kind = "decision" => Loan.state = "COMPLIANCE_REVIEW"
    BY <1>1 DEF Precondition
  <2>3. command.kind = "request_review" => Loan.state = "PENDING_DECISION"
    BY <1>1 DEF Precondition
  <2>4. command.kind = "review" =>
          Loan.state = "PENDING_DECISION" /\ (command.emit => command.final = "APPROVE")
    BY <1>1 DEF Precondition
  <2> QED
    BY <1>1, <2>1, <2>2, <2>3, <2>4 DEF Ready, Kinds, DecisionSteps
<1>5. Turns(c, command, what, command.kind)
  BY <1>1, <1>3, <1>4 DEF Turns
<1> QED
  BY <1>1, <1>5 DEF Proceeds

LEMMA OrderStep ==
  ASSUME OneOrderlyCaller, LoanInv, LoanInv', StateInv, StateInv', OrderInv, [Next]_vars
  PROVE  OrderInv'
<1>1. ASSUME NEW c \in Clients, Proceeds(c) PROVE OrderInv'
  BY <1>1, OrderNext
<1>2. ASSUME NEW c \in Clients, NEW command \in CommandSet, Issue(c, command) PROVE OrderInv'
  BY <1>1, <1>2, IssueProceeds
<1>3. ASSUME NEW c \in Clients, Crash(c) PROVE Proceeds(c)
  <2>1. Frame /\ Turns(c, NoCommand, Nothing, "idle")
    BY <1>3, IdleIsReady DEF Crash, Finish, Frame, Turns, OrderInv
  <2> QED
    BY <2>1 DEF Proceeds
<1>4. ASSUME NEW c \in Clients, Submit(c) \/ StartSession(c) \/ AppendBridge(c) PROVE Proceeds(c)
  BY <1>4, LoanReadsProceed, OtherReadsProceed, LoanAppendsProceed, OtherAppendsProceed
     DEF Submit, StartSession
<1>5. ASSUME NEW c \in Clients, CreditAnalysis(c) PROVE Proceeds(c)
  BY <1>5, LoanReadsProceed, OtherReadsProceed, LoanAppendsProceed, OtherAppendsProceed
     DEF CreditAnalysis
<1>6. ASSUME NEW c \in Clients, FraudScreening(c) PROVE Proceeds(c)
  BY <1>6, LoanReadsProceed, OtherReadsProceed, LoanAppendsProceed, OtherAppendsProceed
     DEF FraudScreening
<1>7. ASSUME NEW c \in Clients, ComplianceCheck(c) \/ GenerateDecision(c) PROVE Proceeds(c)
  BY <1>7, LoanReadsProceed, OtherReadsProceed, LoanAppendsProceed, OtherAppendsProceed
     DEF ComplianceCheck, GenerateDecision
<1>8. ASSUME NEW c \in Clients, HumanReview(c) PROVE Proceeds(c)
  BY <1>8, LoanReadsProceed, OtherReadsProceed, LoanAppendsProceed DEF HumanReview
<1>9. CASE UNCHANGED vars
  BY <1>9 DEF vars, OrderInv, Ready, Loan
<1> QED
  BY <1>1, <1>2, <1>3, <1>4, <1>5, <1>6, <1>7, <1>8, <1>9 DEF Next

LEMMA OrderInit == ASSUME OneOrderlyCaller, Init PROVE OrderInv
<1>1. Loan.ok
  BY StoreAssumption DEF Init, Loan
<1>2. /\ AtMostOne(OfType(streams["loan"], "CreditAnalysisCompleted"))
      /\ ApprovalsCurrent(streams)
  BY DEF OneOrderlyCaller, Init
<1>3. \A c \in Clients : Ready(pc[c], cmd[c], seen[c])
  BY <1>1, IdleIsReady DEF Init
<1> QED
  BY <1>1, <1>2, <1>3 DEF OrderInv

(* One caller that checks the documented preconditions, and may crash inside *)
(* any handler, finds the loan at each step in the state that the handler    *)
(* takes for granted.                                                        *)
THEOREM OrderInvariant == ASSUME OneOrderlyCaller PROVE Spec => []OrderInv
<1>1. Init => OrderInv
  BY OrderInit
<1>2. (LoanInv /\ StateInv) /\ (LoanInv /\ StateInv)' /\ OrderInv /\ [Next]_vars => OrderInv'
  BY OrderStep
<1>3. Spec => [](LoanInv /\ StateInv)
  BY LoanInvariant, StateInvariant, PTL
<1> QED
  BY <1>1, <1>2, <1>3, PTL DEF Spec

(* Such a caller never breaks the loan: no handler appends an event that the *)
(* aggregate refuses to replay.                                              *)
THEOREM OneCallerKeepsLoan == ASSUME OneOrderlyCaller PROVE Spec => []LoanReplayable
<1>1. OrderInv => LoanReplayable
  BY DEF OrderInv, LoanReplayable
<1> QED
  BY <1>1, OrderInvariant, PTL

(* It gets one credit analysis onto the loan stream, however often a crash   *)
(* makes it analyse again.                                                   *)
THEOREM OneCallerAnalysesOnce == ASSUME OneOrderlyCaller PROVE Spec => []OneCreditAnalysisOnLoan
<1>1. OrderInv => OneCreditAnalysisOnLoan
  BY AtMostOneCardinality DEF OrderInv, OneCreditAnalysisOnLoan
<1> QED
  BY <1>1, OrderInvariant, PTL

(* Its approvals rest on every check before them, not on those of a moment   *)
(* that has passed: between the gate and the approval nobody adds one.       *)
THEOREM OneCallerApprovesRightly == ASSUME OneOrderlyCaller PROVE Spec => []ApprovalHasPassed
<1>1. OrderInv => ApprovalHasPassed
  BY DEF OrderInv, ApprovalHasPassed
<1> QED
  BY <1>1, OrderInvariant, PTL
===============================================================================
