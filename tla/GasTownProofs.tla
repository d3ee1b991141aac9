----------------------------- MODULE GasTownProofs -----------------------------
(***************************************************************************)
(* Proofs about GasTown: what a reconstruction accounts for, and that an   *)
(* unfinished node survives crashes, for any nodes, tools, session length  *)
(* and number of crashes.                                                  *)
(***************************************************************************)
EXTENDS GasTown, TLAPS

(* Types and positions *)

LEMMA EventTypes ==
  /\ \A n \in Nodes \cup Tools, status \in Statuses : Executed(n, status) \in Events
  /\ \A n \in Nodes : Output(n) \in Events
  /\ \A type \in AgentTypes \cup HandlerTypes : Other(type) \in Events
BY DEF Events

LEMMA Nodes_Of_Executed ==
  ASSUME NEW e \in Events, e.type = "AgentNodeExecuted"
  PROVE  e.node \in Nodes \cup Tools /\ e.status \in Statuses
BY DEF Events, Executed, Output, Other, AgentTypes, HandlerTypes

LEMMA PendingType ==
  ASSUME NEW s \in Seq(Events)
  PROVE  Pending(s) \in Nodes \cup {None}
<1>1. CASE s = <<>>
  BY <1>1 DEF Pending
<1>2. CASE s # <<>>
  <2>1. s[Len(s)] \in Events
    BY <1>2
  <2> QED
    BY <2>1, Nodes_Of_Executed DEF Pending
<1> QED
  BY <1>1, <1>2

(* A step leaves the session as it is or adds one event at its end. *)
Grown(event) == stream' = Append(stream, event)

LEMMA StepGrows ==
  ASSUME TypeOK, [Next]_vars
  PROVE  \/ UNCHANGED stream
         \/ \E event \in Events : Grown(event) /\ UNCHANGED memory
<1> USE EventTypes DEF Record, Grown, vars
<1>1. CASE Start
  BY <1>1 DEF Start, AgentTypes
<1>2. ASSUME NEW status \in Statuses, NEW n \in Nodes, Execute(n, status)
      PROVE  \E event \in Events : Grown(event) /\ UNCHANGED memory
  BY <1>2 DEF Execute
<1>3. ASSUME NEW status \in Statuses, NEW n \in Tools, CallTool(n, status)
      PROVE  \E event \in Events : Grown(event) /\ UNCHANGED memory
  BY <1>3 DEF CallTool
<1>4. CASE WriteOutput
  BY <1>4 DEF WriteOutput, TypeOK
<1>5. ASSUME NEW type \in {"AgentSessionCompleted", "AgentSessionFailed"}, End(type)
      PROVE  \E event \in Events : Grown(event) /\ UNCHANGED memory
  BY <1>5 DEF End, AgentTypes
<1>6. ASSUME NEW type \in HandlerTypes, HandlerAppends(type)
      PROVE  \E event \in Events : Grown(event) /\ UNCHANGED memory
  BY <1>6 DEF HandlerAppends
<1>7. CASE Crash
  BY <1>7 DEF Crash
<1>8. CASE Recover
  BY <1>8 DEF Recover
<1> QED
  BY <1>1, <1>2, <1>3, <1>4, <1>5, <1>6, <1>7, <1>8 DEF Next

LEMMA TypeInit == Init => TypeOK
BY GasTownAssumption DEF Init, TypeOK

LEMMA TypeNext == TypeOK /\ [Next]_vars => TypeOK'
<1> SUFFICES ASSUME TypeOK, [Next]_vars PROVE TypeOK'
  OBVIOUS
<1>1. stream' \in Seq(Events)
  BY StepGrows DEF TypeOK, Grown
<1>2. alive' \in BOOLEAN
  BY DEF TypeOK, Next, vars, Start, Execute, CallTool, WriteOutput, End, HandlerAppends,
         Crash, Recover
<1>3. doing' \in Nodes \cup {None}
  <2>1. CASE Recover
    BY <2>1, PendingType DEF Recover, Reconstruct, TypeOK
  <2>2. CASE ~ Recover
    BY <2>2 DEF TypeOK, Next, vars, Start, Execute, CallTool, WriteOutput, End,
                HandlerAppends, Crash
  <2> QED
    BY <2>1, <2>2
<1>4. crashes' \in 0..MaxCrashes
  BY GasTownAssumption DEF TypeOK, Next, vars, Start, Execute, CallTool, WriteOutput, End,
         HandlerAppends, Crash, Recover
<1> QED
  BY <1>1, <1>2, <1>3, <1>4 DEF TypeOK

(* Every variable of the session and its agent keeps its type. *)
THEOREM TypeCorrect == Spec => []TypeOK
BY TypeInit, TypeNext, PTL DEF Spec

-------------------------------------------------------------------------------
(* What is reconstructed *)

LEMMA ReconstructionComplete ==
  ASSUME NEW s \in Seq(Events)
  PROVE  LET m == Reconstruct(s)
             kept == m.recent \cup m.priority
         IN /\ m.position = Len(s)
            /\ m.summary \cup kept = 1..Len(s)
            /\ m.summary \cap kept = {}
            /\ m.recent \cap m.priority = {}
            /\ \A i \in m.recent : i > Len(s) - 3
            /\ \A i \in m.summary :
                 s[i].type = "AgentNodeExecuted" => s[i].status = "ok"
<1> DEFINE m == Reconstruct(s)
<1>1. /\ m.position = Len(s) /\ m.summary = 1..Len(s) \ Verbatim(s)
      /\ m.recent = Verbatim(s) \ PendingLike(s) /\ m.priority = PendingLike(s)
  BY DEF Reconstruct
<1>2. PendingLike(s) \subseteq Verbatim(s) /\ Verbatim(s) \subseteq 1..Len(s)
  BY DEF Verbatim, PendingLike
<1>3. \A i \in Verbatim(s) \ PendingLike(s) : i > Len(s) - 3
  BY DEF Verbatim
<1>4. ASSUME NEW i \in 1..Len(s) \ Verbatim(s), s[i].type = "AgentNodeExecuted"
      PROVE  s[i].status = "ok"
  <2>1. i \notin PendingLike(s)
    BY <1>2
  <2>2. s[i].status \notin {"pending", "error", "partial"}
    BY <2>1, <1>4 DEF PendingLike
  <2>3. s[i] \in Events
    OBVIOUS
  <2> QED
    BY <2>2, <2>3, <1>4, Nodes_Of_Executed DEF Statuses
<1> HIDE DEF m
<1> QED
  BY <1>1, <1>2, <1>3, <1>4 DEF m

(* A reconstruction accounts for every event of the session up to the        *)
(* position it reports, exactly once, and never reduces a failed or          *)
(* unfinished step to a line of the summary.                                 *)
THEOREM MemoryIsComplete == Spec => []NothingForgotten
<1> DEFINE Known == /\ memory.position \in 0..Len(stream)
                    /\ memory.summary \subseteq 1..memory.position
                    /\ NothingForgotten
<1>1. Init => Known
  <2> SUFFICES ASSUME Init PROVE Known
    OBVIOUS
  <2>1. stream \in Seq(Events) /\ memory = Reconstruct(stream)
    BY DEF Init
  <2>2. Len(stream) \in Nat
    BY <2>1
  <2>3. memory.position \in 0..Len(stream) /\ memory.summary \subseteq 1..memory.position
    BY <2>1, <2>2, ReconstructionComplete DEF Reconstruct
  <2>4. NothingForgotten
    BY <2>1, <2>2, ReconstructionComplete DEF NothingForgotten
  <2> QED
    BY <2>3, <2>4
<1>2. TypeOK /\ Known /\ [Next]_vars => Known'
  <2> SUFFICES ASSUME TypeOK, Known, [Next]_vars PROVE Known'
    OBVIOUS
  <2>1. CASE Recover
    <3>1. memory' = Reconstruct(stream) /\ stream' = stream /\ stream \in Seq(Events)
      BY <2>1 DEF Recover, TypeOK
    <3>2. Len(stream) \in Nat
      BY <3>1
    <3>3. memory'.position \in 0..Len(stream) /\ memory'.summary \subseteq 1..memory'.position
      BY <3>1, <3>2, ReconstructionComplete DEF Reconstruct
    <3>4. NothingForgotten'
      BY <3>1, <3>2, ReconstructionComplete DEF NothingForgotten
    <3> QED
      BY <3>1, <3>3, <3>4
  <2>2. CASE ~ Recover
    <3>1. memory' = memory
      BY <2>2 DEF Next, vars, Start, Execute, CallTool, WriteOutput, End, HandlerAppends, Crash
    <3>2. Len(stream) \in Nat /\ Len(stream) <= Len(stream')
          /\ \A i \in 1..Len(stream) : stream'[i] = stream[i]
      BY StepGrows DEF TypeOK, Grown
    <3> QED
      BY <3>1, <3>2 DEF NothingForgotten
  <2> QED
    BY <2>1, <2>2
<1> QED
  <2>1. Known => NothingForgotten
    OBVIOUS
  <2> HIDE DEF Known
  <2> QED
    BY <1>1, <1>2, <2>1, TypeCorrect, PTL DEF Spec

-------------------------------------------------------------------------------
(* The unfinished node *)

(* The step at position i recorded node n, and neither its output nor an     *)
(* event that is not the agent's own follows.                                *)
Unfinished(s, i, n) ==
  /\ i \in DOMAIN s
  /\ n \in Nodes
  /\ s[i].type = "AgentNodeExecuted" /\ s[i].node = n
  /\ \A j \in DOMAIN s : j > i => s[j] # Output(n) /\ ~ Foreign(s[j])

(* The agent runs one node at a time: once a node is recorded, only further  *)
(* runs of it follow until its output is written or the handlers step in.    *)
OneAtATime ==
  \A i \in DOMAIN stream : \A n \in Nodes :
    Unfinished(stream, i, n) =>
      /\ \A j \in DOMAIN stream :
           j >= i => stream[j].type = "AgentNodeExecuted" /\ stream[j].node = n
      /\ alive => doing = n

(* Then the last event shows the node, and it is what is pending. *)
LEMMA UnfinishedIsPending ==
  ASSUME TypeOK, OneAtATime, NEW i \in DOMAIN stream, NEW n \in Nodes, Unfinished(stream, i, n)
  PROVE  Pending(stream) = n
<1>1. /\ stream \in Seq(Events) /\ i \in 1..Len(stream) /\ Len(stream) \in Nat
      /\ stream # <<>>
  BY DEF TypeOK
<1>2. \A j \in DOMAIN stream :
        j >= i => stream[j].type = "AgentNodeExecuted" /\ stream[j].node = n
  BY DEF OneAtATime
<1>3. stream[Len(stream)].type = "AgentNodeExecuted" /\ stream[Len(stream)].node = n
  BY <1>1, <1>2
<1>4. n \notin Tools
  BY GasTownAssumption
<1>5. OutputMissing(stream, n)
  <2>1. i \in Occurs(stream, "AgentNodeExecuted", n)
    BY DEF Occurs, Unfinished
  <2>2. \A o \in Occurs(stream, "AgentOutputWritten", n) : i > o
    BY <1>1, <1>2 DEF Occurs
  <2> QED
    BY <2>1, <2>2 DEF OutputMissing
<1> QED
  BY <1>1, <1>3, <1>4, <1>5 DEF Pending

(* An event that is appended hides what is unfinished or does not touch it. *)
LEMMA AfterAppend ==
  ASSUME TypeOK, NEW event \in Events, Grown(event),
         NEW i \in DOMAIN stream', NEW n \in Nodes, Unfinished(stream', i, n)
  PROVE  /\ Len(stream) \in Nat /\ DOMAIN stream' = 1 .. Len(stream) + 1
         /\ DOMAIN stream = 1..Len(stream)
         /\ \A j \in 1..Len(stream) : stream'[j] = stream[j]
         /\ stream'[Len(stream) + 1] = event
         /\ \/ /\ i \in DOMAIN stream /\ Unfinished(stream, i, n)
               /\ event # Output(n) /\ ~ Foreign(event)
            \/ i = Len(stream) + 1 /\ event.type = "AgentNodeExecuted" /\ event.node = n
<1>1. /\ Len(stream) \in Nat /\ DOMAIN stream' = 1 .. Len(stream) + 1
      /\ DOMAIN stream = 1..Len(stream)
      /\ \A j \in 1..Len(stream) : stream'[j] = stream[j]
      /\ stream'[Len(stream) + 1] = event
  BY DEF TypeOK, Grown
<1>2. CASE i = Len(stream) + 1
  BY <1>1, <1>2 DEF Unfinished
<1>3. CASE i \in 1..Len(stream)
  BY <1>1, <1>3 DEF Unfinished
<1> QED
  BY <1>1, <1>2, <1>3

(* What the agent appends while it is at a node, and what it does not. *)
LEMMA OneAtATimeNext == TypeOK /\ OneAtATime /\ [Next]_vars => OneAtATime'
<1> SUFFICES ASSUME TypeOK, OneAtATime, [Next]_vars,
                    NEW i \in DOMAIN stream', NEW n \in Nodes, Unfinished(stream', i, n)
             PROVE  /\ \A j \in DOMAIN stream' :
                         j >= i => stream'[j].type = "AgentNodeExecuted" /\ stream'[j].node = n
                    /\ alive' => doing' = n
  BY DEF OneAtATime, Unfinished
<1> DEFINE Goal == /\ \A j \in DOMAIN stream' :
                        j >= i => stream'[j].type = "AgentNodeExecuted" /\ stream'[j].node = n
                   /\ alive' => doing' = n
<1>1. ASSUME UNCHANGED stream, alive' => (IF alive THEN doing' = doing
                                          ELSE doing' = Pending(stream))
      PROVE  Goal
  <2>1. Unfinished(stream, i, n) /\ i \in DOMAIN stream
    BY <1>1 DEF Unfinished
  <2>2. Pending(stream) = n
    BY <2>1, UnfinishedIsPending
  <2> QED
    BY <1>1, <2>1, <2>2 DEF OneAtATime
<1>2. CASE Start
  <2>1. PICK event \in Events : Grown(event) /\ event = Other("AgentContextLoaded")
    BY <1>2, EventTypes DEF Start, Record, Grown, AgentTypes
  <2>2. stream = <<>> /\ event.type = "AgentContextLoaded"
    BY <1>2, <2>1 DEF Start, Other
  <2> QED
    BY <2>1, <2>2, AfterAppend
<1>3. ASSUME NEW status \in Statuses, NEW node \in Nodes, Execute(node, status)
      PROVE  Goal
  <2>1. PICK event \in Events : Grown(event) /\ event = Executed(node, status)
    BY <1>3, EventTypes DEF Execute, Record, Grown
  <2>2. /\ event.type = "AgentNodeExecuted" /\ event.node = node
        /\ alive /\ doing \in {None, node} /\ doing' = node
    BY <1>3, <2>1 DEF Execute, Executed
  <2>3. n # None
    BY GasTownAssumption
  <2> QED
    BY <2>1, <2>2, <2>3, AfterAppend DEF OneAtATime
<1>4. ASSUME NEW status \in Statuses, NEW node \in Tools, CallTool(node, status)
      PROVE  Goal
  <2>1. PICK event \in Events : Grown(event) /\ event = Executed(node, status)
    BY <1>4, EventTypes DEF CallTool, Record, Grown
  <2>2. event.node = node /\ alive /\ doing = None /\ doing' = doing
    BY <1>4, <2>1 DEF CallTool, Executed
  <2>3. n # None /\ n # node
    BY GasTownAssumption
  <2> QED
    BY <2>1, <2>2, <2>3, AfterAppend DEF OneAtATime
<1>5. CASE WriteOutput
  <2>1. PICK event \in Events : Grown(event) /\ event = Output(doing)
    BY <1>5, EventTypes DEF WriteOutput, Record, Grown, TypeOK
  <2>2. event.type = "AgentOutputWritten" /\ alive
    BY <1>5, <2>1 DEF WriteOutput, Output
  <2> QED
    BY <2>1, <2>2, AfterAppend DEF OneAtATime
<1>6. ASSUME NEW type \in {"AgentSessionCompleted", "AgentSessionFailed"}, End(type)
      PROVE  Goal
  <2>1. PICK event \in Events : Grown(event) /\ event = Other(type)
    BY <1>6, EventTypes DEF End, Record, Grown, AgentTypes
  <2>2. /\ event.type = type /\ alive
        /\ type = "AgentSessionCompleted" => doing = None
    BY <1>6, <2>1 DEF End, Other
  <2>3. n # None
    BY GasTownAssumption
  <2>4. Unfinished(stream, i, n) /\ i \in DOMAIN stream /\ ~ Foreign(event)
    BY <2>1, <2>2, AfterAppend
  <2>5. doing = n
    BY <2>2, <2>4 DEF OneAtATime
  <2> QED
    BY <2>2, <2>3, <2>4, <2>5 DEF Foreign
<1>7. ASSUME NEW type \in HandlerTypes, HandlerAppends(type)
      PROVE  Goal
  <2>1. PICK event \in Events : Grown(event) /\ event = Other(type)
    BY <1>7, EventTypes DEF HandlerAppends, Record, Grown
  <2>2. event.type = type
    BY <2>1 DEF Other
  <2>3. Foreign(event)
    BY <2>2 DEF Foreign
  <2>4. i = Len(stream) + 1 /\ event.type = "AgentNodeExecuted"
    BY <2>1, <2>3, AfterAppend
  <2> QED
    BY <2>2, <2>4 DEF HandlerTypes
<1>8. CASE Crash
  BY <1>1, <1>8 DEF Crash
<1>9. CASE Recover
  BY <1>1, <1>9 DEF Recover, Reconstruct
<1>10. CASE UNCHANGED vars
  BY <1>1, <1>10 DEF vars
<1> QED
  BY <1>2, <1>3, <1>4, <1>5, <1>6, <1>7, <1>8, <1>9, <1>10 DEF Next

(* However often the agent crashes and recovers, a node it recorded and did  *)
(* not finish is the one the running process is at or the next one is told.  *)
THEOREM UnfinishedNodeSurvives == Spec => []UnfinishedNodeIsResumed
<1>1. Init => OneAtATime
  BY DEF Init, OneAtATime
<1>2. TypeOK /\ OneAtATime => UnfinishedNodeIsResumed
  <2> SUFFICES ASSUME TypeOK, OneAtATime, NEW i \in DOMAIN stream,
                      Unfinished(stream, i, stream[i].node)
               PROVE  IF alive THEN doing = stream[i].node
                               ELSE Pending(stream) = stream[i].node
    BY DEF UnfinishedNodeIsResumed, Unfinished
  <2> DEFINE n == stream[i].node
  <2>1. n \in Nodes
    BY DEF Unfinished
  <2> QED
    BY <2>1, UnfinishedIsPending DEF OneAtATime
<1> QED
  BY <1>1, <1>2, OneAtATimeNext, TypeCorrect, PTL DEF Spec

-------------------------------------------------------------------------------
(* The token budget *)

(* If the text is over the budget and the summary is long enough to give way *)
(* (four characters for every token too many), what is left of summary and   *)
(* events has exactly the tokens that are reported, the budget.              *)
THEOREM BudgetIsKept ==
  ASSUME NEW summary \in Nat, NEW verbatim \in Nat, NEW budget \in Nat \ {0},
         Tokens(summary + verbatim) > budget,
         summary >= 4 * (Tokens(summary + verbatim) - budget)
  PROVE  /\ ReportedTokens(summary, verbatim, budget) = budget
         /\ Tokens(Trimmed(summary, verbatim, budget) + verbatim) = budget
<1> DEFINE approx == Tokens(summary + verbatim)
           left == summary - (approx - budget) * 4
<1>1. /\ summary + verbatim >= 8 /\ approx = (summary + verbatim) \div 4 /\ approx \in Nat
  BY DEF Tokens
<1>2. Trimmed(summary, verbatim, budget) = left /\ left \in Nat
  BY <1>1 DEF Trimmed
<1>3. (left + verbatim) \div 4 = budget
  <2> DEFINE chars == summary + verbatim
             over == (chars \div 4) - budget
  <2>1. left + verbatim = chars - over * 4 /\ chars \in Nat /\ over \in Int
    BY <1>1
  <2> HIDE DEF chars, over
  <2>2. (chars - over * 4) \div 4 = (chars \div 4) - over
    BY <2>1
  <2> QED
    BY <2>1, <2>2, <1>1 DEF over, chars
<1>4. Tokens(left + verbatim) = budget
  BY <1>1, <1>2, <1>3 DEF Tokens
<1> QED
  BY <1>1, <1>2, <1>4 DEF ReportedTokens
=============================================================================
