-------------------------------- MODULE GasTown --------------------------------
(***************************************************************************)
(* reconstruct_agent_context of src/integrity/gas_town.py: the memory an   *)
(* agent gets back from its session stream after a crash.                  *)
(*                                                                         *)
(* The agents (ledger/agents) are not part of this repository.  What they  *)
(* append is taken from the event models and from tests/test_gas_town.py:  *)
(* a node is recorded when it ran, its output when it is durable; a        *)
(* process that takes over goes on from what its memory says.  The command *)
(* handlers append their events to the same stream.                        *)
(***************************************************************************)
EXTENDS Integers, Sequences

CONSTANTS
  Nodes,      \* node ids that produce an output
  Tools,      \* node ids that start with "tool:"
  None,       \* no node
  MaxEvents,  \* bound: events of the session
  MaxCrashes  \* bound: processes of the agent that die

ASSUME GasTownAssumption ==
  /\ Nodes \cap Tools = {}
  /\ None \notin Nodes \cup Tools
  /\ {MaxEvents, MaxCrashes} \subseteq Nat

VARIABLES
  stream,   \* the session stream agent-{agent_id}-{session_id}
  alive,    \* is a process of the agent running?
  doing,    \* the node it has recorded and not yet written the output of
  memory,   \* what reconstruct_agent_context returned last
  crashes

vars == <<stream, alive, doing, memory, crashes>>

Statuses == {"ok", "partial", "pending", "error"}

Executed(n, status) == [type |-> "AgentNodeExecuted", node |-> n, status |-> status]
Output(n) == [type |-> "AgentOutputWritten", node |-> n, status |-> "ok"]
Other(type) == [type |-> type, node |-> None, status |-> "ok"]

AgentTypes == {"AgentContextLoaded", "AgentSessionCompleted", "AgentSessionFailed"}
HandlerTypes == {"CreditAnalysisCompleted", "FraudScreeningCompleted"}

Events == {Executed(n, status) : n \in Nodes \cup Tools, status \in Statuses}
            \cup {Output(n) : n \in Nodes}
            \cup {Other(type) : type \in AgentTypes \cup HandlerTypes}
-------------------------------------------------------------------------------
(* reconstruct_agent_context *)

PendingLike(events) ==
  {i \in DOMAIN events : /\ events[i].type = "AgentNodeExecuted"
                         /\ events[i].status \in {"pending", "error", "partial"}}

(* Mutation of Verbatim: the failed and unfinished steps are only kept while *)
(* they are recent.                                                          *)
VerbatimRecent(events) == {i \in DOMAIN events : i > Len(events) - 3}

(* The last three events (all, where there are fewer) and every step that    *)
(* failed or is not finished.                                                *)
Verbatim(events) == {i \in DOMAIN events : i > Len(events) - 3} \cup PendingLike(events)

Occurs(events, type, n) == {i \in DOMAIN events : events[i].type = type /\ events[i].node = n}

(* Mutation of OutputMissing: a node that ever had an output is done. *)
OutputNeverWritten(events, n) == Occurs(events, "AgentOutputWritten", n) = {}

(* last_node_exec > last_node_out *)
OutputMissing(events, n) ==
  /\ Occurs(events, "AgentNodeExecuted", n) # {}
  /\ \A o \in Occurs(events, "AgentOutputWritten", n) :
       \E i \in Occurs(events, "AgentNodeExecuted", n) : i > o

(* The node that needs reconciliation: the one of the last event, if that is *)
(* a step other than a tool call and its output is missing.                  *)
Pending(events) ==
  LET last == events[Len(events)]
  IN IF /\ events # <<>>
        /\ last.type = "AgentNodeExecuted"
        /\ last.node \notin Tools
        /\ OutputMissing(events, last.node)
     THEN last.node ELSE None

Health(events) ==
  IF events = <<>> THEN "EMPTY"
  ELSE IF Pending(events) # None THEN "NEEDS_RECONCILIATION" ELSE "OK"

(* The memory, each event by its position.  The token budget trims the text  *)
(* of the summary only.                                                      *)
Reconstruct(events) ==
  [summary |-> DOMAIN events \ Verbatim(events),
   recent |-> Verbatim(events) \ PendingLike(events),
   priority |-> PendingLike(events),
   pending |-> Pending(events),
   health |-> Health(events),
   position |-> Len(events)]

(* _approx_tokens *)
Tokens(chars) == IF chars < 8 THEN 1 ELSE chars \div 4

(* The length that is left of the summary when it and `verbatim` characters  *)
(* of events are over the budget.                                            *)
Trimmed(summary, verbatim, budget) ==
  LET approx == Tokens(summary + verbatim)
      left == summary - (approx - budget) * 4
  IN IF approx > budget THEN (IF left > 0 THEN left ELSE 0) ELSE summary

(* approx_tokens_used *)
ReportedTokens(summary, verbatim, budget) ==
  LET approx == Tokens(summary + verbatim) IN IF approx < budget THEN approx ELSE budget
-------------------------------------------------------------------------------
(* The session *)

Record(event) == Len(stream) < MaxEvents /\ stream' = Append(stream, event)

Start ==
  /\ stream = <<>>
  /\ Record(Other("AgentContextLoaded"))
  /\ UNCHANGED <<alive, doing, memory, crashes>>

(* The agent runs one node at a time; it may run the node it is at again.    *)
Execute(n, status) ==
  /\ alive
  /\ stream # <<>>
  /\ doing \in {None, n}
  /\ Record(Executed(n, status))
  /\ doing' = n
  /\ UNCHANGED <<alive, memory, crashes>>

CallTool(n, status) ==
  /\ alive
  /\ stream # <<>>
  /\ doing = None
  /\ Record(Executed(n, status))
  /\ UNCHANGED <<alive, doing, memory, crashes>>

WriteOutput ==
  /\ alive
  /\ doing # None
  /\ Record(Output(doing))
  /\ doing' = None
  /\ UNCHANGED <<alive, memory, crashes>>

(* The agent ends its session: done, or with an error it could handle. *)
End(type) ==
  /\ alive
  /\ stream # <<>>
  /\ type = "AgentSessionCompleted" => doing = None
  /\ Record(Other(type))
  /\ alive' = FALSE
  /\ UNCHANGED <<doing, memory, crashes>>

(* handle_credit_analysis_completed and handle_record_fraud_screening append *)
(* to the session of the agent.                                              *)
HandlerAppends(type) ==
  /\ stream # <<>>
  /\ Record(Other(type))
  /\ UNCHANGED <<alive, doing, memory, crashes>>

Crash ==
  /\ alive
  /\ crashes < MaxCrashes
  /\ alive' = FALSE
  /\ crashes' = crashes + 1
  /\ UNCHANGED <<stream, doing, memory>>

(* A new process loads its memory and goes on from there. *)
Recover ==
  /\ ~ alive
  /\ memory' = Reconstruct(stream)
  /\ doing' = memory'.pending
  /\ alive' = TRUE
  /\ UNCHANGED <<stream, crashes>>

Init ==
  /\ stream = <<>>
  /\ alive = TRUE
  /\ doing = None
  /\ memory = Reconstruct(<<>>)
  /\ crashes = 0

Next ==
  \/ Start
  \/ \E status \in Statuses :
       (\E n \in Nodes : Execute(n, status)) \/ (\E n \in Tools : CallTool(n, status))
  \/ WriteOutput
  \/ \E type \in {"AgentSessionCompleted", "AgentSessionFailed"} : End(type)
  \/ \E type \in HandlerTypes : HandlerAppends(type)
  \/ Crash
  \/ Recover

Spec == Init /\ [][Next]_vars
-------------------------------------------------------------------------------

TypeOK ==
  /\ stream \in Seq(Events)
  /\ alive \in BOOLEAN
  /\ doing \in Nodes \cup {None}
  /\ crashes \in 0..MaxCrashes

(* A reconstruction accounts for every event of the session up to the        *)
(* position it reports: each is summarised or verbatim, once; at most three  *)
(* events are verbatim for being recent, and a step that failed or is not    *)
(* finished is never reduced to a line of the summary, however long ago.     *)
NothingForgotten ==
  LET kept == memory.recent \cup memory.priority
  IN /\ memory.position <= Len(stream)
     /\ memory.summary \cup kept = 1..memory.position
     /\ memory.summary \cap kept = {}
     /\ memory.recent \cap memory.priority = {}
     /\ \A i \in memory.recent : i > memory.position - 3
     /\ \A i \in memory.summary :
          stream[i].type = "AgentNodeExecuted" => stream[i].status = "ok"

Foreign(event) == event.type \in HandlerTypes \cup {"AgentSessionFailed"}

(* An agent that crashes and recovers any number of times loses no node it   *)
(* has recorded: a node without a later output is the one the running        *)
(* process is at, or will be named in the memory of the next one.  It holds  *)
(* as long as nothing but the agent's own steps follows the node: an event   *)
(* of a command handler, or AgentSessionFailed, hides it, and the session    *)
(* counts as OK.                                                             *)
UnfinishedNodeIsResumed ==
  \A i \in DOMAIN stream :
    LET n == stream[i].node
    IN /\ stream[i].type = "AgentNodeExecuted"
       /\ n \in Nodes
       /\ \A j \in DOMAIN stream : j > i => stream[j] # Output(n) /\ ~ Foreign(stream[j])
       => IF alive THEN doing = n ELSE Pending(stream) = n
=============================================================================
