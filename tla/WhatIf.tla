--------------------------------- MODULE WhatIf ---------------------------------
(***************************************************************************)
(* run_what_if of src/what_if/projector.py on the histories the command    *)
(* handlers leave: the timeline of an application is cut at a branch       *)
(* event, other facts take its place, and of the tail only the events that *)
(* do not follow from the branch are replayed.                             *)
(*                                                                         *)
(* The in-memory projections the result is fed to are not in the           *)
(* repository.  Events are known by their global position, and the         *)
(* positions of the result (_remap_global_positions) by their order.       *)
(***************************************************************************)
EXTENDS LoanCommands

(* The events of q that are in S, in their order. *)
Keep(q, S) ==
  LET kept[n \in 0..Len(q)] ==
        IF n = 0 THEN <<>>
        ELSE IF q[n] \in S THEN Append(kept[n - 1], q[n]) ELSE kept[n - 1]
  IN kept[Len(q)]

(* What the streams hold, ordered by global position. *)
History(streamIds) ==
  LET Stored == UNION {{[stream |-> s, event |-> streams[s][i]] : i \in DOMAIN streams[s]} :
                         s \in StreamIds}
      At(gp) == CHOOSE r \in Stored : r.event.gp = gp
  IN Keep([gp \in 1..clock |-> At(gp)], {r \in Stored : r.stream \in streamIds})

(* load_application_events_ordered: the loan, the compliance record, and     *)
(* what the agent sessions say of the application.  AgentContextLoaded has   *)
(* no application_id; the fraud summary is not loaded.                       *)
Timeline ==
  LET loaded == History({"loan", "compliance"} \cup Sessions)
  IN Keep(loaded, {r \in ToSet(loaded) : r.event.type # "AgentContextLoaded"})

Ids(records) == {records[i].event.gp : i \in DOMAIN records}

(* _original_by_id, and the causation_id of the event it gives. *)
CauseOf(records, id) == (CHOOSE r \in ToSet(records) : r.event.gp = id).event.cause

(* The first event of the type, on one of the streams. *)
IsBranch(original, b, type, onStreams) ==
  LET Fits(i) == original[i].event.type = type /\ original[i].stream \in onStreams
  IN /\ b \in DOMAIN original
     /\ Fits(b)
     /\ \A i \in 1..(b - 1) : ~ Fits(i)

(* Mutations of Anchors: only what follows the branch; only the branch. *)
AnchorsAfter(original, b) == {original[i].event.gp : i \in (b + 1)..Len(original)}
AnchorsAt(original, b) == {original[b].event.gp}

(* _anchor_event_ids: the branch and everything later. *)
Anchors(original, b) == {original[i].event.gp : i \in b..Len(original)}

(* causally_depends_on_anchor, from each id on: the chain of causes ends at  *)
(* an event that is not in the timeline or names no cause.  An effect comes  *)
(* after its cause, so the guard against cycles never acts.                  *)
DependsOnAnchor(original, b) ==
  LET anchors == Anchors(original, b)
      Reaches[id \in 0..clock] ==
        IF id \in anchors THEN TRUE
        ELSE IF id \in Ids(original) THEN Reaches[CauseOf(original, id)] ELSE FALSE
  IN Reaches

After(original, b) == SubSeq(original, b + 1, Len(original))

TailKept(original, b) ==
  LET depends == DependsOnAnchor(original, b)
      tail == After(original, b)
  IN Keep(tail, {r \in ToSet(tail) : ~ depends[r.event.cause]})

Synthetic(original, b, counterfactual) ==
  SubSeq(original, 1, b - 1) \o counterfactual \o TailKept(original, b)

OfLoan(records, type) ==
  {i \in DOMAIN records : records[i].stream = "loan" /\ records[i].event.type = type}

(* score5_infer_decision_if_orphaned: the last decision on the loan counts,  *)
(* or else its last credit analysis; None where there is neither.            *)
DecidedBy(records) ==
  LET decisions == OfLoan(records, "DecisionGenerated")
      analyses == OfLoan(records, "CreditAnalysisCompleted")
  IN IF decisions # {} THEN records[Max(decisions)]
     ELSE IF analyses # {} THEN records[Max(analyses)] ELSE None
-------------------------------------------------------------------------------

(* Where a caller may cut: with branch_stream_prefix "loan-", or without.    *)
Branches(original) ==
  {b \in DOMAIN original :
     \E onStreams \in {{"loan"}, StreamIds} :
       IsBranch(original, b, original[b].event.type, onStreams)}

(* A report is asked for between commands; a crash stops a command anywhere. *)
Between == \A c \in Clients : pc[c] = "idle"

(* No event of the counterfactual names the branch event, which is not there *)
(* any more, or an event that was dropped, as its cause: what is left of the *)
(* history is closed under causes.                                           *)
NothingDangles ==
  LET original == Timeline
  IN Between => \A b \in Branches(original) :
       LET kept == TailKept(original, b)
           gone == {original[b].event.gp} \cup (Ids(After(original, b)) \ Ids(kept))
       IN \A i \in DOMAIN kept : kept[i].event.cause \notin gone

(* Another credit analysis in the place of the one on the loan decides the   *)
(* counterfactual: no decision that was made on the old analysis, however    *)
(* indirectly, and no other analysis outlives it.                            *)
DecisionIsReplaced ==
  LET original == Timeline
  IN Between => \A b \in OfLoan(original, "CreditAnalysisCompleted") :
       LET other == [stream |-> "loan",
                     event |-> Credit(original[b].event.session, original[b].event.model,
                                      original[b].event.cause)]
       IN IsBranch(original, b, "CreditAnalysisCompleted", {"loan"})
            => DecidedBy(Synthetic(original, b, <<other>>)) = other
=============================================================================
