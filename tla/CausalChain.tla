------------------------------ MODULE CausalChain ------------------------------
(***************************************************************************)
(* get_causal_chain of src/aggregates/audit_ledger.py on the histories the *)
(* command handlers leave: what an event caused to happen, within the      *)
(* streams the ledger knows.                                               *)
(***************************************************************************)
EXTENDS WhatIf

(* Mutation of Children: one event per cause is indexed. *)
FirstChild(records, id) ==
  LET children == Keep(records, {r \in ToSet(records) : r.event.cause = id})
  IN IF children = <<>> THEN <<>> ELSE <<Head(children)>>

(* by_causation *)
Children(records, id) == Keep(records, {r \in ToSet(records) : r.event.cause = id})

(* What an event caused, each event followed by what walk finds behind it.   *)
Behind(records, id, walk) ==
  LET children == Children(records, id)
      out[k \in 0..Len(children)] ==
        IF k = 0 THEN <<>>
        ELSE Append(out[k - 1], children[k]) \o walk[children[k].event.gp]
  IN out[Len(children)]

(* walk: depth first, while a part of maxDepth is left.  An event has one    *)
(* cause, which is older, so the walk meets no event twice.                  *)
Chain(records, root, maxDepth) ==
  LET Walk[left \in 0..maxDepth] ==
        [id \in 0..clock |-> IF left = 0 THEN <<>> ELSE Behind(records, id, Walk[left - 1])]
  IN Walk[maxDepth][root]

(* How many causes away from the root an event is; 0 where they do not lead  *)
(* to it through the records.                                                *)
Distances(records, root) ==
  LET Distance[id \in 0..clock] ==
        IF id \notin Ids(records) THEN 0
        ELSE IF CauseOf(records, id) = root THEN 1
        ELSE LET above == Distance[CauseOf(records, id)] IN IF above = 0 THEN 0 ELSE above + 1
  IN [i \in DOMAIN records |-> Distance[records[i].event.gp]]

(* "What did this event cause to happen downstream?": the chain has every    *)
(* event, once, from which the causes lead back to the root in the given     *)
(* number of steps, and none before its cause, for a ledger that knows the   *)
(* streams the causes run through.                                           *)
ChainIsDownstream ==
  Between =>
    LET records == History(StreamIds \ {"compliance"})
    IN \A root \in {records[i].event.cause : i \in DOMAIN records} \ {0} :
         LET distances == Distances(records, root)
         IN \A maxDepth \in {2, 20} :
              LET chain == Chain(records, root, maxDepth)
              IN /\ ToSet(chain) =
                       {records[i] : i \in {j \in DOMAIN records : distances[j] \in 1..maxDepth}}
                 /\ IsInjective(chain)
                 /\ \A i \in DOMAIN chain :
                      chain[i].event.cause \in {root} \cup {chain[j].event.gp : j \in 1..(i - 1)}
=============================================================================
