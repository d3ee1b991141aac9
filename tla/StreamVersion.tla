----------------------------- MODULE StreamVersion -----------------------------
(***************************************************************************)
(* The version gate of EventStore.append (src/event_store.py) as every     *)
(* caller sees it: expected_version against the events a stream has.       *)
(***************************************************************************)
EXTENDS Integers, Sequences

NewStream == -1

(* -1 for a stream that does not exist, else its current version.  A caller  *)
(* that passes 0, the version an aggregate without events reports, is        *)
(* refused whether or not the stream exists.                                 *)
Matches(expected, entries) ==
  expected = (IF entries = <<>> THEN NewStream ELSE Len(entries))
=============================================================================
