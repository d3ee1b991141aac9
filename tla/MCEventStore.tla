----------------------------- MODULE MCEventStore -----------------------------
(* An instance of EventStore for TLC.                                        *)
EXTENDS EventStore

CONSTANTS w1, w2, s1

TwoWriters == {w1, w2}
OneStream == {s1}

(* -1 for a new stream, 0 (what an aggregate with no events reports), and    *)
(* the versions that streams of this instance reach.                         *)
SmallVersions == -1..2
=============================================================================
