-------------------------- MODULE MCProjectionDaemon --------------------------
(* Instances of ProjectionDaemon for TLC. *)
EXTENDS ProjectionDaemon

CONSTANTS r1, r2, p1

TwoRunners == {r1, r2}
OneProjection == {p1}

(* A rebuild catches up as run_catch_up does. *)
TicksAndRebuilds == {"tick", "rebuild"}
=============================================================================
