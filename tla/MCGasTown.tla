------------------------------- MODULE MCGasTown -------------------------------
(* An instance of GasTown for TLC. *)
EXTENDS GasTown

CONSTANTS n1, n2, t1

TwoNodes == {n1, n2}
OneTool == {t1}
=============================================================================
