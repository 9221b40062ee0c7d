-------------------------- MODULE MCTrafficLedger --------------------------
(* Small instances of TrafficLedger for TLC.                                  *)
EXTENDS TrafficLedger
=============================================================================
