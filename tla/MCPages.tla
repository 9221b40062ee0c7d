------------------------------ MODULE MCPages ------------------------------
(* A small instance of Pages for TLC.                                         *)
EXTENDS Pages

CONSTANTS h1, h2, w1

MatchesDef == [p \in {w1} |-> {h1}]
=============================================================================
