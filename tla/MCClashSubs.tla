----------------------------- MODULE MCClashSubs -----------------------------
(* A small instance of ClashSubs for TLC.                                     *)
EXTENDS ClashSubs

CONSTANTS l1, l2, l3, a, b, x, y, z

(* Two links of the same alias, one without a note, and one whose note is the *)
(* name the second of them gets.                                              *)
MCLabel == l1 :> [alias |-> <<a>>, note |-> <<>>, id |-> <<x>>]
        @@ l2 :> [alias |-> <<>>, note |-> <<a, 2>>, id |-> <<y>>]
        @@ l3 :> [alias |-> <<a>>, note |-> <<b>>, id |-> <<z>>]
=============================================================================
