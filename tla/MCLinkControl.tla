--------------------------- MODULE MCLinkControl ---------------------------
(* Small instances of LinkControl for TLC.                                    *)
EXTENDS LinkControl, TLC

(* Links are interchangeable, and so are the request slots: sound for the     *)
(* safety runs, not used in the liveness runs.                                *)
Symmetry == Permutations(Links) \cup Permutations(Requests)
=============================================================================
