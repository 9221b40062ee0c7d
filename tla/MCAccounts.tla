----------------------------- MODULE MCAccounts -----------------------------
(* Small instances of Accounts for TLC.                                       *)
EXTENDS Accounts, TLC

(* Browsers, addresses, tokens and passwords are interchangeable.             *)
Symmetry == Permutations(Browsers) \cup Permutations(Addresses)
            \cup Permutations(Tokens) \cup Permutations(Passwords)
=============================================================================
