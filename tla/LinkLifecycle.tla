--------------------------- MODULE LinkLifecycle ---------------------------
(* What the control plane promises about ONE ledger of links, with no word    *)
(* about xray, retries, rollbacks or concurrency: the state machine           *)
(* "active -> expired | revoked" of services/linkService.ts, in which a link  *)
(* that has left "active" never serves again and its lifetime is frozen, and  *)
(* an identifier is never issued twice.  LinkControl implements it.           *)

EXTENDS Naturals

CONSTANT Links      \* the identifiers newLinkId can draw

VARIABLES state,    \* fresh (never drawn), active, expired, revoked, gone
          lifetime  \* the link's expires_at: epoch ms, 0 for a permanent link

vars == <<state, lifetime>>

Init == /\ state = [l \in Links |-> "fresh"]
        /\ lifetime = [l \in Links |-> 0]

(* The lifetime of l, and of no other link, is set anew.                      *)
Grant(l) == /\ lifetime'[l] \in Nat
            /\ lifetime' = [lifetime EXCEPT ![l] = lifetime'[l]]

(* POST /api/links: an identifier is drawn once and starts active.            *)
Issue(l) == /\ state[l] = "fresh"
            /\ state' = [state EXCEPT ![l] = "active"]
            /\ Grant(l)

(* POST /api/links/:id/extend: only an active link gets another lifetime.     *)
Extend(l) == /\ state[l] = "active"
             /\ Grant(l)
             /\ UNCHANGED state

(* The expire scan.                                                           *)
Expire(l) == /\ state[l] = "active"
             /\ state' = [state EXCEPT ![l] = "expired"]
             /\ UNCHANGED lifetime

(* Revocation.  One request revokes one link; a restart of the control plane  *)
(* makes every revocation that was waiting for xray final at once.            *)
Revoke(S) == /\ S # {}
             /\ \A l \in S : state[l] = "active"
             /\ state' = [l \in Links |-> IF l \in S THEN "revoked" ELSE state[l]]
             /\ UNCHANGED lifetime

(* The ledger row is deleted: DELETE /api/links/:id, or a create that xray    *)
(* refused.                                                                   *)
Retire(l) == /\ state[l] \in {"active", "expired", "revoked"}
             /\ state' = [state EXCEPT ![l] = "gone"]
             /\ lifetime' = [lifetime EXCEPT ![l] = 0]

Next == \/ \E l \in Links : Issue(l) \/ Extend(l) \/ Expire(l) \/ Retire(l)
        \/ \E S \in SUBSET Links : Revoke(S)

Spec == Init /\ [][Next]_vars
=============================================================================
