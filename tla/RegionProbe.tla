----------------------------- MODULE RegionProbe -----------------------------
(* The region probes (services/regionProbe.ts): a round asks every endpoint   *)
(* at once, each request answering, failing or timing out by itself, and puts *)
(* its result in front of a bounded history in memory.  Rounds are asked for  *)
(* at start-up and by a timer that does not wait for the last one.            *)
EXTENDS Naturals, Sequences, FiniteSets

CONSTANTS Probes,     \* endpoints
          MaxRounds,  \* maxRounds
          MaxTime     \* bound on the clock

VARIABLES now,        \* Date.now()
          rounds,     \* rounds, newest first
          flight      \* the rounds whose doTick is suspended

Outcomes == {"pending", "ok", "failed"}
Round == [ts : 0..MaxTime, results : [Probes -> Outcomes]]

Begun == [ts |-> now, results |-> [p \in Probes |-> "pending"]]
Settled(r) == \A p \in Probes : r.results[p] # "pending"

(* Whoever asks while a round is in flight gets the promise of that round.    *)
(* Mutant: a round of his own.                                                *)
NeverShared == FALSE
Shared == flight # {}

RunRound == /\ flight' = IF Shared THEN flight ELSE flight \cup {Begun}
            /\ UNCHANGED rounds

(* probeOne never rejects: an answer, an error and the abort all settle it.   *)
ProbeOne(r, p) ==
    /\ r.results[p] = "pending"
    /\ \E o \in {"ok", "failed"} :
          flight' = (flight \ {r}) \cup {[r EXCEPT !.results[p] = o]}
    /\ UNCHANGED <<now, rounds>>

(* `finally` clears inFlight, however the endpoints answered.                 *)
Cleared(r) == flight \ {r}

(* Mutant: the history keeps one round too many.                              *)
KeepOneMore(s) == SubSeq(s, 1, IF Len(s) > MaxRounds + 1 THEN MaxRounds + 1 ELSE Len(s))
Keep(s) == SubSeq(s, 1, IF Len(s) > MaxRounds THEN MaxRounds ELSE Len(s))

RoundEnds(r) ==
    /\ Settled(r)
    /\ rounds' = Keep(<<r>> \o rounds)
    /\ flight' = Cleared(r)
    /\ UNCHANGED now

Forgotten == rounds' = <<>> /\ flight' = {}

(* updatedAt of the snapshot that /api/regions/probes shows.                  *)
UpdatedAt == IF rounds = <<>> THEN 0 ELSE rounds[1].ts
=============================================================================
