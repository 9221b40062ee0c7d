--------------------------- MODULE TrafficLedger ---------------------------
(* Traffic accounting: xray counts the bytes of every user in memory, and     *)
(* Scheduler.collectTraffic (services/scheduler.ts) moves them into           *)
(* links.up_bytes / down_bytes and traffic_samples by `statsquery -reset`,    *)
(* which reads AND clears.  A pull is suspended while it awaits xray          *)
(* (services/xrayClient.ts retries a failed attempt), setInterval may let     *)
(* pulls overlap, links change status meanwhile, either process may restart.  *)
(*                                                                            *)
(* Traffic is a set of chunks with an identity, so that "counted twice" and   *)
(* "lost" can be told; both directions are one.                               *)
EXTENDS Naturals

CONSTANTS
    Links,
    Chunks,      \* the traffic of a behaviour
    Pulls,       \* slots for collectTraffic calls in flight
    Retries,     \* config.xrayRetries
    MaxFaults    \* bound on failed attempts and process restarts

ASSUME TrafficBounds == Retries \in Nat /\ MaxFaults \in Nat

VARIABLES
    row,      \* links.status; "revoking": revoked, its rmu still awaited
    carried,  \* history: what xray carried for each link
    counter,  \* xray's volatile counters
    booked,   \* links.up_bytes + links.down_bytes
    samples,  \* traffic_samples
    first,    \* Scheduler.firstLedger
    pull,     \* the call suspended in each slot
    faults    \* faults so far

vars == <<row, carried, counter, booked, samples, first, pull, faults>>
books == <<booked, samples, first>>

RowState == {"none", "active", "revoking", "inactive", "gone"}
Nothing == [l \in Links |-> {}]
PullType == [phase : {"idle", "calling", "answered", "failed"},
             isFirst : BOOLEAN, tries : 0..Retries, read : [Links -> SUBSET Chunks]]
IdlePull == [phase |-> "idle", isFirst |-> FALSE, tries |-> 0, read |-> Nothing]

----------------------------------------------------------------------------
(* xray.                                                                      *)

(* A chunk nobody carried yet passes through link l.  What a user of xray     *)
(* carries after its row has settled in another status is never booked, and   *)
(* left out.                                                                  *)
Carry(l, c) ==
    /\ row[l] \in {"active", "revoking"}
    /\ \A m \in Links : c \notin carried[m]
    /\ carried' = [carried EXCEPT ![l] = @ \cup {c}]
    /\ counter' = [counter EXCEPT ![l] = @ \cup {c}]
    /\ UNCHANGED <<row, books, pull, faults>>

(* Whether pull p passes -reset: the first call after the start of the        *)
(* process only reads.  Mutant: every call clears.                            *)
ResetsAlways(p) == TRUE
Resets(p) == ~pull[p].isFirst

(* What a statsquery of pull p does in xray.                                  *)
Query(p) == counter' = IF Resets(p) THEN Nothing ELSE counter

----------------------------------------------------------------------------
(* collectTraffic.                                                            *)

PullStart(p) ==
    /\ pull[p].phase = "idle"
    /\ pull' = [pull EXCEPT ![p] = [IdlePull EXCEPT !.phase = "calling",
                                                    !.isFirst = first]]
    /\ UNCHANGED <<row, carried, counter, books, faults>>

AnswerOk(p) ==
    /\ pull[p].phase = "calling"
    /\ Query(p)
    /\ pull' = [pull EXCEPT ![p].phase = "answered", ![p].read = counter]
    /\ UNCHANGED <<row, carried, books, faults>>

Fault == faults < MaxFaults /\ faults' = faults + 1

(* Mutant: the loop runs once more than xrayRetries allows.                   *)
RetryOnceMore(p) == pull' = IF pull[p].tries <= Retries
                            THEN [pull EXCEPT ![p].tries = @ + 1]
                            ELSE [pull EXCEPT ![p].phase = "failed"]
Retry(p) == pull' = IF pull[p].tries < Retries
                    THEN [pull EXCEPT ![p].tries = @ + 1]
                    ELSE [pull EXCEPT ![p].phase = "failed"]

AnswerFail(p) ==
    /\ pull[p].phase = "calling"
    /\ Fault
    /\ Retry(p)
    /\ UNCHANGED <<row, carried, counter, books>>

(* xray answered, too late or with more than execFile's maxBuffer.            *)
AnswerLost(p) ==
    /\ pull[p].phase = "calling"
    /\ Fault
    /\ Query(p)
    /\ Retry(p)
    /\ UNCHANGED <<row, carried, books>>

(* stdout is not JSON: parseStatsQuery takes it for "no traffic".             *)
AnswerGarbled(p) ==
    /\ pull[p].phase = "calling"
    /\ Fault
    /\ Query(p)
    /\ pull' = [pull EXCEPT ![p].phase = "answered"]
    /\ UNCHANGED <<row, carried, books>>

(* The transaction over the answer: each user whose row listActive has is     *)
(* credited, the others are skipped.  Mutants: the answer of the read-only    *)
(* call is credited too; the email is not compared.                           *)
Listed(p) == {l \in Links : ~pull[p].isFirst /\ row[l] = "active"}
CreditReadOnly(p) ==
    [l \in Links |-> IF row[l] = "active" THEN pull[p].read[l] ELSE {}]
CreditUnmatched(p) ==
    [l \in Links |-> IF l \in Listed(p) THEN UNION {pull[p].read[m] : m \in Links}
                                        ELSE {}]
Credit(p) == [l \in Links |-> IF l \in Listed(p) THEN pull[p].read[l] ELSE {}]

(* Mutant: firstLedger is never cleared.                                      *)
FirstKept(p) == UNCHANGED first
FirstDone(p) == first' = (first /\ ~pull[p].isFirst)

PullDone(p) ==
    /\ pull[p].phase = "answered"
    /\ booked' = [l \in Links |-> booked[l] \cup Credit(p)[l]]
    /\ samples' = [l \in Links |-> samples[l] \cup Credit(p)[l]]
    /\ FirstDone(p)
    /\ pull' = [pull EXCEPT ![p] = IdlePull]
    /\ UNCHANGED <<row, carried, counter, faults>>

(* runLedger and start log the error; firstLedger stays as it is.             *)
PullFailed(p) ==
    /\ pull[p].phase = "failed"
    /\ pull' = [pull EXCEPT ![p] = IdlePull]
    /\ UNCHANGED <<row, carried, counter, books, faults>>

(* cleanupSamples: a sample outlives the retention.                           *)
SweepSamples(l, c) ==
    /\ c \in samples[l]
    /\ samples' = [samples EXCEPT ![l] = @ \ {c}]
    /\ UNCHANGED <<row, carried, counter, booked, first, pull, faults>>

----------------------------------------------------------------------------
(* The row of a link moves (LinkControl has these steps in full).             *)

RowMoves(l, from, to) ==
    /\ row[l] \in from
    /\ row' = [row EXCEPT ![l] = to]
    /\ UNCHANGED <<carried, counter, books, pull, faults>>

Issue(l) == RowMoves(l, {"none"}, "active")
RevokeBegin(l) == RowMoves(l, {"active"}, "revoking")
RevokeSettled(l) == RowMoves(l, {"revoking"}, "inactive")
RevokeUndone(l) == RowMoves(l, {"revoking"}, "active")
Expire(l) == RowMoves(l, {"active"}, "inactive")

(* The row goes, and its samples with it.  Mutant: the samples stay.          *)
SamplesKept(l) == UNCHANGED samples
SamplesDeleted(l) == samples' = [samples EXCEPT ![l] = {}]

Delete(l) ==
    /\ row[l] \in {"active", "revoking", "inactive"}
    /\ row' = [row EXCEPT ![l] = "gone"]
    /\ booked' = [booked EXCEPT ![l] = {}]
    /\ SamplesDeleted(l)
    /\ UNCHANGED <<carried, counter, first, pull, faults>>

----------------------------------------------------------------------------
XrayRestart ==
    /\ Fault
    /\ counter' = Nothing
    /\ UNCHANGED <<row, carried, books, pull>>

ServerRestart ==
    /\ Fault
    /\ first' = TRUE
    /\ pull' = [p \in Pulls |-> IdlePull]
    /\ UNCHANGED <<row, carried, counter, booked, samples>>

Init ==
    /\ row = [l \in Links |-> "none"]
    /\ carried = Nothing
    /\ counter = Nothing
    /\ booked = Nothing
    /\ samples = Nothing
    /\ first = TRUE
    /\ pull = [p \in Pulls |-> IdlePull]
    /\ faults = 0

RowStep(l) ==
    \/ Issue(l) \/ RevokeBegin(l) \/ RevokeSettled(l) \/ RevokeUndone(l)
    \/ Expire(l) \/ Delete(l)

PullStep(p) ==
    \/ PullStart(p)
    \/ AnswerOk(p) \/ AnswerFail(p) \/ AnswerLost(p) \/ AnswerGarbled(p)
    \/ PullDone(p) \/ PullFailed(p)

Next ==
    \/ \E l \in Links : RowStep(l)
    \/ \E l \in Links, c \in Chunks : Carry(l, c) \/ SweepSamples(l, c)
    \/ \E p \in Pulls : PullStep(p)
    \/ XrayRestart
    \/ ServerRestart

Spec == Init /\ [][Next]_vars

(* The ledger timer keeps firing; an attempt ends, well once faults are used  *)
(* up; a settled promise resumes its function.                                *)
Fairness == \A p \in Pulls : /\ WF_vars(PullStart(p))
                             /\ WF_vars(AnswerOk(p))
                             /\ WF_vars(PullDone(p))
                             /\ WF_vars(PullFailed(p))

FairSpec == Spec /\ Fairness

----------------------------------------------------------------------------
TypeOK ==
    /\ row \in [Links -> RowState]
    /\ carried \in [Links -> SUBSET Chunks]
    /\ counter \in [Links -> SUBSET Chunks]
    /\ booked \in [Links -> SUBSET Chunks]
    /\ samples \in [Links -> SUBSET Chunks]
    /\ first \in BOOLEAN
    /\ pull \in [Pulls -> PullType]
    /\ faults \in 0..MaxFaults

(* What pull p took out of xray for l and has not booked yet.                 *)
Taken(p, l) == IF Resets(p) THEN pull[p].read[l] ELSE {}

(* No byte is ever counted twice: what is still in xray, what each pull has   *)
(* taken out and what is booked never overlap, whichever pulls overlap, are   *)
(* retried or straddle a restart.                                             *)
NeverTwice ==
    \A l \in Links :
        /\ counter[l] \cap booked[l] = {}
        /\ \A p \in Pulls :
              /\ Taken(p, l) \cap counter[l] = {}
              /\ Taken(p, l) \cap booked[l] = {}
              /\ \A q \in Pulls \ {p} : Taken(p, l) \cap Taken(q, l) = {}

(* A link is credited with what it carried itself, never with the bytes of    *)
(* another user of the same answer.                                           *)
CreditedToOwner == \A l \in Links : booked[l] \subseteq carried[l]

(* The samples of a link are part of its total, so the traffic curve never    *)
(* shows more than the ledger, and a deleted link has none.                   *)
SamplesWithinBooks == \A l \in Links : samples[l] \subseteq booked[l]

Lost(l) == {c \in carried[l] : /\ c \notin counter[l] \cup booked[l]
                               /\ \A p \in Pulls : c \notin Taken(p, l)}

(* Traffic of a link that is active before and after a step goes missing in   *)
(* that step only when an attempt or a process fails in it: neither the       *)
(* read-only first pull nor overlapping, rejected or repeated ones lose any.  *)
LossesAreFaults ==
    [][\A l \in Links :
          row[l] = "active" /\ row'[l] = "active" /\ faults' = faults
              => Lost(l)' = Lost(l)]_vars

(* What xray counted for a link is booked in the end, unless the link leaves  *)
(* "active" or a fault lost it: the ledger keeps leaving its read-only mode.  *)
BooksSettle ==
    \A l \in Links, c \in Chunks :
        c \in counter[l] ~> \/ c \in booked[l] \cup Lost(l)
                            \/ row[l] # "active"
=============================================================================
