---------------------------- MODULE LinkControl ----------------------------
(* The link control plane: the SQLite ledger (db/linksRepo.ts, db/init.ts),   *)
(* the request handlers that change it (services/linkService.ts), the expire  *)
(* scan of services/scheduler.ts, the ledger -> xray convergence of           *)
(* services/reconcile.ts and the xray calls they all await                    *)
(* (services/xrayClient.ts).                                                  *)
(*                                                                            *)
(* The server is one Node process.  SQLite is synchronous, so the code        *)
(* between two awaits is ONE step; every `await xray...` is a point where any *)
(* other handler, pass, timer or process crash may come in between.  A task   *)
(* is a running async function suspended at such an await.                    *)
EXTENDS Naturals

CONSTANTS
    Links,       \* identifiers that newLinkId can draw; id = email = xray user
    NoLink,      \* the link of a task that runs nothing
    Requests,    \* slots for create / revoke / remove handlers in flight
    Scans,       \* slots for expire scans in flight (setInterval may overlap them)
    Rounds,      \* slots for reconcile rounds in flight (idem)
    Retries,     \* config.xrayRetries: attempts after the first
    MaxTime,     \* bound on the clock
    MaxAhead,    \* furthest lifetime a request asks for, from now
    MaxHours,    \* limits.maxHours
    Failing,     \* links every xray call fails for, once they are created
    MaxExtends,  \* bound on the extensions of one link
    MaxRevokes,  \* bound on the revocations of one link, rolled back ones included
    MaxFaults    \* bound on the other failed attempts and process restarts

Tasks == Requests \cup Scans \cup Rounds
Permanent == 0   \* PERMANENT_EXPIRES_AT

ASSUME SlotsAssumption ==
    /\ Requests \cap Scans = {}
    /\ Requests \cap Rounds = {}
    /\ Scans \cap Rounds = {}
    /\ NoLink \notin Links
    /\ Failing \subseteq Links

ASSUME BoundsAssumption ==
    /\ Retries \in Nat
    /\ MaxTime \in Nat
    /\ MaxAhead \in Nat
    /\ MaxHours \in Nat
    /\ MaxExtends \in Nat
    /\ MaxRevokes \in Nat
    /\ MaxFaults \in Nat

VARIABLES
    now,      \* Date.now()
    status,   \* links.status; "fresh": id never drawn, "gone": its row deleted
    expires,  \* links.expires_at
    stamped,  \* links whose links.revoked_at is not NULL
    audit,    \* audit_log: number of rows per link and action
    sampled,  \* links with rows in traffic_samples (FOREIGN KEY to links)
    xray,     \* the users that exist in the running xray process
    task,     \* the async function suspended in each slot
    faults,   \* faults so far
    overtaken \* history: <<t, l>> when link l was extended while pass t, still
              \* under way, had it to take out of xray

vars == <<now, status, expires, stamped, audit, sampled, xray, task, faults,
          overtaken>>
ledger == <<status, expires, stamped, audit, sampled>>

Status == {"fresh", "active", "expired", "revoked", "gone"}
AuditKinds == {"create", "revoke", "extend", "link_delete"}
Ops == {"idle", "create", "revoke", "remove", "expire", "reconcile"}
Phases == {"calling", "ok", "failed"}

TaskType == [op : Ops, link : Links \cup {NoLink}, phase : Phases,
             tries : 0..Retries, todo : SUBSET Links, keep : SUBSET Links]

NoAudit == [k \in AuditKinds |-> 0]
Rows == {l \in Links : status[l] \in {"active", "expired", "revoked"}}

----------------------------------------------------------------------------
(* Predicates on a ledger row.                                                *)

ShouldBeActive(l) ==
    /\ status[l] = "active"
    /\ l \notin stamped
    /\ expires[l] = Permanent \/ expires[l] > now

(* The row that activeRow lets revoke and extend work on.  Mutant: any row.   *)
OperableIfPresent(l) == l \in Rows
Operable(l) == status[l] = "active"

(* What findActiveExpired selects.  Mutant: the lower bound that keeps the    *)
(* permanent sentinel out is lost.                                            *)
DueEvenPermanent(l) == status[l] = "active" /\ expires[l] < now
Due(l) == /\ status[l] = "active"
          /\ expires[l] > Permanent
          /\ expires[l] < now

DueRows == {l \in Links : Due(l)}

(* What a reconcile round looks at, listAll.  Mutant: listActive.             *)
ActiveRowsOnly == {l \in Links : status[l] = "active"}
ReconcileRows == Rows

Deleted(l) == /\ status' = [status EXCEPT ![l] = "gone"]
              /\ expires' = [expires EXCEPT ![l] = Permanent]
              /\ stamped' = stamped \ {l}

Audited(l, kind) == audit' = [audit EXCEPT ![l][kind] = @ + 1]

----------------------------------------------------------------------------
(* Tasks.  `todo` is what is left of a pass, `keep` the rows that its         *)
(* snapshot judged ShouldBeActive.                                            *)

Idle == [op |-> "idle", link |-> NoLink, phase |-> "calling", tries |-> 0,
         todo |-> {}, keep |-> {}]

Calling(op, l, todo, keep) ==
    [op |-> op, link |-> l, phase |-> "calling", tries |-> 0,
     todo |-> todo, keep |-> keep]

Begin(t, op, l, todo, keep) ==
    /\ task[t].op = "idle"
    /\ task' = [task EXCEPT ![t] = Calling(op, l, todo, keep)]
    /\ UNCHANGED overtaken

End(t) == /\ task' = [task EXCEPT ![t] = Idle]
          /\ overtaken' = {p \in overtaken : p[1] # t}

Resumes(t, op, phase) == task[t].op = op /\ task[t].phase = phase

(* The links that the rest of pass t takes out of xray.                       *)
TakesOut(t, l) ==
    /\ l \in {task[t].link} \cup task[t].todo
    /\ \/ task[t].op = "expire"
       \/ task[t].op = "reconcile" /\ l \notin task[t].keep

GoesOn(t) ==
    /\ \E l \in task[t].todo :
          task' = [task EXCEPT ![t] =
                      Calling(task[t].op, l, task[t].todo \ {l}, task[t].keep)]
    /\ UNCHANGED overtaken

(* The loop of a pass goes on to its next row, in any order, or returns.      *)
(* Mutant: it returns at the first row that failed.                           *)
NextRowUnlessFailed(t) ==
    IF task[t].todo = {} \/ task[t].phase = "failed" THEN End(t) ELSE GoesOn(t)
NextRow(t) == IF task[t].todo = {} THEN End(t) ELSE GoesOn(t)

(* A pass over the rows S starts; over no rows it returns at once.            *)
StartPass(t, op, S, keep) ==
    /\ task[t].op = "idle"
    /\ IF S = {}
       THEN UNCHANGED <<task, overtaken>>
       ELSE \E l \in S : Begin(t, op, l, S \ {l}, keep)

----------------------------------------------------------------------------
(* One attempt of XrayClient.run for the call that task t awaits.  adu of a   *)
(* known user and rmu of an unknown one are successes that change nothing.    *)

(* The calls that are adu, the others being rmu.                              *)
Adds(t) == \/ task[t].op = "create"
           \/ task[t].op = "reconcile" /\ task[t].link \in task[t].keep

Apply(t) == xray' = IF Adds(t) THEN xray \cup {task[t].link}
                               ELSE xray \ {task[t].link}

Awaiting(t) == task[t].op # "idle" /\ task[t].phase = "calling"

(* xray has taken the user of the link in but fails every call for it since.  *)
Hopeless(t) == task[t].link \in Failing /\ task[t].op # "create"

AttemptOk(t) ==
    /\ Awaiting(t)
    /\ ~Hopeless(t)
    /\ Apply(t)
    /\ task' = [task EXCEPT ![t].phase = "ok"]
    /\ UNCHANGED <<now, ledger, faults, overtaken>>

(* A timeout or a non-zero exit: another attempt after the backoff, or, when  *)
(* none is left, the call rejects.  Mutant: one attempt too many.             *)
RetryOnceMore(t) == task' = IF task[t].tries <= Retries
                            THEN [task EXCEPT ![t].tries = @ + 1]
                            ELSE [task EXCEPT ![t].phase = "failed"]
Retry(t) == task' = IF task[t].tries < Retries
                    THEN [task EXCEPT ![t].tries = @ + 1]
                    ELSE [task EXCEPT ![t].phase = "failed"]

Fault == faults < MaxFaults /\ faults' = faults + 1

AttemptFail(t) ==
    /\ Awaiting(t)
    /\ Fault
    /\ Retry(t)
    /\ UNCHANGED <<now, ledger, xray, overtaken>>

AttemptHopeless(t) ==
    /\ Awaiting(t)
    /\ Hopeless(t)
    /\ Retry(t)
    /\ UNCHANGED <<now, ledger, xray, faults, overtaken>>

(* xray did what it was asked, but the answer came too late or was lost.      *)
AttemptLost(t) ==
    /\ Awaiting(t)
    /\ ~Hopeless(t)
    /\ Fault
    /\ Apply(t)
    /\ Retry(t)
    /\ UNCHANGED <<now, ledger, overtaken>>

(* adu exits 0 but prints neither "Added 1" nor "already exists": the call    *)
(* rejects at once.                                                           *)
AttemptRefused(t) ==
    /\ Awaiting(t)
    /\ Adds(t)
    /\ Fault
    /\ task' = [task EXCEPT ![t].phase = "failed"]
    /\ UNCHANGED <<now, ledger, xray, overtaken>>

----------------------------------------------------------------------------
(* services/linkService.ts                                                    *)

(* The lifetimes normalizeInput lets through: permanent, hours, expiresAt.    *)
NewLifetimes == {Permanent} \cup {now + h : h \in 1..MaxHours}
                            \cup {now + d : d \in 1..MaxAhead}

Create(r, l, at) ==
    /\ status[l] = "fresh"
    /\ at \in NewLifetimes
    /\ status' = [status EXCEPT ![l] = "active"]
    /\ expires' = [expires EXCEPT ![l] = at]
    /\ Audited(l, "create")
    /\ Begin(r, "create", l, {}, {})
    /\ UNCHANGED <<now, stamped, sampled, xray, faults>>

CreateDone(r) ==
    /\ Resumes(r, "create", "ok")
    /\ End(r)
    /\ UNCHANGED <<now, ledger, xray, faults>>

(* Mutant: the audit rows stay.                                               *)
AuditKept(l) == UNCHANGED audit
AuditUndone(l) == audit' = [audit EXCEPT ![l] = NoAudit]

(* adu failed: the row and ALL audit rows of the link are deleted in one      *)
(* transaction.  While traffic_samples rows refer to the link, the foreign    *)
(* key makes the first DELETE throw and nothing is rolled back.               *)
CreateRollback(r) ==
    LET l == task[r].link IN
    /\ Resumes(r, "create", "failed")
    /\ IF l \in sampled
       THEN UNCHANGED <<status, expires, stamped, audit>>
       ELSE Deleted(l) /\ AuditUndone(l)
    /\ End(r)
    /\ UNCHANGED <<now, sampled, xray, faults>>

Revoke(r, l) ==
    /\ Operable(l)
    /\ audit[l]["revoke"] < MaxRevokes
    /\ status' = [status EXCEPT ![l] = "revoked"]
    /\ stamped' = stamped \cup {l}
    /\ Audited(l, "revoke")
    /\ Begin(r, "revoke", l, {}, {})
    /\ UNCHANGED <<now, expires, sampled, xray, faults>>

RevokeDone(r) ==
    /\ Resumes(r, "revoke", "ok")
    /\ End(r)
    /\ UNCHANGED <<now, ledger, xray, faults>>

(* The unconditional UPDATE that puts the row, if it still exists, back to    *)
(* active.  Mutant: revoked_at is not put back to NULL.                       *)
RestoredInPart(l) ==
    /\ status' = [status EXCEPT ![l] = IF l \in Rows THEN "active" ELSE @]
    /\ UNCHANGED stamped
Restored(l) ==
    /\ status' = [status EXCEPT ![l] = IF l \in Rows THEN "active" ELSE @]
    /\ stamped' = stamped \ {l}

(* rmu failed.  The audit row of the revocation stays.                        *)
RevokeRollback(r) ==
    /\ Resumes(r, "revoke", "failed")
    /\ Restored(task[r].link)
    /\ End(r)
    /\ UNCHANGED <<now, expires, audit, sampled, xray, faults>>

(* The expiries extend accepts: to permanent, back from it or to any moment   *)
(* ahead (expiresAt), or h hours after the present expiry.                    *)
LaterLifetimes(l) ==
    {now + d : d \in 1..MaxAhead} \cup
    IF expires[l] = Permanent THEN {}
    ELSE {Permanent} \cup {expires[l] + h : h \in 1..MaxHours}

Extend(l, at) ==
    /\ Operable(l)
    /\ audit[l]["extend"] < MaxExtends
    /\ at \in LaterLifetimes(l)
    /\ expires' = [expires EXCEPT ![l] = at]
    /\ Audited(l, "extend")
    /\ overtaken' = overtaken \cup {<<t, l>> : t \in {u \in Tasks : TakesOut(u, l)}}
    /\ UNCHANGED <<now, status, stamped, sampled, xray, task, faults>>

Remove(r, l) ==
    /\ l \in Rows
    /\ Begin(r, "remove", l, {}, {})
    /\ UNCHANGED <<now, ledger, xray, faults>>

(* Whether rmu succeeded or not, and whether or not the row is still there.   *)
RemoveDone(r) ==
    LET l == task[r].link IN
    /\ Resumes(r, "remove", "ok") \/ Resumes(r, "remove", "failed")
    /\ sampled' = sampled \ {l}
    /\ Deleted(l)
    /\ Audited(l, "link_delete")
    /\ End(r)
    /\ UNCHANGED <<now, xray, faults>>

----------------------------------------------------------------------------
(* services/scheduler.ts and services/reconcile.ts                            *)

ExpireStart(s) ==
    /\ StartPass(s, "expire", DueRows, {})
    /\ UNCHANGED <<now, ledger, xray, faults>>

(* The scan's UPDATE is guarded by status = 'active'.  Mutant: it is not.     *)
ExpireCommitsBlindly(s) == task[s].phase = "ok" /\ task[s].link \in Rows
ExpireCommits(s) == task[s].phase = "ok" /\ status[task[s].link] = "active"

(* rmu answered for one row of the scan: it expires if it is still active; a  *)
(* failure is left to the next scan.                                          *)
ExpireStep(s) ==
    /\ Resumes(s, "expire", "ok") \/ Resumes(s, "expire", "failed")
    /\ status' = IF ExpireCommits(s)
                 THEN [status EXCEPT ![task[s].link] = "expired"]
                 ELSE status
    /\ NextRow(s)
    /\ UNCHANGED <<now, expires, stamped, audit, sampled, xray, faults>>

ReconcileStart(c) ==
    /\ StartPass(c, "reconcile", ReconcileRows, {l \in Links : ShouldBeActive(l)})
    /\ UNCHANGED <<now, ledger, xray, faults>>

ReconcileStep(c) ==
    /\ Resumes(c, "reconcile", "ok") \/ Resumes(c, "reconcile", "failed")
    /\ NextRow(c)
    /\ UNCHANGED <<now, ledger, xray, faults>>

(* collectTraffic, as far as the ledger's foreign key is concerned: an active *)
(* link that xray serves gets traffic_samples rows.                           *)
CollectTraffic(l) ==
    /\ status[l] = "active"
    /\ l \in xray
    /\ sampled' = sampled \cup {l}
    /\ UNCHANGED <<now, status, expires, stamped, audit, xray, task, faults, overtaken>>

(* cleanupSamples: the last samples of a link outlive the retention.          *)
SweepSamples(l) ==
    /\ l \in sampled
    /\ sampled' = sampled \ {l}
    /\ UNCHANGED <<now, status, expires, stamped, audit, xray, task, faults, overtaken>>

----------------------------------------------------------------------------
(* The environment.                                                           *)

(* xray's dynamic users live in its memory only.                              *)
XrayRestart ==
    /\ Fault
    /\ xray' = {}
    /\ UNCHANGED <<now, ledger, task, overtaken>>

(* The control plane dies: SQLite has every committed transaction, the        *)
(* suspended functions are gone.                                              *)
ServerRestart ==
    /\ Fault
    /\ task' = [t \in Tasks |-> Idle]
    /\ overtaken' = {}
    /\ UNCHANGED <<now, ledger, xray>>

Tick ==
    /\ now < MaxTime
    /\ now' = now + 1
    /\ UNCHANGED <<ledger, xray, task, faults, overtaken>>

----------------------------------------------------------------------------
Init ==
    /\ now = 1
    /\ status = [l \in Links |-> "fresh"]
    /\ expires = [l \in Links |-> Permanent]
    /\ stamped = {}
    /\ audit = [l \in Links |-> NoAudit]
    /\ sampled = {}
    /\ xray = {}
    /\ task = [t \in Tasks |-> Idle]
    /\ faults = 0
    /\ overtaken = {}

Resume(t) ==
    \/ CreateDone(t) \/ CreateRollback(t)
    \/ RevokeDone(t) \/ RevokeRollback(t)
    \/ RemoveDone(t)
    \/ ExpireStep(t)
    \/ ReconcileStep(t)

Request(r) ==
    \E l \in Links :
        \/ \E at \in NewLifetimes : Create(r, l, at)
        \/ Revoke(r, l)
        \/ Remove(r, l)

Attempt(t) ==
    \/ AttemptOk(t) \/ AttemptFail(t) \/ AttemptHopeless(t)
    \/ AttemptLost(t) \/ AttemptRefused(t)

Next ==
    \/ \E r \in Requests : Request(r)
    \/ \E l \in Links : \E at \in LaterLifetimes(l) : Extend(l, at)
    \/ \E s \in Scans : ExpireStart(s)
    \/ \E c \in Rounds : ReconcileStart(c)
    \/ \E t \in Tasks : Attempt(t) \/ Resume(t)
    \/ \E l \in Links : CollectTraffic(l) \/ SweepSamples(l)
    \/ XrayRestart
    \/ ServerRestart
    \/ Tick

Spec == Init /\ [][Next]_vars

(* Timers keep firing, an attempt ends (each has a timeout) and, faults being *)
(* bounded, ends well unless its link is one of Failing; a settled promise    *)
(* resumes its function; time passes.                                         *)
Fairness ==
    /\ \A t \in Tasks : WF_vars(AttemptOk(t) \/ AttemptHopeless(t)) /\ WF_vars(Resume(t))
    /\ \A s \in Scans : WF_vars(ExpireStart(s))
    /\ \A c \in Rounds : WF_vars(ReconcileStart(c))
    /\ WF_vars(Tick)

FairSpec == Spec /\ Fairness

----------------------------------------------------------------------------
(* The ledger.                                                                *)

TypeOK ==
    /\ now \in Nat
    /\ status \in [Links -> Status]
    /\ expires \in [Links -> Nat]
    /\ stamped \subseteq Links
    /\ audit \in [Links -> [AuditKinds -> Nat]]
    /\ sampled \subseteq Links
    /\ xray \subseteq Links
    /\ task \in [Tasks -> TaskType]
    /\ faults \in 0..MaxFaults
    /\ overtaken \subseteq Tasks \X Links

Revoking(l) == {r \in Requests : task[r].op = "revoke" /\ task[r].link = l}

(* At most one revocation of a link is in flight, and as long as it is, no    *)
(* other handler or pass has moved the row on: it is still revoked, or gone.  *)
(* revoke's rollback is an UPDATE without a guard on status, so this is what  *)
(* makes it undo its own revocation and nothing else.                         *)
RevokeExclusive ==
    \A r \in Requests : task[r].op = "revoke" =>
        /\ status[task[r].link] \in {"revoked", "gone"}
        /\ Revoking(task[r].link) = {r}

(* links.revoked_at is set exactly on the revoked rows, through every         *)
(* interleaving of revoke, its rollback, remove and the expire scan.          *)
StampedIffRevoked == stamped = {l \in Links : status[l] = "revoked"}

(* audit_log tells how every link got where it is: a row has the audit of its *)
(* creation, a revoked row one of a revocation, and a link that was issued    *)
(* and has no row left either a deletion or, its create having been undone,   *)
(* no trace of the creation.                                                  *)
AuditCoversLedger ==
    \A l \in Links :
        /\ status[l] = "fresh" => audit[l] = NoAudit
        /\ l \in Rows => audit[l]["create"] = 1 /\ audit[l]["link_delete"] = 0
        /\ status[l] = "revoked" => audit[l]["revoke"] > 0
        /\ status[l] = "gone" =>
              audit[l]["link_delete"] > 0 \/ audit[l]["create"] = 0

(* traffic_samples never refers to a link without a row.                      *)
SampledHaveRows == sampled \subseteq Rows

----------------------------------------------------------------------------
(* The abstract life of a link: a revocation counts once it can no longer be  *)
(* rolled back.                                                               *)

lifeState == [l \in Links |->
    IF status[l] = "revoked" /\ Revoking(l) # {} THEN "active" ELSE status[l]]

Lifecycle == INSTANCE LinkLifecycle WITH state <- lifeState, lifetime <- expires

(* The ledger implements LinkLifecycle: whatever requests, passes, xray       *)
(* failures and restarts interleave, an expired link and a link whose         *)
(* revocation can no longer be rolled back never become active, its expires_at*)
(* never moves, an identifier is never issued twice.                          *)
ImplementsLifecycle == Lifecycle!Spec

----------------------------------------------------------------------------
(* The mirror.                                                                *)

Mirrored == \A l \in Rows \ Failing : l \in xray <=> ShouldBeActive(l)

(* Once requests, faults and the clock have come to rest, xray serves exactly *)
(* the ledger rows that should be active and stays so, whatever users were    *)
(* lost to a restart or left behind by failed and raced calls.  Links that    *)
(* xray fails for good are not mirrored, but they keep no round from the rows *)
(* behind them.                                                               *)
Converges == <>[]Mirrored

(* A link that is past its expiry while active does not stay so: the scan     *)
(* expires it, a request revokes or deletes it, or an extension moves expiry. *)
(* A link whose rmu fails for good stays, and holds up no other.              *)
DueLinksLeave == \A l \in Links \ Failing : Due(l) ~> ~Due(l)

(* The call that task t awaits is answered well in this step.                 *)
Answered(t) == task[t].phase = "calling" /\ task'[t].phase = "ok"

(* Without a fault, a user that should be active leaves xray only by a DELETE *)
(* of its link, or by a pass that was already under way, with that link to    *)
(* take out, when the link was extended: a pass whose judgement no extension  *)
(* has overtaken never cuts off a valid or a permanent link.                  *)
EvictionJustified ==
    [][faults' = 0 => \A l \in xray \ xray' : ShouldBeActive(l) =>
          \E t \in Tasks : /\ Answered(t)
                           /\ task[t].link = l
                           /\ task[t].op = "remove" \/ <<t, l>> \in overtaken]_vars

----------------------------------------------------------------------------
(* What a comment of the repository claims and the code does not keep: the    *)
(* run that checks it finds the violation.                                    *)

(* lib/expiry.ts:1, services/linkService.ts:17: a permanent link is never     *)
(* expired automatically.  The scan commits "expired" after its await without *)
(* looking at expires_at again.                                               *)
PermanentNeverExpires ==
    [][\A l \in Links : status'[l] = "expired" /\ status[l] # "expired"
                           => expires[l] # Permanent]_vars
=============================================================================
