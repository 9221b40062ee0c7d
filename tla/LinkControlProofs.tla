------------------------- MODULE LinkControlProofs -------------------------
(* Machine-checked proofs about LinkControl, for every set of links and slots *)
(* and every value of the bounds: type correctness, the inductive invariant   *)
(* behind its safety invariants, the implementation of LinkLifecycle, and     *)
(* that the passes evict nobody who should be active.                         *)
EXTENDS LinkControl, TLAPS

----------------------------------------------------------------------------
(* Type correctness.                                                          *)

(* An issued call and an idle slot are well-typed task records.               *)
LEMMA TaskRecords ==
    /\ Idle \in TaskType
    /\ \A op \in Ops, l \in Links, todo, keep \in SUBSET Links :
          Calling(op, l, todo, keep) \in TaskType
BY BoundsAssumption DEF Idle, Calling, TaskType, Ops, Phases

(* Beginning a call, ending a task and going on to the next row keep the      *)
(* slots well typed.                                                          *)
LEMMA BeginType ==
    ASSUME TypeOK, NEW t \in Tasks, NEW op \in Ops, NEW l \in Links,
           NEW todo \in SUBSET Links, NEW keep \in SUBSET Links,
           Begin(t, op, l, todo, keep)
    PROVE  task' \in [Tasks -> TaskType]
<1>1. Calling(op, l, todo, keep) \in TaskType
  BY TaskRecords
<1>2. QED
  BY <1>1 DEF TypeOK, Begin

LEMMA RequestBeginType ==
    ASSUME TypeOK, NEW r \in Requests, NEW op \in {"create", "revoke", "remove"},
           NEW l \in Links, Begin(r, op, l, {}, {})
    PROVE  task' \in [Tasks -> TaskType]
<1>1. r \in Tasks /\ op \in Ops /\ {} \in SUBSET Links
  BY DEF Tasks, Ops
<1>2. QED
  BY <1>1, BeginType

LEMMA EndType ==
    ASSUME TypeOK, NEW t \in Tasks, End(t)
    PROVE  task' \in [Tasks -> TaskType]
BY TaskRecords DEF TypeOK, End

LEMMA NextRowType ==
    ASSUME TypeOK, NEW t \in Tasks, NextRow(t)
    PROVE  task' \in [Tasks -> TaskType]
<1>1. CASE task[t].todo = {}
  BY <1>1, EndType DEF NextRow, GoesOn
<1>2. CASE task[t].todo # {}
  <2>1. task[t] \in TaskType
    BY DEF TypeOK
  <2>2. /\ task[t].op \in Ops
        /\ task[t].todo \in SUBSET Links
        /\ task[t].keep \in SUBSET Links
    BY <2>1 DEF TaskType
  <2>3. PICK l \in task[t].todo :
           task' = [task EXCEPT ![t] =
                       Calling(task[t].op, l, task[t].todo \ {l}, task[t].keep)]
    BY <1>2 DEF NextRow, GoesOn
  <2>4. Calling(task[t].op, l, task[t].todo \ {l}, task[t].keep) \in TaskType
    BY <2>2, TaskRecords
  <2>5. QED
    BY <2>3, <2>4 DEF TypeOK
<1>3. QED
  BY <1>1, <1>2

LEMMA StartPassType ==
    ASSUME TypeOK, NEW t \in Tasks, NEW op \in Ops, NEW S \in SUBSET Links,
           NEW keep \in SUBSET Links, StartPass(t, op, S, keep)
    PROVE  task' \in [Tasks -> TaskType]
<1>1. CASE S = {}
  BY <1>1 DEF StartPass, TypeOK
<1>2. CASE S # {}
  <2>1. PICK l \in S : Begin(t, op, l, S \ {l}, keep)
    BY <1>2 DEF StartPass
  <2>2. QED
    BY <2>1, BeginType
<1>3. QED
  BY <1>1, <1>2

LEMMA RetryType ==
    ASSUME TypeOK, NEW t \in Tasks, Retry(t)
    PROVE  task' \in [Tasks -> TaskType]
<1>1. task[t] \in TaskType
  BY DEF TypeOK
<1>2. task[t].tries < Retries => [task[t] EXCEPT !.tries = @ + 1] \in TaskType
  BY <1>1, BoundsAssumption DEF TaskType
<1>3. [task[t] EXCEPT !.phase = "failed"] \in TaskType
  BY <1>1 DEF TaskType, Phases
<1>4. QED
  BY <1>2, <1>3 DEF TypeOK, Retry

(* One more audit row keeps the counts natural numbers.                       *)
LEMMA AuditedType ==
    ASSUME TypeOK, NEW l \in Links, NEW kind \in AuditKinds, Audited(l, kind)
    PROVE  audit' \in [Links -> [AuditKinds -> Nat]]
BY DEF TypeOK, Audited

----------------------------------------------------------------------------
(* The inductive invariant.  Beyond the invariants the runs check, it says    *)
(* who may be in a slot: request handlers run in request slots only, and the  *)
(* links that a task works on, now or later in its pass, have been issued;    *)
(* without it, an arbitrary suspended task could roll back or expire a link   *)
(* it never touched.  And a link without a row has no lifetime left, which    *)
(* the implementation of LinkLifecycle needs.                                 *)

SlotsInOrder ==
    \A t \in Tasks : task[t].op # "idle" =>
        /\ task[t].link \in Links
        /\ \A l \in {task[t].link} \cup task[t].todo : status[l] # "fresh"
        /\ task[t].op \in {"create", "revoke", "remove"} => t \in Requests

GoneIsEmpty == \A l \in Links : status[l] = "gone" => expires[l] = Permanent

IInv == /\ TypeOK
        /\ SlotsInOrder
        /\ GoneIsEmpty
        /\ RevokeExclusive
        /\ StampedIffRevoked
        /\ SampledHaveRows
        /\ AuditCoversLedger

LEMMA InitInv == Init => IInv
<1> SUFFICES ASSUME Init PROVE IInv
  OBVIOUS
<1>1. TypeOK
  BY TaskRecords, BoundsAssumption
  DEF Init, TypeOK, Status, NoAudit, Permanent
<1>2. \A t \in Tasks : task[t].op = "idle"
  BY DEF Init, Idle
<1>3. SlotsInOrder
  BY <1>2 DEF SlotsInOrder
<1>4. RevokeExclusive
  BY <1>2 DEF RevokeExclusive, Tasks
<1>5. StampedIffRevoked /\ SampledHaveRows
  BY DEF Init, StampedIffRevoked, SampledHaveRows
<1>6. AuditCoversLedger
  BY DEF Init, AuditCoversLedger, Rows
<1>7. GoneIsEmpty
  BY DEF Init, GoneIsEmpty
<1>8. QED
  BY <1>1, <1>3, <1>4, <1>5, <1>6, <1>7 DEF IInv

----------------------------------------------------------------------------
(* Type correctness is preserved.                                             *)

(* Only passes that hold links to take out are ever overtaken.                *)
LEMMA OvertakenStep ==
    ASSUME TypeOK, [Next]_vars
    PROVE  overtaken' \subseteq Tasks \X Links
<1>a. overtaken \subseteq Tasks \X Links
  BY DEF TypeOK
<1>b. \A t \in Tasks : End(t) \/ NextRow(t) => overtaken' \subseteq overtaken
  BY DEF End, NextRow, GoesOn
<1>1. ASSUME NEW l \in Links, NEW at \in LaterLifetimes(l), Extend(l, at)
      PROVE  overtaken' \subseteq Tasks \X Links
  BY <1>1, <1>a DEF Extend
<1>2. ASSUME NEW t \in Tasks, Resume(t)
      PROVE  overtaken' \subseteq overtaken
  BY <1>2, <1>b DEF Resume, CreateDone, CreateRollback, RevokeDone,
     RevokeRollback, RemoveDone, ExpireStep, ReconcileStep
<1>3. QED
  BY <1>a, <1>1, <1>2
  DEF Next, Request, Create, Revoke, Remove, Begin, ExpireStart, ReconcileStart,
      StartPass, Attempt, AttemptOk, AttemptFail, AttemptHopeless, AttemptLost,
      AttemptRefused, CollectTraffic, SweepSamples, XrayRestart, ServerRestart,
      Tick, vars

LEMMA TypeStep == IInv /\ [Next]_vars => TypeOK'
<1> SUFFICES ASSUME IInv, [Next]_vars PROVE TypeOK'
  OBVIOUS
<1> USE DEF IInv
<1>a. TypeOK /\ SlotsInOrder /\ overtaken' \subseteq Tasks \X Links
  BY OvertakenStep
<1>b. \A t \in Tasks : task[t] \in TaskType
  BY <1>a DEF TypeOK
<1>c. NewLifetimes \subseteq Nat /\ \A l \in Links : LaterLifetimes(l) \subseteq Nat
  BY <1>a, BoundsAssumption DEF TypeOK, NewLifetimes, LaterLifetimes, Permanent
<1>d. Fault => faults' \in 0..MaxFaults
  BY <1>a, BoundsAssumption DEF TypeOK, Fault
<1>1. ASSUME NEW r \in Requests, NEW l \in Links, NEW at \in NewLifetimes,
             Create(r, l, at)
      PROVE  TypeOK'
  <2>1. task' \in [Tasks -> TaskType]
    BY <1>1, <1>a, RequestBeginType DEF Create
  <2>2. audit' \in [Links -> [AuditKinds -> Nat]]
    BY <1>1, <1>a, AuditedType DEF Create, AuditKinds
  <2>3. QED
    BY <1>1, <1>a, <1>c, <2>1, <2>2 DEF TypeOK, Create, Status
<1>2. ASSUME NEW r \in Requests, NEW l \in Links, Revoke(r, l)
      PROVE  TypeOK'
  <2>1. task' \in [Tasks -> TaskType]
    BY <1>2, <1>a, RequestBeginType DEF Revoke
  <2>2. audit' \in [Links -> [AuditKinds -> Nat]]
    BY <1>2, <1>a, AuditedType DEF Revoke, AuditKinds
  <2>3. QED
    BY <1>2, <1>a, <2>1, <2>2 DEF TypeOK, Revoke, Status
<1>3. ASSUME NEW r \in Requests, NEW l \in Links, Remove(r, l)
      PROVE  TypeOK'
  <2>1. task' \in [Tasks -> TaskType]
    BY <1>3, <1>a, RequestBeginType DEF Remove
  <2>2. QED
    BY <1>3, <1>a, <2>1 DEF TypeOK, Remove, ledger
<1>4. ASSUME NEW l \in Links, NEW at \in LaterLifetimes(l), Extend(l, at)
      PROVE  TypeOK'
  <2>1. audit' \in [Links -> [AuditKinds -> Nat]]
    BY <1>4, <1>a, AuditedType DEF Extend, AuditKinds
  <2>2. QED
    BY <1>4, <1>a, <1>c, <2>1 DEF TypeOK, Extend
<1>5. ASSUME NEW s \in Scans, ExpireStart(s)
      PROVE  TypeOK'
  <2>0. /\ s \in Tasks /\ "expire" \in Ops
        /\ DueRows \in SUBSET Links /\ {} \in SUBSET Links
    BY DEF Tasks, Ops, DueRows
  <2>1. task' \in [Tasks -> TaskType]
    BY <2>0, <1>5, <1>a, StartPassType DEF ExpireStart
  <2>2. QED
    BY <1>5, <1>a, <2>1 DEF TypeOK, ExpireStart, ledger
<1>6. ASSUME NEW c \in Rounds, ReconcileStart(c)
      PROVE  TypeOK'
  <2>1. task' \in [Tasks -> TaskType]
    BY <1>6, <1>a, StartPassType DEF ReconcileStart, Tasks, Ops, ReconcileRows, Rows
  <2>2. QED
    BY <1>6, <1>a, <2>1 DEF TypeOK, ReconcileStart, ledger
<1>7. ASSUME NEW t \in Tasks, Attempt(t)
      PROVE  TypeOK'
  <2>1. task[t].link \in Links
    BY <1>7, <1>a
    DEF SlotsInOrder, Attempt, AttemptOk, AttemptFail, AttemptHopeless, AttemptLost,
        AttemptRefused, Awaiting
  <2>2. Apply(t) => xray' \subseteq Links
    BY <1>a, <2>1 DEF Apply, TypeOK
  <2>3. CASE AttemptOk(t)
    <3>1. [task[t] EXCEPT !.phase = "ok"] \in TaskType
      BY <1>b DEF TaskType, Phases
    <3>2. QED
      BY <2>3, <1>a, <2>2, <3>1 DEF TypeOK, AttemptOk, ledger
  <2>4. CASE AttemptFail(t)
    BY <2>4, <1>a, <1>d, RetryType DEF TypeOK, AttemptFail, ledger
  <2>8. CASE AttemptHopeless(t)
    BY <2>8, <1>a, RetryType DEF TypeOK, AttemptHopeless, ledger
  <2>5. CASE AttemptLost(t)
    BY <2>5, <1>a, <1>d, <2>2, RetryType DEF TypeOK, AttemptLost, ledger
  <2>6. CASE AttemptRefused(t)
    <3>1. [task[t] EXCEPT !.phase = "failed"] \in TaskType
      BY <1>b DEF TaskType, Phases
    <3>2. QED
      BY <2>6, <1>a, <1>d, <3>1 DEF TypeOK, AttemptRefused, ledger
  <2>7. QED
    BY <1>7, <2>3, <2>4, <2>5, <2>6, <2>8 DEF Attempt
<1>8. ASSUME NEW t \in Tasks, Resume(t)
      PROVE  TypeOK'
  <2>1. task[t].link \in Links
    BY <1>8, <1>a
    DEF SlotsInOrder, Resume, Resumes, CreateDone, CreateRollback, RevokeDone,
        RevokeRollback, RemoveDone, ExpireStep, ReconcileStep
  <2>2. Deleted(task[t].link) => /\ status' \in [Links -> Status]
                                 /\ expires' \in [Links -> Nat]
                                 /\ stamped' \subseteq Links
    BY <1>a, <2>1 DEF TypeOK, Deleted, Status, Permanent
  <2>3. CASE CreateDone(t)
    BY <2>3, <1>a, EndType DEF TypeOK, CreateDone, ledger
  <2>4. CASE CreateRollback(t)
    <3>1. audit' \in [Links -> [AuditKinds -> Nat]]
      BY <2>4, <1>a DEF TypeOK, CreateRollback, AuditUndone, NoAudit
    <3>2. QED
      BY <2>4, <1>a, <2>2, <3>1, EndType DEF TypeOK, CreateRollback
  <2>5. CASE RevokeDone(t)
    BY <2>5, <1>a, EndType DEF TypeOK, RevokeDone, ledger
  <2>6. CASE RevokeRollback(t)
    BY <2>6, <1>a, <2>1, EndType DEF TypeOK, RevokeRollback, Restored, Status
  <2>7. CASE RemoveDone(t)
    <3>1. audit' \in [Links -> [AuditKinds -> Nat]]
      BY <2>7, <1>a, <2>1, AuditedType DEF RemoveDone, AuditKinds
    <3>2. QED
      BY <2>7, <1>a, <2>1, <2>2, <3>1, EndType DEF TypeOK, RemoveDone
  <2>8. CASE ExpireStep(t)
    BY <2>8, <1>a, <2>1, NextRowType DEF TypeOK, ExpireStep, Status
  <2>9. CASE ReconcileStep(t)
    BY <2>9, <1>a, NextRowType DEF TypeOK, ReconcileStep, ledger
  <2>10. QED
    BY <1>8, <2>3, <2>4, <2>5, <2>6, <2>7, <2>8, <2>9 DEF Resume
<1>9. ASSUME NEW l \in Links, CollectTraffic(l) \/ SweepSamples(l)
      PROVE  TypeOK'
  BY <1>9, <1>a DEF TypeOK, CollectTraffic, SweepSamples
<1>10. CASE XrayRestart
  BY <1>10, <1>a, <1>d DEF TypeOK, XrayRestart, ledger
<1>11. CASE ServerRestart
  BY <1>11, <1>a, <1>d, TaskRecords DEF TypeOK, ServerRestart, ledger
<1>12. CASE Tick
  BY <1>12, <1>a DEF TypeOK, Tick, ledger
<1>13. CASE UNCHANGED vars
  BY <1>13, <1>a DEF TypeOK, vars
<1>14. QED
  BY <1>1, <1>2, <1>3, <1>4, <1>5, <1>6, <1>7, <1>8, <1>9, <1>10, <1>11, <1>12,
     <1>13 DEF Next, Request
----------------------------------------------------------------------------
(* How a step may change the slots.                                           *)

(* Task u ends, stays at its call, or goes on to a row left in its pass.      *)
Continues(u) ==
    \/ task'[u].op = "idle"
    \/ /\ task'[u].op = task[u].op
       /\ task'[u].link \in {task[u].link} \cup task[u].todo
       /\ task'[u].todo \subseteq task[u].todo
       /\ task[u].op \in {"create", "revoke", "remove"} =>
             task'[u].link = task[u].link

LEMMA EndContinues ==
    ASSUME TypeOK, NEW t \in Tasks, End(t)
    PROVE  \A u \in Tasks : Continues(u)
BY DEF TypeOK, End, Idle, Continues

LEMMA NextRowContinues ==
    ASSUME TypeOK, NEW t \in Tasks, NextRow(t),
           task[t].op \in {"expire", "reconcile"}
    PROVE  \A u \in Tasks : Continues(u)
<1>1. CASE task[t].todo = {}
  BY <1>1, EndContinues DEF NextRow, GoesOn
<1>2. CASE task[t].todo # {}
  <2>1. PICK l \in task[t].todo :
           task' = [task EXCEPT ![t] =
                       Calling(task[t].op, l, task[t].todo \ {l}, task[t].keep)]
    BY <1>2 DEF NextRow, GoesOn
  <2>2. QED
    BY <2>1 DEF TypeOK, Calling, Continues
<1>3. QED
  BY <1>1, <1>2

(* An attempt leaves every task at its call.                                  *)
LEMMA AttemptKeeps ==
    ASSUME TypeOK, NEW t \in Tasks, Attempt(t)
    PROVE  \A u \in Tasks : /\ task'[u].op = task[u].op
                            /\ task'[u].link = task[u].link
                            /\ task'[u].todo = task[u].todo
                            /\ task'[u].keep = task[u].keep
<1>1. task[t] \in TaskType
  BY DEF TypeOK
<1>2. ASSUME NEW p \in Phases
      PROVE  LET x == [task[t] EXCEPT !.phase = p]
             IN  x.op = task[t].op /\ x.link = task[t].link
                /\ x.todo = task[t].todo /\ x.keep = task[t].keep
  BY <1>1 DEF TaskType
<1>3. LET x == [task[t] EXCEPT !.tries = @ + 1]
      IN  x.op = task[t].op /\ x.link = task[t].link
                /\ x.todo = task[t].todo /\ x.keep = task[t].keep
  BY <1>1 DEF TaskType
<1>4. \/ \E p \in Phases : task' = [task EXCEPT ![t].phase = p]
      \/ task' = [task EXCEPT ![t].tries = @ + 1]
  BY DEF Attempt, AttemptOk, AttemptFail, AttemptHopeless,
      AttemptLost, AttemptRefused, Retry, Phases
<1>5. QED
  BY <1>2, <1>3, <1>4 DEF TypeOK

LEMMA AttemptContinues ==
    ASSUME TypeOK, NEW t \in Tasks, Attempt(t)
    PROVE  \A u \in Tasks : Continues(u)
BY AttemptKeeps DEF Continues

LEMMA ResumeContinues ==
    ASSUME TypeOK, NEW t \in Tasks, Resume(t)
    PROVE  \A u \in Tasks : Continues(u)
<1>1. CASE End(t)
  BY <1>1, EndContinues
<1>2. CASE ExpireStep(t) \/ ReconcileStep(t)
  BY <1>2, NextRowContinues DEF ExpireStep, ReconcileStep, Resumes
<1>3. QED
  BY <1>1, <1>2 DEF Resume, CreateDone, CreateRollback, RevokeDone,
     RevokeRollback, RemoveDone

(* Steps in which every task continues keep the slots in order and the        *)
(* revocations exclusive, as long as no identifier becomes fresh again and    *)
(* the rows of the revocations that stay in flight are left alone.            *)
LEMMA ContinuesSlots ==
    ASSUME TypeOK, SlotsInOrder, \A u \in Tasks : Continues(u),
           \A l \in Links : status'[l] = "fresh" => status[l] = "fresh"
    PROVE  SlotsInOrder'
<1> SUFFICES ASSUME NEW u \in Tasks, task'[u].op # "idle"
             PROVE  /\ task'[u].link \in Links
                    /\ \A l \in {task'[u].link} \cup task'[u].todo :
                          status'[l] # "fresh"
                    /\ task'[u].op \in {"create", "revoke", "remove"} =>
                          u \in Requests
  BY DEF SlotsInOrder
<1>1. task[u] \in TaskType
  BY DEF TypeOK
<1>2. task[u].todo \subseteq Links
  BY <1>1 DEF TaskType
<1>3. QED
  BY <1>2 DEF Continues, SlotsInOrder

LEMMA ContinuesRevoke ==
    ASSUME TypeOK, RevokeExclusive, \A u \in Tasks : Continues(u),
           \A r \in Requests :
              task'[r].op = "revoke" =>
                 status'[task[r].link] \in {"revoked", "gone"}
    PROVE  RevokeExclusive'
<1>1. \A r \in Requests : task'[r].op = "revoke" =>
         task[r].op = "revoke" /\ task'[r].link = task[r].link
  BY DEF Continues, Tasks
<1>2. QED
  BY <1>1 DEF RevokeExclusive, Revoking

----------------------------------------------------------------------------
(* The invariant is inductive.                                                *)

LEMMA GoneStep == IInv /\ [Next]_vars => GoneIsEmpty'
<1> SUFFICES ASSUME IInv, [Next]_vars PROVE GoneIsEmpty'
  OBVIOUS
<1>a. TypeOK /\ SlotsInOrder /\ GoneIsEmpty
  BY DEF IInv
<1>1. UNCHANGED <<status, expires>> => GoneIsEmpty'
  BY <1>a DEF GoneIsEmpty
<1>2. ASSUME NEW l \in Links,
             \/ status'[l] # "gone"
             \/ expires'[l] = Permanent,
             \A m \in Links \ {l} : status'[m] = status[m] /\ expires'[m] = expires[m]
      PROVE  GoneIsEmpty'
  BY <1>2, <1>a DEF GoneIsEmpty
<1>3. ASSUME NEW r \in Requests, Request(r) PROVE GoneIsEmpty'
  BY <1>3, <1>1, <1>2, <1>a DEF Request, Create, Revoke, Remove, ledger, TypeOK
<1>4. ASSUME NEW l \in Links, NEW at \in LaterLifetimes(l), Extend(l, at)
      PROVE  GoneIsEmpty'
  BY <1>4, <1>2, <1>a DEF Extend, Operable, TypeOK
<1>5. ASSUME NEW t \in Tasks, Resume(t) PROVE GoneIsEmpty'
  <2>1. task[t].link \in Links
    BY <1>5, <1>a DEF SlotsInOrder, Resume, Resumes, CreateDone, CreateRollback,
       RevokeDone, RevokeRollback, RemoveDone, ExpireStep, ReconcileStep
  <2>2. Deleted(task[t].link) => GoneIsEmpty'
    BY <2>1, <1>2, <1>a DEF Deleted, TypeOK
  <2>3. CASE CreateRollback(t) \/ RemoveDone(t)
    BY <2>3, <2>2, <1>1 DEF CreateRollback, RemoveDone
  <2>4. CASE RevokeRollback(t)
    <3>1. /\ status'[task[t].link] # "gone" \/ status' = status
          /\ \A m \in Links \ {task[t].link} : status'[m] = status[m]
          /\ expires' = expires
      BY <2>4, <2>1, <1>a DEF RevokeRollback, Restored, TypeOK
    <3>2. QED
      BY <3>1, <2>1, <1>1, <1>2
  <2>5. CASE ExpireStep(t)
    <3>1. /\ status'[task[t].link] # "gone" \/ status' = status
          /\ \A m \in Links \ {task[t].link} : status'[m] = status[m]
          /\ expires' = expires
      BY <2>5, <2>1, <1>a DEF ExpireStep, TypeOK
    <3>2. QED
      BY <3>1, <2>1, <1>1, <1>2
  <2>6. QED
    BY <1>5, <1>1, <2>3, <2>4, <2>5
    DEF Resume, CreateDone, RevokeDone, ReconcileStep, ledger
<1>6. QED
  BY <1>1, <1>3, <1>4, <1>5 DEF Next, ExpireStart, ReconcileStart, Attempt,
     AttemptOk, AttemptFail, AttemptHopeless,
      AttemptLost, AttemptRefused, CollectTraffic, SweepSamples, XrayRestart,
     ServerRestart, Tick, ledger, vars

LEMMA InvStep == IInv /\ [Next]_vars => IInv'
<1> SUFFICES ASSUME IInv, [Next]_vars PROVE IInv'
  OBVIOUS
<1>a. /\ TypeOK /\ SlotsInOrder /\ RevokeExclusive
      /\ StampedIffRevoked /\ SampledHaveRows /\ AuditCoversLedger
  BY DEF IInv
<1>b. TypeOK' /\ GoneIsEmpty'
  BY TypeStep, GoneStep
<1>c. \A t \in Tasks : task[t] \in TaskType
  BY <1>a DEF TypeOK
<1> DEFINE Rest == StampedIffRevoked' /\ SampledHaveRows' /\ AuditCoversLedger'
<1> SUFFICES SlotsInOrder' /\ RevokeExclusive' /\ Rest
  BY <1>b DEF IInv
<1>d. UNCHANGED ledger => Rest
  BY <1>a DEF ledger, StampedIffRevoked, SampledHaveRows, AuditCoversLedger, Rows
(* A new call of a request slot on an issued link. *)
<1>e. ASSUME NEW r \in Requests, NEW op \in {"create", "revoke", "remove"},
             NEW l \in Links, Begin(r, op, l, {}, {}),
             \A m \in Links : status'[m] = "fresh" => status[m] = "fresh",
             status'[l] # "fresh"
      PROVE  SlotsInOrder'
  <2>1. /\ r \in Tasks
        /\ \A u \in Tasks \ {r} : task'[u] = task[u]
        /\ task'[r].link = l /\ task'[r].todo = {} /\ task'[r].op = op
    BY <1>e, <1>a DEF Begin, Calling, TypeOK, Tasks
  <2>2. \A u \in Tasks \ {r} : task[u].todo \subseteq Links
    BY <1>c DEF TaskType
  <2>3. QED
    BY <2>1, <2>2, <1>a, <1>e DEF SlotsInOrder
<1>1. ASSUME NEW r \in Requests, NEW l \in Links, NEW at \in NewLifetimes,
             Create(r, l, at)
      PROVE  SlotsInOrder' /\ RevokeExclusive' /\ Rest
  <2>1. /\ status[l] = "fresh"
        /\ status' = [status EXCEPT ![l] = "active"]
        /\ Begin(r, "create", l, {}, {})
        /\ audit' = [audit EXCEPT ![l]["create"] = @ + 1]
        /\ stamped' = stamped /\ sampled' = sampled
    BY <1>1 DEF Create, Audited
  <2>2. SlotsInOrder'
    BY <2>1, <1>a, <1>e DEF TypeOK
  <2>3. RevokeExclusive'
    BY <2>1, <1>a DEF RevokeExclusive, Revoking, Begin, Calling, TypeOK, Tasks
  <2>4. StampedIffRevoked' /\ SampledHaveRows'
    BY <2>1, <1>a DEF StampedIffRevoked, SampledHaveRows, Rows, TypeOK
  <2>5. AuditCoversLedger'
    <3>1. audit[l] = NoAudit
      BY <2>1, <1>a DEF AuditCoversLedger
    <3>2. audit'[l]["create"] = 1 /\ audit'[l]["link_delete"] = 0
      BY <2>1, <3>1, <1>a DEF TypeOK, NoAudit, AuditKinds
    <3>3. \A m \in Links \ {l} : audit'[m] = audit[m] /\ status'[m] = status[m]
      BY <2>1, <1>a DEF TypeOK
    <3>4. status'[l] = "active"
      BY <2>1, <1>a DEF TypeOK
    <3>5. QED
      BY <3>2, <3>3, <3>4, <1>a DEF AuditCoversLedger, Rows
  <2>6. QED
    BY <2>2, <2>3, <2>4, <2>5
<1>2. ASSUME NEW r \in Requests, NEW l \in Links, Revoke(r, l)
      PROVE  SlotsInOrder' /\ RevokeExclusive' /\ Rest
  <2>1. /\ status[l] = "active"
        /\ status' = [status EXCEPT ![l] = "revoked"]
        /\ stamped' = stamped \cup {l}
        /\ Begin(r, "revoke", l, {}, {})
        /\ audit' = [audit EXCEPT ![l]["revoke"] = @ + 1]
        /\ sampled' = sampled
    BY <1>2 DEF Revoke, Audited, Operable
  <2>2. SlotsInOrder'
    BY <2>1, <1>a, <1>e DEF TypeOK
  <2>3. RevokeExclusive'
    (* No revocation of l is in flight: its row would not be active. *)
    <3>1. \A q \in Requests : task[q].op = "revoke" => task[q].link # l
      BY <2>1, <1>a DEF RevokeExclusive
    <3>2. task[r].op = "idle" /\ r \in Tasks
      BY <2>1 DEF Begin, Tasks
    <3>3. /\ \A u \in Tasks \ {r} : task'[u] = task[u]
          /\ task'[r].link = l /\ task'[r].op = "revoke"
      BY <2>1, <1>a, <3>2 DEF Begin, Calling, TypeOK
    <3>4. \A q \in Requests \ {r} : task'[q] = task[q]
      BY <3>3 DEF Tasks
    <3>5. /\ status'[l] = "revoked"
          /\ \A m \in Links \ {l} : status'[m] = status[m]
      BY <2>1, <1>a DEF TypeOK
    <3>6. \A q \in Requests : task[q].op = "revoke" => task[q].link \in Links
      BY <1>a DEF SlotsInOrder, Tasks
    <3>7. QED
      BY <3>1, <3>2, <3>3, <3>4, <3>5, <3>6, <1>a DEF RevokeExclusive, Revoking
  <2>4. StampedIffRevoked' /\ SampledHaveRows'
    BY <2>1, <1>a DEF StampedIffRevoked, SampledHaveRows, Rows, TypeOK
  <2>5. AuditCoversLedger'
    <3>1. /\ audit'[l]["create"] = audit[l]["create"]
          /\ audit'[l]["link_delete"] = audit[l]["link_delete"]
          /\ audit'[l]["revoke"] > 0
      BY <2>1, <1>a DEF TypeOK, AuditKinds
    <3>2. \A m \in Links \ {l} : audit'[m] = audit[m] /\ status'[m] = status[m]
      BY <2>1, <1>a DEF TypeOK
    <3>3. status'[l] = "revoked"
      BY <2>1, <1>a DEF TypeOK
    <3>4. QED
      BY <2>1, <3>1, <3>2, <3>3, <1>a DEF AuditCoversLedger, Rows
  <2>6. QED
    BY <2>2, <2>3, <2>4, <2>5
<1>3. ASSUME NEW r \in Requests, NEW l \in Links, Remove(r, l)
      PROVE  SlotsInOrder' /\ RevokeExclusive' /\ Rest
  <2>1. /\ l \in Rows
        /\ Begin(r, "remove", l, {}, {})
        /\ UNCHANGED ledger /\ status' = status
    BY <1>3 DEF Remove, ledger
  <2>2. SlotsInOrder'
    BY <2>1, <1>a, <1>e DEF Rows
  <2>3. RevokeExclusive'
    BY <2>1, <1>a DEF RevokeExclusive, Revoking, Begin, Calling, TypeOK, Tasks
  <2>4. QED
    BY <2>1, <2>2, <2>3, <1>d
<1>4. ASSUME NEW l \in Links, NEW at \in LaterLifetimes(l), Extend(l, at)
      PROVE  SlotsInOrder' /\ RevokeExclusive' /\ Rest
  <2>1. /\ audit' = [audit EXCEPT ![l]["extend"] = @ + 1]
        /\ UNCHANGED <<status, stamped, sampled, task>>
    BY <1>4 DEF Extend, Audited
  <2>2. \A m \in Links : /\ audit'[m]["create"] = audit[m]["create"]
                         /\ audit'[m]["link_delete"] = audit[m]["link_delete"]
                         /\ audit'[m]["revoke"] = audit[m]["revoke"]
    BY <2>1, <1>a DEF TypeOK, AuditKinds
  <2>3. AuditCoversLedger'
    <3>1. status[l] # "fresh"
      BY <1>4 DEF Extend, Operable
    <3>2. \A m \in Links \ {l} : audit'[m] = audit[m]
      BY <2>1, <1>a DEF TypeOK
    <3>3. QED
      BY <2>1, <2>2, <3>1, <3>2, <1>a DEF AuditCoversLedger, Rows
  <2>4. QED
    BY <2>1, <2>3, <1>a DEF SlotsInOrder, RevokeExclusive, Revoking,
       StampedIffRevoked, SampledHaveRows, Rows
<1>5. ASSUME NEW t \in Tasks, NEW op \in {"expire", "reconcile"},
             NEW S \in SUBSET Links, NEW keep \in SUBSET Links,
             \A l \in S : status[l] # "fresh",
             StartPass(t, op, S, keep), UNCHANGED ledger
      PROVE  SlotsInOrder' /\ RevokeExclusive' /\ Rest
  <2>1. CASE S = {}
    BY <2>1, <1>5, <1>a, <1>d
    DEF StartPass, ledger, SlotsInOrder, RevokeExclusive, Revoking
  <2>2. CASE S # {}
    <3>1. PICK l \in S : Begin(t, op, l, S \ {l}, keep)
      BY <1>5, <2>2 DEF StartPass
    <3>2. /\ task[t].op = "idle"
          /\ \A u \in Tasks \ {t} : task'[u] = task[u]
          /\ task'[t].link = l /\ task'[t].op = op /\ task'[t].todo = S \ {l}
      BY <3>1, <1>a DEF Begin, Calling, TypeOK
    <3>3. status' = status
      BY <1>5 DEF ledger
    <3>4. SlotsInOrder'
      BY <3>2, <3>3, <1>5, <1>a DEF SlotsInOrder
    <3>5. RevokeExclusive'
      BY <3>2, <3>3, <1>a DEF RevokeExclusive, Revoking, Tasks
    <3>6. QED
      BY <3>4, <3>5, <1>5, <1>d
  <2>3. QED
    BY <2>1, <2>2
<1>6. ASSUME NEW s \in Scans, ExpireStart(s)
      PROVE  SlotsInOrder' /\ RevokeExclusive' /\ Rest
  <2>1. s \in Tasks /\ DueRows \in SUBSET Links /\ {} \in SUBSET Links
        /\ \A l \in DueRows : status[l] # "fresh"
    BY DEF Tasks, DueRows, Due
  <2>2. StartPass(s, "expire", DueRows, {}) /\ UNCHANGED ledger
    BY <1>6 DEF ExpireStart, ledger
  <2>3. QED
    BY <2>1, <2>2, <1>5
<1>7. ASSUME NEW c \in Rounds, ReconcileStart(c)
      PROVE  SlotsInOrder' /\ RevokeExclusive' /\ Rest
  <2> DEFINE K == {l \in Links : ShouldBeActive(l)}
  <2>1. c \in Tasks /\ ReconcileRows \in SUBSET Links /\ K \in SUBSET Links
        /\ \A l \in ReconcileRows : status[l] # "fresh"
    BY DEF Tasks, ReconcileRows, Rows
  <2>2. StartPass(c, "reconcile", ReconcileRows, K) /\ UNCHANGED ledger
    BY <1>7 DEF ReconcileStart, ledger
  <2> HIDE DEF K
  <2>3. QED
    BY <2>1, <2>2, <1>5
<1>8. ASSUME NEW t \in Tasks, Attempt(t)
      PROVE  SlotsInOrder' /\ RevokeExclusive' /\ Rest
  <2>1. UNCHANGED ledger /\ status' = status
    BY <1>8 DEF Attempt, AttemptOk, AttemptFail, AttemptHopeless,
      AttemptLost, AttemptRefused, ledger
  <2>2. \A u \in Tasks : Continues(u)
    BY <1>8, <1>a, AttemptContinues
  <2>3. SlotsInOrder'
    BY <2>1, <2>2, <1>a, ContinuesSlots
  <2>4. \A r \in Requests : task'[r].op = "revoke" => task[r].op = "revoke"
    BY <2>2 DEF Continues, Tasks
  <2>5. RevokeExclusive'
    BY <2>1, <2>2, <2>4, <1>a, ContinuesRevoke DEF RevokeExclusive
  <2>6. QED
    BY <2>1, <2>3, <2>5, <1>d
<1>9. ASSUME NEW t \in Tasks, Resume(t)
      PROVE  SlotsInOrder' /\ RevokeExclusive' /\ Rest
  <2> DEFINE l == task[t].link
  <2>1. /\ task[t].op # "idle" /\ l \in Links /\ status[l] # "fresh"
        /\ task[t].op \in {"create", "revoke", "remove"} => t \in Requests
    <3>1. task[t].op # "idle"
      BY <1>9 DEF Resume, Resumes, CreateDone, CreateRollback, RevokeDone,
         RevokeRollback, RemoveDone, ExpireStep, ReconcileStep
    <3>2. QED
      BY <3>1, <1>a DEF SlotsInOrder
  <2>2. \A u \in Tasks : Continues(u)
    BY <1>9, <1>a, ResumeContinues
  <2>3. (\A m \in Links : status'[m] = "fresh" => status[m] = "fresh")
           => SlotsInOrder'
    BY <2>2, <1>a, ContinuesSlots
  <2>4. (\A r \in Requests : task'[r].op = "revoke" =>
            status'[task[r].link] \in {"revoked", "gone"}) => RevokeExclusive'
    BY <2>2, <1>a, ContinuesRevoke
  (* The revocations still in flight after the step were so before it. *)
  <2>5. \A r \in Requests : task'[r].op = "revoke" =>
           /\ task[r].op = "revoke"
           /\ task[r].link \in Links
           /\ status[task[r].link] \in {"revoked", "gone"}
    BY <2>2, <1>a DEF Continues, Tasks, RevokeExclusive, SlotsInOrder
  <2>6. Deleted(l) =>
           /\ status'[l] = "gone"
           /\ \A m \in Links \ {l} : status'[m] = status[m]
           /\ stamped' = stamped \ {l}
    BY <2>1, <1>a DEF Deleted, TypeOK
  <2>7. ASSUME Deleted(l)
        PROVE  SlotsInOrder' /\ RevokeExclusive' /\ StampedIffRevoked'
    BY <2>1, <2>3, <2>4, <2>5, <2>6, <2>7, <1>a DEF StampedIffRevoked
  <2>8. UNCHANGED ledger => SlotsInOrder' /\ RevokeExclusive' /\ Rest
    <3>1. UNCHANGED ledger => status' = status
      BY DEF ledger
    <3>2. QED
      BY <3>1, <2>3, <2>4, <2>5, <1>d
  <2>9. CASE CreateDone(t) \/ RevokeDone(t) \/ ReconcileStep(t)
    BY <2>9, <2>8 DEF CreateDone, RevokeDone, ReconcileStep, ledger
  <2>10. CASE CreateRollback(t)
    <3>1. CASE l \in sampled
      BY <3>1, <2>8, <2>10 DEF CreateRollback, ledger
    <3>2. CASE l \notin sampled
      <4>1. /\ Deleted(l) /\ sampled' = sampled
            /\ audit' = [audit EXCEPT ![l] = NoAudit]
        BY <3>2, <2>10 DEF CreateRollback, AuditUndone
      <4>2. SampledHaveRows'
        BY <4>1, <3>2, <2>6, <1>a DEF SampledHaveRows, Rows
      <4>3. /\ audit'[l]["create"] = 0
            /\ \A m \in Links \ {l} : audit'[m] = audit[m]
        BY <4>1, <2>1, <1>a DEF TypeOK, NoAudit, AuditKinds
      <4>4. AuditCoversLedger'
        BY <4>1, <4>3, <2>6, <1>a DEF AuditCoversLedger, Rows
      <4>5. QED
        BY <4>1, <4>2, <4>4, <2>7
    <3>3. QED
      BY <3>1, <3>2
  <2>11. CASE RevokeRollback(t)
    <3>1. /\ task[t].op = "revoke" /\ t \in Requests
          /\ status' = [status EXCEPT ![l] = IF l \in Rows THEN "active" ELSE @]
          /\ stamped' = stamped \ {l}
          /\ sampled' = sampled /\ audit' = audit /\ End(t)
      BY <2>11, <2>1 DEF RevokeRollback, Restored, Resumes
    <3>2. /\ status'[l] = IF l \in Rows THEN "active" ELSE status[l]
          /\ \A m \in Links \ {l} : status'[m] = status[m]
      BY <3>1, <2>1, <1>a DEF TypeOK
    (* The row is the one this very revocation revoked, or there is none. *)
    <3>3. status[l] \in {"revoked", "gone"} /\ Revoking(l) = {t}
      BY <3>1, <1>a DEF RevokeExclusive
    <3>4. SlotsInOrder'
      BY <3>2, <2>1, <2>3
    <3>5. RevokeExclusive'
      <4>1. task'[t].op = "idle"
        BY <3>1, <1>a DEF End, Idle, TypeOK
      <4>2. \A r \in Requests : task'[r].op = "revoke" => task[r].link # l
        BY <4>1, <3>3, <2>5 DEF Revoking
      <4>3. QED
        BY <4>2, <3>2, <2>5, <2>4
    <3>6. StampedIffRevoked' /\ SampledHaveRows'
      BY <3>1, <3>2, <3>3, <2>1, <1>a DEF StampedIffRevoked, SampledHaveRows, Rows
    <3>7. AuditCoversLedger'
      BY <3>1, <3>2, <3>3, <2>1, <1>a DEF AuditCoversLedger, Rows
    <3>8. QED
      BY <3>4, <3>5, <3>6, <3>7
  <2>12. CASE RemoveDone(t)
    <3>1. /\ Deleted(l) /\ sampled' = sampled \ {l}
          /\ audit' = [audit EXCEPT ![l]["link_delete"] = @ + 1]
      BY <2>12 DEF RemoveDone, Audited
    <3>2. SampledHaveRows'
      BY <3>1, <2>6, <1>a DEF SampledHaveRows, Rows
    <3>3. /\ audit'[l]["link_delete"] > 0
          /\ \A m \in Links \ {l} : audit'[m] = audit[m]
      BY <3>1, <2>1, <1>a DEF TypeOK, AuditKinds
    <3>4. AuditCoversLedger'
      BY <3>3, <3>1, <2>6, <1>a DEF AuditCoversLedger, Rows
    <3>5. QED
      BY <3>1, <3>2, <3>4, <2>7
  <2>13. CASE ExpireStep(t)
    <3>1. UNCHANGED <<expires, stamped, audit, sampled>>
      BY <2>13 DEF ExpireStep
    <3>2. CASE ~ExpireCommits(t)
      BY <3>1, <3>2, <2>13, <2>8 DEF ExpireStep, ledger
    <3>3. CASE ExpireCommits(t)
      <4>1. /\ status[l] = "active" /\ status'[l] = "expired"
            /\ \A m \in Links \ {l} : status'[m] = status[m]
        BY <3>3, <2>13, <2>1, <1>a DEF ExpireStep, ExpireCommits, TypeOK
      <4>2. SlotsInOrder' /\ RevokeExclusive'
        BY <4>1, <2>3, <2>4, <2>5
      <4>3. StampedIffRevoked' /\ SampledHaveRows'
        BY <4>1, <3>1, <2>1, <1>a DEF StampedIffRevoked, SampledHaveRows, Rows
      <4>4. AuditCoversLedger'
        BY <4>1, <3>1, <2>1, <1>a DEF AuditCoversLedger, Rows
      <4>5. QED
        BY <4>2, <4>3, <4>4
    <3>4. QED
      BY <3>2, <3>3
  <2>14. QED
    BY <1>9, <2>9, <2>10, <2>11, <2>12, <2>13 DEF Resume
<1>10. ASSUME NEW l \in Links, CollectTraffic(l) \/ SweepSamples(l)
       PROVE  SlotsInOrder' /\ RevokeExclusive' /\ Rest
  BY <1>10, <1>a DEF CollectTraffic, SweepSamples, SlotsInOrder, RevokeExclusive, Revoking,
     StampedIffRevoked, SampledHaveRows, AuditCoversLedger, Rows
<1>11. CASE ServerRestart
  <2>1. \A t \in Tasks : task'[t].op = "idle"
    BY <1>11 DEF ServerRestart, Idle
  <2>2. SlotsInOrder' /\ RevokeExclusive'
    BY <2>1 DEF SlotsInOrder, RevokeExclusive, Tasks
  <2>3. QED
    BY <2>2, <1>11, <1>d DEF ServerRestart, ledger
<1>12. CASE XrayRestart \/ Tick \/ UNCHANGED vars
  <2>1. UNCHANGED ledger /\ UNCHANGED <<status, task>>
    BY <1>12 DEF XrayRestart, Tick, vars, ledger
  <2>2. QED
    BY <2>1, <1>a, <1>d DEF SlotsInOrder, RevokeExclusive, Revoking
<1>13. QED
  BY <1>1, <1>2, <1>3, <1>4, <1>6, <1>7, <1>8, <1>9, <1>10, <1>11, <1>12
  DEF Next, Request

----------------------------------------------------------------------------
(* Every reachable state satisfies the inductive invariant.                   *)
THEOREM Invariant == Spec => []IInv
BY InitInv, InvStep, PTL DEF Spec

(* Every variable keeps its type: in particular no call makes more attempts   *)
(* than config.xrayRetries allows.                                            *)
THEOREM TypeCorrect == Spec => []TypeOK
<1>1. IInv => TypeOK
  BY DEF IInv
<1>2. QED
  BY <1>1, Invariant, PTL

(* revoke's unguarded rollback only ever undoes its own revocation.           *)
THEOREM RevocationsExclusive == Spec => []RevokeExclusive
<1>1. IInv => RevokeExclusive
  BY DEF IInv
<1>2. QED
  BY <1>1, Invariant, PTL

(* revoked_at and status never disagree.                                      *)
THEOREM StampsAgree == Spec => []StampedIffRevoked
<1>1. IInv => StampedIffRevoked
  BY DEF IInv
<1>2. QED
  BY <1>1, Invariant, PTL

(* The audit trail accounts for every row, and for every row that is gone.    *)
THEOREM AuditComplete == Spec => []AuditCoversLedger
<1>1. IInv => AuditCoversLedger
  BY DEF IInv
<1>2. QED
  BY <1>1, Invariant, PTL

----------------------------------------------------------------------------
(* LinkControl implements LinkLifecycle: the initial state maps to an initial *)
(* state, and every step of the control plane maps to a step of the abstract  *)
(* ledger or to a stutter.                                                    *)

(* The tasks that revoke, and what, are the same after the step.              *)
SameRevocations ==
    \A r \in Requests :
        /\ task'[r].op = "revoke" <=> task[r].op = "revoke"
        /\ task[r].op = "revoke" => task'[r].link = task[r].link

LEMMA SameRevoking ==
    ASSUME SameRevocations
    PROVE  \A l \in Links : Revoking(l)' = Revoking(l)
BY DEF SameRevocations, Revoking

(* The abstract state of a link depends on its row and on its revocation.     *)
LEMMA LifeOf ==
    /\ \A l \in Links : lifeState[l] =
          IF status[l] = "revoked" /\ Revoking(l) # {} THEN "active" ELSE status[l]
    /\ \A l \in Links : lifeState'[l] =
          IF status'[l] = "revoked" /\ Revoking(l)' # {} THEN "active" ELSE status'[l]
    /\ lifeState = [l \in Links |-> lifeState[l]]
    /\ lifeState' = [l \in Links |-> lifeState'[l]]
BY DEF lifeState

LEMMA LifeStutter ==
    ASSUME \A l \in Links : lifeState'[l] = lifeState[l], UNCHANGED expires
    PROVE  UNCHANGED Lifecycle!vars
<1>1. lifeState' = lifeState
  BY LifeOf
<1>2. QED
  BY <1>1 DEF Lifecycle!vars

(* A step that leaves the rows and the revocations alone stutters.            *)
LEMMA QuietStutter ==
    ASSUME UNCHANGED <<status, expires>>, SameRevocations
    PROVE  UNCHANGED Lifecycle!vars
<1>1. \A l \in Links : lifeState'[l] = lifeState[l]
  BY SameRevoking, LifeOf
<1>2. QED
  BY <1>1, LifeStutter

(* A step that moves one link only, to the abstract state x.                  *)
LEMMA LifeMoves ==
    ASSUME NEW l \in Links, NEW x, lifeState'[l] = x,
           \A m \in Links \ {l} : lifeState'[m] = lifeState[m]
    PROVE  lifeState' = [lifeState EXCEPT ![l] = x]
<1> DEFINE f == lifeState
           g == lifeState'
<1>1. /\ f = [m \in Links |-> f[m]]
      /\ g = [m \in Links |-> g[m]]
      /\ g[l] = x /\ \A m \in Links \ {l} : g[m] = f[m]
  BY LifeOf
<1> HIDE DEF f, g
<1>2. g = [f EXCEPT ![l] = x]
  BY <1>1
<1>3. QED
  BY <1>2 DEF f, g

LEMMA InitMaps == Init => Lifecycle!Init
<1> SUFFICES ASSUME Init PROVE Lifecycle!Init
  OBVIOUS
<1>1. \A l \in Links : lifeState[l] = "fresh"
  BY LifeOf DEF Init
<1>2. QED
  BY <1>1, LifeOf DEF Init, Lifecycle!Init, Permanent

----------------------------------------------------------------------------
LEMMA StepMaps ==
    IInv /\ IInv' /\ [Next]_vars => [Lifecycle!Next]_(Lifecycle!vars)
<1> SUFFICES ASSUME IInv, IInv', [Next]_vars
             PROVE  Lifecycle!Next \/ UNCHANGED Lifecycle!vars
  OBVIOUS
<1>a. /\ TypeOK /\ TypeOK' /\ SlotsInOrder /\ RevokeExclusive
      /\ GoneIsEmpty /\ RevokeExclusive'
  BY DEF IInv
<1>b. \A l \in Links : status[l] \in Status /\ expires'[l] \in Nat
  BY <1>a DEF TypeOK
(* A request slot that begins something else than a revocation. *)
<1>c. ASSUME NEW r \in Requests, NEW op \in {"create", "remove"}, NEW l \in Links,
             Begin(r, op, l, {}, {})
      PROVE  SameRevocations
  BY <1>c, <1>a DEF Begin, Calling, SameRevocations, TypeOK, Tasks
<1>1. ASSUME NEW r \in Requests, NEW l \in Links, NEW at \in NewLifetimes,
             Create(r, l, at)
      PROVE  Lifecycle!Issue(l)
  <2>1. /\ status[l] = "fresh" /\ status'[l] = "active"
        /\ \A m \in Links \ {l} : status'[m] = status[m]
        /\ expires' = [expires EXCEPT ![l] = at]
        /\ Begin(r, "create", l, {}, {})
    BY <1>1, <1>a DEF Create, TypeOK
  <2>2. SameRevocations
    BY <2>1, <1>c
  <2>3. /\ lifeState[l] = "fresh" /\ lifeState'[l] = "active"
        /\ \A m \in Links \ {l} : lifeState'[m] = lifeState[m]
    BY <2>1, <2>2, SameRevoking, LifeOf
  <2>4. lifeState' = [lifeState EXCEPT ![l] = "active"]
    BY <2>3, LifeMoves
  <2>5. expires' = [expires EXCEPT ![l] = expires'[l]]
    BY <2>1, <1>a DEF TypeOK
  <2>6. QED
    BY <2>3, <2>4, <2>5, <1>b DEF Lifecycle!Issue, Lifecycle!Grant
<1>2. ASSUME NEW r \in Requests, NEW l \in Links, Revoke(r, l)
      PROVE  UNCHANGED Lifecycle!vars
  <2>1. /\ status[l] = "active" /\ status'[l] = "revoked"
        /\ \A m \in Links \ {l} : status'[m] = status[m]
        /\ expires' = expires
        /\ Begin(r, "revoke", l, {}, {})
    BY <1>2, <1>a DEF Revoke, Operable, TypeOK
  <2>2. /\ r \in Revoking(l)'
        /\ \A m \in Links \ {l} : Revoking(m)' = Revoking(m)
    BY <2>1, <1>a DEF Begin, Calling, Revoking, TypeOK, Tasks
  <2>3. \A m \in Links : lifeState'[m] = lifeState[m]
    BY <2>1, <2>2, LifeOf
  <2>4. QED
    BY <2>1, <2>3, LifeStutter
<1>3. ASSUME NEW r \in Requests, NEW l \in Links, Remove(r, l)
      PROVE  UNCHANGED Lifecycle!vars
  BY <1>3, <1>c, QuietStutter DEF Remove, ledger
<1>4. ASSUME NEW l \in Links, NEW at \in LaterLifetimes(l), Extend(l, at)
      PROVE  Lifecycle!Extend(l)
  <2>1. /\ status[l] = "active" /\ UNCHANGED <<status, task>>
        /\ expires' = [expires EXCEPT ![l] = at]
    BY <1>4 DEF Extend, Operable
  <2>2. lifeState' = lifeState /\ lifeState[l] = "active"
    BY <2>1, LifeOf DEF lifeState, Revoking
  <2>3. expires' = [expires EXCEPT ![l] = expires'[l]]
    BY <2>1, <1>a DEF TypeOK
  <2>4. QED
    BY <2>2, <2>3, <1>b DEF Lifecycle!Extend, Lifecycle!Grant
<1>5. ASSUME NEW t \in Scans \cup Rounds, NEW op \in {"expire", "reconcile"},
             NEW S \in SUBSET Links, NEW keep \in SUBSET Links,
             StartPass(t, op, S, keep), UNCHANGED <<status, expires>>
      PROVE  UNCHANGED Lifecycle!vars
  <2>1. SameRevocations
    BY <1>5, <1>a DEF StartPass, Begin, Calling, SameRevocations, TypeOK, Tasks
  <2>2. QED
    BY <2>1, <1>5, QuietStutter
<1>6. ASSUME NEW s \in Scans, ExpireStart(s)
      PROVE  UNCHANGED Lifecycle!vars
  <2>1. DueRows \in SUBSET Links /\ {} \in SUBSET Links
    BY DEF DueRows
  <2>2. QED
    BY <2>1, <1>5, <1>6 DEF ExpireStart, ledger
<1>7. ASSUME NEW c \in Rounds, ReconcileStart(c)
      PROVE  UNCHANGED Lifecycle!vars
  <2> DEFINE K == {l \in Links : ShouldBeActive(l)}
  <2>1. ReconcileRows \in SUBSET Links /\ K \in SUBSET Links
    BY DEF ReconcileRows, Rows
  <2>2. StartPass(c, "reconcile", ReconcileRows, K) /\ UNCHANGED <<status, expires>>
    BY <1>7 DEF ReconcileStart, ledger
  <2> HIDE DEF K
  <2>3. QED
    BY <2>1, <2>2, <1>5
<1>8. ASSUME NEW t \in Tasks, Attempt(t)
      PROVE  UNCHANGED Lifecycle!vars
  <2>1. SameRevocations
    BY <1>8, <1>a, AttemptKeeps DEF SameRevocations, Tasks
  <2>2. UNCHANGED <<status, expires>>
    BY <1>8 DEF Attempt, AttemptOk, AttemptFail, AttemptHopeless,
      AttemptLost, AttemptRefused, ledger
  <2>3. QED
    BY <2>1, <2>2, QuietStutter
<1>9. ASSUME NEW t \in Tasks, Resume(t)
      PROVE  Lifecycle!Next \/ UNCHANGED Lifecycle!vars
  <2>0. /\ task[t].link \in Links
        /\ task[t].op \in {"create", "revoke", "remove"} => t \in Requests
    <3>1. task[t].op # "idle"
      BY <1>9 DEF Resume, Resumes, CreateDone, CreateRollback, RevokeDone,
         RevokeRollback, RemoveDone, ExpireStep, ReconcileStep
    <3>2. QED
      BY <3>1, <1>a DEF SlotsInOrder
  <2>1. PICK l \in Links :
           /\ task[t].link = l
           /\ task[t].op \in {"create", "revoke", "remove"} => t \in Requests
    BY <2>0
  (* A task that is no revocation changes none; one that is ends its own.     *)
  <2>2. ASSUME task[t].op # "revoke", End(t) PROVE SameRevocations
    BY <2>2, <1>a DEF End, Idle, SameRevocations, TypeOK, Tasks
  <2>3. ASSUME task[t].op \in {"expire", "reconcile"}, NextRow(t)
        PROVE  SameRevocations
    <3>1. CASE task[t].todo = {}
      BY <3>1, <2>2, <2>3 DEF NextRow, GoesOn
    <3>2. CASE task[t].todo # {}
      <4>1. PICK m \in task[t].todo :
               task' = [task EXCEPT ![t] =
                           Calling(task[t].op, m, task[t].todo \ {m}, task[t].keep)]
        BY <3>2, <2>3 DEF NextRow, GoesOn
      <4>2. /\ task'[t].op = task[t].op
            /\ \A u \in Tasks \ {t} : task'[u] = task[u]
        BY <4>1, <1>a DEF Calling, TypeOK
      <4>3. QED
        BY <4>2, <2>3 DEF SameRevocations, Tasks
    <3>3. QED
      BY <3>1, <3>2
  <2>4. ASSUME task[t].op = "revoke", End(t)
        PROVE  /\ status[l] \in {"revoked", "gone"}
               /\ Revoking(l) # {} /\ Revoking(l)' = {}
               /\ \A m \in Links \ {l} : Revoking(m)' = Revoking(m)
    <3>1. t \in Requests /\ Revoking(l) = {t} /\ status[l] \in {"revoked", "gone"}
      BY <2>1, <2>4, <1>a DEF RevokeExclusive
    <3>2. /\ task'[t].op = "idle"
          /\ \A u \in Tasks \ {t} : task'[u] = task[u]
      BY <2>4, <1>a DEF End, Idle, TypeOK
    <3>3. QED
      BY <3>1, <3>2, <2>1, <2>4 DEF Revoking, Tasks
  (* Deleting a row retires its link, deleting nothing changes nothing.       *)
  <2>5. ASSUME Deleted(l), SameRevocations
        PROVE  Lifecycle!Next \/ UNCHANGED Lifecycle!vars
    <3>1. /\ status'[l] = "gone" /\ expires' = [expires EXCEPT ![l] = 0]
          /\ \A m \in Links \ {l} : status'[m] = status[m]
      BY <2>5, <2>1, <1>a DEF Deleted, TypeOK, Permanent
    <3>2. /\ lifeState'[l] = "gone"
          /\ \A m \in Links \ {l} : lifeState'[m] = lifeState[m]
      BY <3>1, <2>1, <2>5, SameRevoking, LifeOf
    <3>3. status[l] # "fresh"
      BY <1>9, <2>1, <1>a DEF SlotsInOrder, Resume, Resumes, CreateDone, CreateRollback,
         RevokeDone, RevokeRollback, RemoveDone, ExpireStep, ReconcileStep
    <3>4. CASE status[l] = "gone"
      <4>1. lifeState[l] = "gone" /\ expires[l] = 0
        BY <3>4, <2>1, <1>a, LifeOf DEF GoneIsEmpty, Permanent
      <4>2. expires' = expires
        BY <4>1, <3>1, <2>1, <1>a DEF TypeOK
      <4>3. QED
        BY <4>1, <4>2, <3>2, LifeStutter
    <3>5. CASE status[l] # "gone"
      <4>1. lifeState[l] \in {"active", "expired", "revoked"}
        BY <3>3, <3>5, <2>1, <1>b, LifeOf DEF Status
      <4>2. lifeState' = [lifeState EXCEPT ![l] = "gone"]
        BY <3>2, <2>1, LifeMoves
      <4>3. Lifecycle!Retire(l)
        BY <4>1, <4>2, <3>1 DEF Lifecycle!Retire
      <4>4. QED
        BY <4>3, <2>1 DEF Lifecycle!Next
    <3>6. QED
      BY <3>4, <3>5
  <2>6. CASE CreateDone(t) \/ ReconcileStep(t)
    <3>1. SameRevocations /\ UNCHANGED <<status, expires>>
      BY <2>6, <2>2, <2>3 DEF CreateDone, ReconcileStep, Resumes, ledger
    <3>2. QED
      BY <3>1, QuietStutter
  <2>7. CASE CreateRollback(t)
    <3>1. SameRevocations
      BY <2>7, <2>2 DEF CreateRollback, Resumes
    <3>2. Deleted(l) \/ UNCHANGED <<status, expires>>
      BY <2>7, <2>1 DEF CreateRollback
    <3>3. QED
      BY <3>1, <3>2, <2>5, QuietStutter
  <2>8. CASE RevokeDone(t)
    <3>1. /\ task[t].op = "revoke" /\ End(t) /\ UNCHANGED <<status, expires>>
      BY <2>8 DEF RevokeDone, Resumes, ledger
    <3>2. \A m \in Links \ {l} : lifeState'[m] = lifeState[m]
      BY <3>1, <2>4, LifeOf
    <3>3. CASE status[l] = "revoked"
      <4>1. lifeState[l] = "active" /\ lifeState'[l] = "revoked"
        BY <3>1, <3>3, <2>1, <2>4, LifeOf
      <4>2. lifeState' = [m \in Links |-> IF m \in {l} THEN "revoked" ELSE lifeState[m]]
        BY <4>1, <3>2, LifeOf
      <4>3. Lifecycle!Revoke({l})
        BY <4>1, <4>2, <3>1 DEF Lifecycle!Revoke
      <4>4. QED
        BY <4>3, <2>1 DEF Lifecycle!Next
    <3>4. CASE status[l] = "gone"
      BY <3>1, <3>2, <3>4, <2>1, LifeOf, LifeStutter
    <3>5. QED
      BY <3>1, <3>3, <3>4, <2>4
  <2>9. CASE RevokeRollback(t)
    <3>1. /\ task[t].op = "revoke" /\ End(t) /\ expires' = expires
          /\ status' = [status EXCEPT ![l] = IF l \in Rows THEN "active" ELSE @]
      BY <2>9, <2>1 DEF RevokeRollback, Restored, Resumes
    <3>2. /\ status'[l] = IF l \in Rows THEN "active" ELSE status[l]
          /\ \A m \in Links \ {l} : status'[m] = status[m]
      BY <3>1, <2>1, <1>a DEF TypeOK
    <3>3. \A m \in Links : lifeState'[m] = lifeState[m]
      BY <3>1, <3>2, <2>1, <2>4, LifeOf DEF Rows
    <3>4. QED
      BY <3>1, <3>3, LifeStutter
  <2>10. CASE RemoveDone(t)
    BY <2>10, <2>1, <2>2, <2>5 DEF RemoveDone, Resumes
  <2>11. CASE ExpireStep(t)
    <3>1. SameRevocations /\ expires' = expires
      BY <2>11, <2>3 DEF ExpireStep, Resumes
    <3>2. CASE ~ExpireCommits(t)
      BY <3>1, <3>2, <2>11, QuietStutter DEF ExpireStep
    <3>3. CASE ExpireCommits(t)
      <4>1. /\ status[l] = "active" /\ status'[l] = "expired"
            /\ \A m \in Links \ {l} : status'[m] = status[m]
        BY <3>3, <2>11, <2>1, <1>a DEF ExpireStep, ExpireCommits, TypeOK
      <4>2. /\ lifeState[l] = "active" /\ lifeState'[l] = "expired"
            /\ \A m \in Links \ {l} : lifeState'[m] = lifeState[m]
        BY <4>1, <3>1, <2>1, SameRevoking, LifeOf
      <4>3. lifeState' = [lifeState EXCEPT ![l] = "expired"]
        BY <4>2, <2>1, LifeMoves
      <4>4. Lifecycle!Expire(l)
        BY <4>2, <4>3, <3>1 DEF Lifecycle!Expire
      <4>5. QED
        BY <4>4, <2>1 DEF Lifecycle!Next
    <3>4. QED
      BY <3>2, <3>3
  <2>12. QED
    BY <1>9, <2>6, <2>7, <2>8, <2>9, <2>10, <2>11 DEF Resume
(* A restart makes every revocation that was still waiting for xray final.    *)
<1>10. CASE ServerRestart
  <2> DEFINE S == {l \in Links : status[l] = "revoked" /\ Revoking(l) # {}}
  <2>1. UNCHANGED <<status, expires>> /\ \A t \in Tasks : task'[t].op = "idle"
    BY <1>10 DEF ServerRestart, Idle, ledger
  <2>2. \A l \in Links : Revoking(l)' = {}
    BY <2>1 DEF Revoking, Tasks
  <2>3. \A l \in Links : /\ l \in S => lifeState[l] = "active"
                                       /\ lifeState'[l] = "revoked"
                         /\ l \notin S => lifeState'[l] = lifeState[l]
    BY <2>1, <2>2, LifeOf
  <2>4. S \in SUBSET Links
    OBVIOUS
  <2> HIDE DEF S
  <2>5. CASE S = {}
    BY <2>1, <2>3, <2>5, LifeStutter
  <2>6. CASE S # {}
    <3>1. lifeState' = [l \in Links |-> IF l \in S THEN "revoked" ELSE lifeState[l]]
      BY <2>3, LifeOf
    <3>2. Lifecycle!Revoke(S)
      BY <3>1, <2>1, <2>3, <2>4, <2>6 DEF Lifecycle!Revoke
    <3>3. QED
      BY <3>2, <2>4 DEF Lifecycle!Next
  <2>7. QED
    BY <2>5, <2>6
<1>11. CASE \/ \E l \in Links : CollectTraffic(l) \/ SweepSamples(l)
            \/ XrayRestart \/ Tick \/ UNCHANGED vars
  <2>1. UNCHANGED <<status, expires, task>>
    BY <1>11 DEF CollectTraffic, SweepSamples, XrayRestart, Tick, vars, ledger
  <2>2. SameRevocations
    BY <2>1 DEF SameRevocations
  <2>3. QED
    BY <2>1, <2>2, QuietStutter
<1>12. QED
  BY <1>1, <1>2, <1>3, <1>4, <1>6, <1>7, <1>8, <1>9, <1>10, <1>11
  DEF Next, Request, Lifecycle!Next

----------------------------------------------------------------------------
(* The control plane implements the ledger it promises: an expired link and a *)
(* link whose revocation can no longer be rolled back never become active,    *)
(* expires_at moves only by an extension of an active link, an identifier is  *)
(* issued once.                                                               *)
THEOREM Implementation == Spec => ImplementsLifecycle
<1>1. Init /\ [][Next]_vars /\ []IInv => Lifecycle!Init /\ [][Lifecycle!Next]_(Lifecycle!vars)
  BY InitMaps, StepMaps, PTL
<1>2. QED
  BY <1>1, Invariant, PTL DEF Spec, ImplementsLifecycle, Lifecycle!Spec

----------------------------------------------------------------------------
(* Faults aside, the two passes never cut off a link that should be active.   *)
(* A pass acts on a judgement that may be several awaits old, so the proof is *)
(* about what can happen to a link between the snapshot of a pass and its rmu.*)

(* Without a fault no call has failed but those for a link that always fails, *)
(* and what a pass still takes out is as lapsed as it was in its snapshot,    *)
(* unless it was extended since.                                              *)
PassesSound ==
    faults = 0 => \A u \in Tasks :
        /\ task[u].phase = "failed" => task[u].link \in Failing
        /\ \A l \in Links \ Failing :
              TakesOut(u, l) /\ <<u, l>> \notin overtaken => ~ShouldBeActive(l)

(* Task u did not fail in this step, unless it had to, and ended, carries on  *)
(* with less of what it had to do, began the call of a request, or took the   *)
(* snapshot of a pass, in which the ledger stands still.                      *)
Progresses(u) ==
    /\ \/ task'[u].phase # "failed"
       \/ task[u].phase = "failed" /\ task'[u].link = task[u].link
       \/ task'[u].link \in Failing
    /\ \A l \in Links : TakesOut(u, l)' =>
          \/ TakesOut(u, l)
          \/ ~ShouldBeActive(l) /\ UNCHANGED <<now, ledger>>

----------------------------------------------------------------------------
LEMMA EndProgresses ==
    ASSUME TypeOK, NEW t \in Tasks, End(t)
    PROVE  \A u \in Tasks : Progresses(u)
BY DEF TypeOK, End, Idle, Progresses, TakesOut

LEMMA NextRowProgresses ==
    ASSUME TypeOK, NEW t \in Tasks, NextRow(t)
    PROVE  \A u \in Tasks : Progresses(u)
<1>1. CASE task[t].todo = {}
  BY <1>1, EndProgresses DEF NextRow, GoesOn
<1>2. CASE task[t].todo # {}
  <2>1. PICK l \in task[t].todo :
           task' = [task EXCEPT ![t] =
                       Calling(task[t].op, l, task[t].todo \ {l}, task[t].keep)]
    BY <1>2 DEF NextRow, GoesOn
  <2>2. QED
    BY <2>1 DEF TypeOK, Calling, Progresses, TakesOut
<1>3. QED
  BY <1>1, <1>2

LEMMA RequestProgresses ==
    ASSUME TypeOK, NEW r \in Requests, NEW op \in {"create", "revoke", "remove"},
           NEW l \in Links, Begin(r, op, l, {}, {})
    PROVE  \A u \in Tasks : Progresses(u)
BY DEF TypeOK, Begin, Calling, Progresses, TakesOut, Tasks

(* A pass judges its rows in one step, so its snapshot is sound.              *)
LEMMA SnapshotProgresses ==
    ASSUME TypeOK, NEW t \in Tasks, NEW op \in {"expire", "reconcile"},
           NEW S \in SUBSET Links, NEW keep \in SUBSET Links,
           StartPass(t, op, S, keep), UNCHANGED <<now, ledger>>,
           \A l \in S : op = "expire" \/ l \notin keep => ~ShouldBeActive(l)
    PROVE  \A u \in Tasks : Progresses(u)
<1>1. CASE S = {}
  BY <1>1 DEF StartPass, Progresses, TakesOut
<1>2. CASE S # {}
  <2>1. PICK l \in S : Begin(t, op, l, S \ {l}, keep)
    BY <1>2 DEF StartPass
  <2>2. QED
    BY <2>1 DEF TypeOK, Begin, Calling, Progresses, TakesOut
<1>3. QED
  BY <1>1, <1>2

(* Every step that is not a fault lets every task progress.                   *)
LEMMA FaultlessProgress ==
    ASSUME IInv, [Next]_vars, faults' = faults
    PROVE  \A u \in Tasks : Progresses(u)
<1>a. TypeOK /\ SlotsInOrder
  BY DEF IInv
<1>b. ~Fault
  BY <1>a DEF Fault, TypeOK
<1>c. UNCHANGED task => \A u \in Tasks : Progresses(u)
  BY DEF Progresses, TakesOut
<1>1. ASSUME NEW r \in Requests, NEW l \in Links,
             (\E at \in NewLifetimes : Create(r, l, at)) \/ Revoke(r, l) \/ Remove(r, l)
      PROVE  \A u \in Tasks : Progresses(u)
  <2>1. \E op \in {"create", "revoke", "remove"} : Begin(r, op, l, {}, {})
    BY <1>1 DEF Create, Revoke, Remove
  <2>2. QED
    BY <2>1, <1>a, RequestProgresses
<1>2. ASSUME NEW s \in Scans, ExpireStart(s)
      PROVE  \A u \in Tasks : Progresses(u)
  <2>1. s \in Tasks /\ DueRows \in SUBSET Links /\ {} \in SUBSET Links
    BY DEF Tasks, DueRows
  <2>2. \A l \in DueRows : ~ShouldBeActive(l)
    BY <1>a DEF DueRows, Due, ShouldBeActive, Permanent, TypeOK
  <2>3. StartPass(s, "expire", DueRows, {}) /\ UNCHANGED <<now, ledger>>
    BY <1>2 DEF ExpireStart
  <2>4. QED
    BY <2>1, <2>2, <2>3, <1>a, SnapshotProgresses
<1>3. ASSUME NEW c \in Rounds, ReconcileStart(c)
      PROVE  \A u \in Tasks : Progresses(u)
  <2> DEFINE K == {l \in Links : ShouldBeActive(l)}
  <2>1. c \in Tasks /\ ReconcileRows \in SUBSET Links /\ K \in SUBSET Links
    BY DEF Tasks, ReconcileRows, Rows
  <2>2. \A l \in ReconcileRows : l \notin K => ~ShouldBeActive(l)
    BY DEF ReconcileRows, Rows
  <2>3. StartPass(c, "reconcile", ReconcileRows, K) /\ UNCHANGED <<now, ledger>>
    BY <1>3 DEF ReconcileStart
  <2> HIDE DEF K
  <2>4. QED
    BY <2>1, <2>2, <2>3, <1>a, SnapshotProgresses
<1>4. ASSUME NEW t \in Tasks, Attempt(t)
      PROVE  \A u \in Tasks : Progresses(u)
  <2>1. \A u \in Tasks : /\ task'[u].op = task[u].op
                         /\ task'[u].link = task[u].link
                         /\ task'[u].todo = task[u].todo
                         /\ task'[u].keep = task[u].keep
    BY <1>4, <1>a, AttemptKeeps
  <2>3. AttemptOk(t) \/ AttemptHopeless(t)
    BY <1>4, <1>b DEF Attempt, AttemptFail, AttemptLost, AttemptRefused
  <2>4. \A u \in Tasks \ {t} : task'[u] = task[u]
    BY <2>3, <1>a DEF AttemptOk, AttemptHopeless, Retry, TypeOK
  <2>5. AttemptOk(t) => task'[t].phase = "ok"
    BY <1>a DEF AttemptOk, TypeOK, TaskType
  <2>6. AttemptHopeless(t) => task'[t].link \in Failing
    BY <2>1 DEF AttemptHopeless, Hopeless
  <2>7. QED
    BY <2>1, <2>3, <2>4, <2>5, <2>6 DEF Progresses, TakesOut
<1>5. ASSUME NEW t \in Tasks, Resume(t)
      PROVE  \A u \in Tasks : Progresses(u)
  <2>1. End(t) \/ NextRow(t)
    BY <1>5 DEF Resume, CreateDone, CreateRollback, RevokeDone, RevokeRollback,
       RemoveDone, ExpireStep, ReconcileStep
  <2>2. QED
    BY <2>1, <1>a, EndProgresses, NextRowProgresses
<1>6. QED
  BY <1>1, <1>2, <1>3, <1>4, <1>5, <1>b, <1>c
  DEF Next, Request, Extend, CollectTraffic, SweepSamples, XrayRestart,
      ServerRestart, Tick, vars

----------------------------------------------------------------------------
(* What a pass has to take out and keeps to take out does not become active   *)
(* again, unless it is extended and thereby overtakes the pass: only the      *)
(* rollback of a failed call puts a row back to active.                       *)
LEMMA LapsedStaysLapsed ==
    ASSUME IInv, PassesSound, [Next]_vars, faults' = faults, faults = 0,
           NEW u \in Tasks, NEW l \in Links \ Failing,
           TakesOut(u, l), TakesOut(u, l)', <<u, l>> \notin overtaken'
    PROVE  ~ShouldBeActive(l)'
<1>a. TypeOK /\ SlotsInOrder
  BY DEF IInv
<1>b. ~Fault
  BY <1>a DEF Fault, TypeOK
<1>c. status[l] # "fresh"
  BY <1>a DEF TakesOut, SlotsInOrder
<1>d. <<u, l>> \notin overtaken => ~ShouldBeActive(l)
  BY DEF PassesSound
<1>e. ASSUME UNCHANGED <<status, expires, stamped>>, now' = now,
             overtaken' = overtaken
      PROVE  ~ShouldBeActive(l)'
  BY <1>e, <1>d DEF ShouldBeActive
<1>1. ASSUME NEW r \in Requests, NEW m \in Links, NEW at \in NewLifetimes,
             Create(r, m, at)
      PROVE  ~ShouldBeActive(l)'
  <2>1. m # l
    BY <1>1, <1>c DEF Create
  <2>2. QED
    BY <2>1, <1>1, <1>a, <1>d DEF Create, Begin, ShouldBeActive, TypeOK
<1>2. ASSUME NEW r \in Requests, NEW m \in Links, Revoke(r, m)
      PROVE  ~ShouldBeActive(l)'
  BY <1>2, <1>a, <1>d DEF Revoke, Begin, ShouldBeActive, TypeOK
<1>3. ASSUME NEW m \in Links, NEW at \in LaterLifetimes(m), Extend(m, at)
      PROVE  ~ShouldBeActive(l)'
  <2>1. m # l /\ <<u, l>> \notin overtaken
    BY <1>3 DEF Extend
  <2>2. QED
    BY <2>1, <1>3, <1>a, <1>d DEF Extend, ShouldBeActive, TypeOK
<1>4. ASSUME NEW t \in Tasks, Attempt(t)
      PROVE  ~ShouldBeActive(l)'
  BY <1>4, <1>e DEF Attempt, AttemptOk, AttemptFail, AttemptHopeless, AttemptLost,
     AttemptRefused, ledger
<1>5. ASSUME NEW t \in Tasks, Resume(t)
      PROVE  ~ShouldBeActive(l)'
  <2>0. task[t].op # "idle" /\ task[t].link \in Links
    BY <1>5, <1>a DEF Resume, Resumes, CreateDone, CreateRollback, RevokeDone,
       RevokeRollback, RemoveDone, ExpireStep, ReconcileStep, SlotsInOrder
  (* A pair leaves overtaken with the pass it is about, which has then nothing *)
  (* left to take out.                                                        *)
  <2>1. <<u, l>> \notin overtaken
    <3>1. End(u) => ~TakesOut(u, l)'
      BY <1>a DEF End, Idle, TakesOut, TypeOK
    <3>2. \/ overtaken' = overtaken
          \/ End(t) /\ overtaken' = {p \in overtaken : p[1] # t}
      BY <1>5 DEF Resume, CreateDone, CreateRollback, RevokeDone, RevokeRollback,
         RemoveDone, ExpireStep, ReconcileStep, NextRow, GoesOn, End
    <3>3. QED
      BY <3>1, <3>2
  <2>2. ~ShouldBeActive(l)
    BY <2>1, <1>d
  <2>3. CASE CreateDone(t) \/ RevokeDone(t) \/ ReconcileStep(t)
    BY <2>3, <2>2 DEF CreateDone, RevokeDone, ReconcileStep, ledger, ShouldBeActive
  <2>4. CASE CreateRollback(t) \/ RevokeRollback(t)
    <3>1. task[t].link # l
      BY <2>4 DEF CreateRollback, RevokeRollback, Resumes, PassesSound
    <3>2. /\ status'[l] = status[l] /\ expires'[l] = expires[l] /\ now' = now
          /\ l \in stamped' <=> l \in stamped
      BY <3>1, <2>0, <2>4, <1>a
      DEF CreateRollback, RevokeRollback, Restored, Deleted, TypeOK
    <3>3. QED
      BY <3>2, <2>2 DEF ShouldBeActive
  <2>5. CASE RemoveDone(t)
    BY <2>5, <2>0, <2>2, <1>a DEF RemoveDone, Deleted, ShouldBeActive, TypeOK
  <2>6. CASE ExpireStep(t)
    <3>1. status'[l] \in {status[l], "expired"}
      BY <2>6, <1>a DEF ExpireStep, TypeOK
    <3>2. UNCHANGED <<expires, stamped>> /\ now' = now
      BY <2>6 DEF ExpireStep
    <3>3. QED
      BY <3>1, <3>2, <2>2 DEF ShouldBeActive
  <2>7. QED
    BY <1>5, <2>3, <2>4, <2>5, <2>6 DEF Resume
<1>6. CASE Tick
  BY <1>6, <1>a, <1>d DEF Tick, ledger, ShouldBeActive, TypeOK
<1>7. QED
  BY <1>1, <1>2, <1>3, <1>4, <1>5, <1>6, <1>b, <1>e
  DEF Next, Request, Remove, Begin, ExpireStart, ReconcileStart, StartPass,
      CollectTraffic, SweepSamples, XrayRestart, ServerRestart, ledger, vars

----------------------------------------------------------------------------
(* No step takes a fault back.                                                *)
LEMMA FaultsCount == IInv /\ [Next]_vars /\ faults' = 0 => faults = 0
<1> SUFFICES ASSUME IInv, [Next]_vars, faults' = 0 PROVE faults = 0
  OBVIOUS
<1>1. faults \in Nat
  BY BoundsAssumption DEF IInv, TypeOK
<1>2. faults' = faults \/ faults' = faults + 1
  BY DEF Next, Request, Create, Revoke, Remove, Extend, ExpireStart,
     ReconcileStart, Attempt, AttemptOk, AttemptFail, AttemptHopeless, AttemptLost,
     AttemptRefused, Resume, CreateDone, CreateRollback, RevokeDone,
     RevokeRollback, RemoveDone, ExpireStep, ReconcileStep, CollectTraffic,
     SweepSamples, XrayRestart, ServerRestart, Tick, Fault, vars
<1>3. QED
  BY <1>1, <1>2

LEMMA InitSound == Init => PassesSound
BY DEF Init, Idle, PassesSound, TakesOut

LEMMA SoundStep == IInv /\ PassesSound /\ [Next]_vars => PassesSound'
<1> SUFFICES ASSUME IInv, PassesSound, [Next]_vars, faults' = 0, NEW u \in Tasks
             PROVE  /\ task'[u].phase = "failed" => task'[u].link \in Failing
                    /\ \A l \in Links \ Failing :
                          TakesOut(u, l)' /\ <<u, l>> \notin overtaken'
                             => ~ShouldBeActive(l)'
  BY DEF PassesSound
<1>1. faults = 0
  BY FaultsCount
<1>2. Progresses(u)
  BY <1>1, FaultlessProgress
<1>3. task[u].phase = "failed" => task[u].link \in Failing
  BY <1>1 DEF PassesSound
<1>4. ASSUME NEW l \in Links \ Failing, TakesOut(u, l)', <<u, l>> \notin overtaken'
      PROVE  ~ShouldBeActive(l)'
  <2>1. CASE TakesOut(u, l)
    BY <2>1, <1>1, <1>4, LapsedStaysLapsed
  <2>2. CASE ~ShouldBeActive(l) /\ UNCHANGED <<now, ledger>>
    BY <2>2 DEF ledger, ShouldBeActive
  <2>3. QED
    BY <2>1, <2>2, <1>2, <1>4 DEF Progresses
<1>5. QED
  BY <1>2, <1>3, <1>4 DEF Progresses

(* The only step that takes a user out of xray without a fault is the rmu of  *)
(* a revocation, a removal or a pass.                                         *)
LEMMA EvictionStep ==
    ASSUME IInv, PassesSound, [Next]_vars, faults' = faults, faults = 0,
           NEW l \in xray \ xray', ShouldBeActive(l)
    PROVE  \E t \in Tasks : /\ Answered(t) /\ task[t].link = l
                            /\ task[t].op = "remove" \/ <<t, l>> \in overtaken
<1>a. TypeOK /\ SlotsInOrder /\ RevokeExclusive
  BY DEF IInv
<1>b. ~Fault
  BY <1>a DEF Fault, TypeOK
<1>1. PICK t \in Tasks : AttemptOk(t)
  BY <1>b DEF Next, Request, Create, Revoke, Remove, Extend, ExpireStart,
     ReconcileStart, Attempt, AttemptFail, AttemptHopeless, AttemptLost,
     AttemptRefused, Resume, CreateDone, CreateRollback, RevokeDone,
     RevokeRollback, RemoveDone, ExpireStep, ReconcileStep, CollectTraffic,
     SweepSamples, XrayRestart, ServerRestart, Tick, vars
<1>2. /\ task[t].op \in {"create", "revoke", "remove", "expire", "reconcile"}
      /\ ~Adds(t) /\ task[t].link = l
  <2>1. task[t] \in TaskType /\ task[t].op # "idle"
    BY <1>1, <1>a DEF TypeOK, AttemptOk, Awaiting
  <2>2. QED
    BY <1>1, <2>1 DEF AttemptOk, Apply, TaskType, Ops
<1>3. Answered(t)
  BY <1>1, <1>a DEF AttemptOk, Awaiting, Answered, TypeOK, TaskType
<1>4. l \in Links \ Failing
  BY <1>1, <1>2, <1>a DEF AttemptOk, Hopeless, Adds, TypeOK
<1>5. TakesOut(t, l) => <<t, l>> \in overtaken
  BY <1>4 DEF PassesSound
<1>6. CASE TakesOut(t, l)
  BY <1>2, <1>3, <1>5, <1>6
<1>7. CASE ~TakesOut(t, l)
  <2>1. task[t].op \in {"revoke", "remove"}
    BY <1>2, <1>7 DEF Adds, TakesOut
  <2>2. t \in Requests
    BY <2>1, <1>a DEF SlotsInOrder
  <2>3. task[t].op # "revoke"
    BY <1>2, <2>2, <1>a DEF RevokeExclusive, ShouldBeActive
  <2>4. QED
    BY <1>2, <1>3, <2>1, <2>3
<1>8. QED
  BY <1>6, <1>7

(* Without a fault, a user that should be active leaves xray only by a DELETE *)
(* of its link or by a pass that an extension of that link has overtaken: a   *)
(* link extended at any other time is as safe from the passes as any.         *)
THEOREM EvictionsJustified == Spec => EvictionJustified
<1>1. IInv /\ PassesSound /\ [Next]_vars =>
         [faults' = 0 => \A l \in xray \ xray' : ShouldBeActive(l) =>
             \E t \in Tasks : /\ Answered(t)
                              /\ task[t].link = l
                              /\ task[t].op = "remove" \/ <<t, l>> \in overtaken]_vars
  BY FaultsCount, EvictionStep
<1>2. Spec => []PassesSound
  BY InitSound, SoundStep, Invariant, PTL DEF Spec
<1>3. QED
  BY <1>1, <1>2, Invariant, PTL DEF Spec, EvictionJustified
=============================================================================
