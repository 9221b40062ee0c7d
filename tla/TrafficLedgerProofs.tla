------------------------ MODULE TrafficLedgerProofs ------------------------
(* Machine-checked proofs about TrafficLedger, for every set of links, chunks *)
(* and pulls and every bound: no traffic is counted twice, credited to the    *)
(* wrong link or sampled without being booked, and none of an active link is  *)
(* lost in a step without a fault.  At the end, of the curves drawn from the  *)
(* samples: every sample has its bucket (TrafficBuckets).                     *)
EXTENDS TrafficLedger, TrafficBuckets, TLAPS

(* Everything that is counted, read or booked for a link was carried by it,   *)
(* which keeps a newly carried chunk apart from all of them; and a pull holds *)
(* an answer only once it was given one.                                      *)
Origins ==
    \A l \in Links :
        /\ counter[l] \subseteq carried[l]
        /\ \A p \in Pulls :
              /\ pull[p].read[l] \subseteq carried[l]
              /\ pull[p].phase # "answered" => pull[p].read[l] = {}

IInv == TypeOK /\ Origins /\ CreditedToOwner /\ NeverTwice /\ SamplesWithinBooks

LEMMA IdleType == IdlePull \in PullType
BY TrafficBounds DEF IdlePull, PullType, Nothing

LEMMA InitInv == Init => IInv
<1> SUFFICES ASSUME Init PROVE IInv
  OBVIOUS
<1>1. TypeOK
  BY IdleType, TrafficBounds DEF Init, TypeOK, RowState, Nothing
<1>2. \A p \in Pulls, l \in Links : pull[p].read[l] = {} /\ Taken(p, l) = {}
  BY DEF Init, IdlePull, Nothing, Taken, Resets
<1>3. \A l \in Links : counter[l] = {} /\ booked[l] = {} /\ samples[l] = {}
  BY DEF Init, Nothing
<1>4. QED
  BY <1>1, <1>2, <1>3
  DEF IInv, Origins, CreditedToOwner, NeverTwice, SamplesWithinBooks

----------------------------------------------------------------------------
(* What each step of pull p does to its own record and to no other.           *)

LEMMA PullsOf ==
    ASSUME TypeOK, NEW p \in Pulls, NEW x \in PullType,
           pull' = [pull EXCEPT ![p] = x]
    PROVE  /\ pull' \in [Pulls -> PullType]
           /\ pull'[p] = x
           /\ \A q \in Pulls \ {p} : pull'[q] = pull[q]
BY DEF TypeOK

LEMMA StartOf ==
    ASSUME TypeOK, NEW p \in Pulls, PullStart(p)
    PROVE  /\ pull' \in [Pulls -> PullType]
           /\ pull'[p].read = Nothing
           /\ \A q \in Pulls \ {p} : pull'[q] = pull[q]
<1> DEFINE x == [IdlePull EXCEPT !.phase = "calling", !.isFirst = first]
<1>1. x \in PullType /\ x.read = Nothing
  BY IdleType DEF TypeOK, PullType, IdlePull
<1>2. pull' = [pull EXCEPT ![p] = x]
  BY DEF PullStart
<1> HIDE DEF x
<1>3. QED
  BY <1>1, <1>2, PullsOf

LEMMA RetryOf ==
    ASSUME TypeOK, NEW p \in Pulls, Retry(p), pull[p].phase = "calling"
    PROVE  /\ pull' \in [Pulls -> PullType]
           /\ pull'[p].phase # "answered"
           /\ pull'[p].read = pull[p].read
           /\ pull'[p].isFirst = pull[p].isFirst
           /\ \A q \in Pulls \ {p} : pull'[q] = pull[q]
<1>1. pull[p] \in PullType
  BY DEF TypeOK
<1>2. CASE pull[p].tries < Retries
  <2> DEFINE x == [pull[p] EXCEPT !.tries = @ + 1]
  <2>1. x \in PullType /\ x.phase = "calling"
        /\ x.read = pull[p].read /\ x.isFirst = pull[p].isFirst
    BY <1>1, <1>2, TrafficBounds DEF PullType
  <2>2. pull' = [pull EXCEPT ![p] = x]
    BY <1>2 DEF Retry
  <2> HIDE DEF x
  <2>3. QED
    BY <2>1, <2>2, PullsOf
<1>3. CASE ~(pull[p].tries < Retries)
  <2> DEFINE x == [pull[p] EXCEPT !.phase = "failed"]
  <2>1. x \in PullType /\ x.phase = "failed"
        /\ x.read = pull[p].read /\ x.isFirst = pull[p].isFirst
    BY <1>1 DEF PullType
  <2>2. pull' = [pull EXCEPT ![p] = x]
    BY <1>3 DEF Retry
  <2> HIDE DEF x
  <2>3. QED
    BY <2>1, <2>2, PullsOf
<1>4. QED
  BY <1>2, <1>3

LEMMA AnswerOf ==
    ASSUME TypeOK, NEW p \in Pulls, AnswerOk(p)
    PROVE  /\ pull' \in [Pulls -> PullType]
           /\ pull'[p].phase = "answered"
           /\ pull'[p].read = counter
           /\ pull'[p].isFirst = pull[p].isFirst
           /\ \A q \in Pulls \ {p} : pull'[q] = pull[q]
<1> DEFINE x == [pull[p] EXCEPT !.phase = "answered", !.read = counter]
<1>1. x \in PullType /\ x.phase = "answered"
      /\ x.read = counter /\ x.isFirst = pull[p].isFirst
  BY DEF TypeOK, PullType
<1>2. pull' = [pull EXCEPT ![p] = x]
  BY DEF AnswerOk, TypeOK
<1> HIDE DEF x
<1>3. QED
  BY <1>1, <1>2, PullsOf

LEMMA GarbledOf ==
    ASSUME TypeOK, NEW p \in Pulls, AnswerGarbled(p)
    PROVE  /\ pull' \in [Pulls -> PullType]
           /\ pull'[p].read = pull[p].read
           /\ pull'[p].isFirst = pull[p].isFirst
           /\ \A q \in Pulls \ {p} : pull'[q] = pull[q]
<1> DEFINE x == [pull[p] EXCEPT !.phase = "answered"]
<1>1. x \in PullType /\ x.read = pull[p].read /\ x.isFirst = pull[p].isFirst
  BY DEF TypeOK, PullType
<1>2. pull' = [pull EXCEPT ![p] = x]
  BY DEF AnswerGarbled
<1> HIDE DEF x
<1>3. QED
  BY <1>1, <1>2, PullsOf

LEMMA EndOf ==
    ASSUME TypeOK, NEW p \in Pulls, PullDone(p) \/ PullFailed(p)
    PROVE  /\ pull' \in [Pulls -> PullType]
           /\ pull'[p].read = Nothing
           /\ \A q \in Pulls \ {p} : pull'[q] = pull[q]
<1>1. pull' = [pull EXCEPT ![p] = IdlePull] /\ IdlePull.read = Nothing
  BY DEF PullDone, PullFailed, IdlePull
<1>2. QED
  BY <1>1, IdleType, PullsOf

----------------------------------------------------------------------------
(* Type correctness is preserved.                                             *)

LEMMA TypeStep == IInv /\ [Next]_vars => TypeOK'
<1> SUFFICES ASSUME IInv, [Next]_vars PROVE TypeOK'
  OBVIOUS
<1>a. TypeOK
  BY DEF IInv
<1>b. Fault => faults' \in 0..MaxFaults
  BY <1>a, TrafficBounds DEF TypeOK, Fault
<1>c. Nothing \in [Links -> SUBSET Chunks]
  BY DEF Nothing
<1>1. ASSUME NEW l \in Links, RowStep(l) PROVE TypeOK'
  <2>1. CASE Delete(l)
    BY <2>1, <1>a DEF TypeOK, Delete, SamplesDeleted, RowState
  <2>2. CASE \E from \in SUBSET RowState, to \in RowState : RowMoves(l, from, to)
    BY <2>2, <1>a DEF TypeOK, RowMoves, books
  <2>3. QED
    BY <1>1, <2>1, <2>2
    DEF RowStep, Issue, RevokeBegin, RevokeSettled, RevokeUndone, Expire, RowState
<1>2. ASSUME NEW l \in Links, NEW c \in Chunks, Carry(l, c) PROVE TypeOK'
  BY <1>2, <1>a DEF TypeOK, Carry, books
<1>3. ASSUME NEW l \in Links, NEW c \in Chunks, SweepSamples(l, c) PROVE TypeOK'
  BY <1>3, <1>a DEF TypeOK, SweepSamples
<1>4. ASSUME NEW p \in Pulls, PullStep(p) PROVE TypeOK'
  <2>1. Query(p) => counter' \in [Links -> SUBSET Chunks]
    BY <1>a, <1>c DEF TypeOK, Query
  <2>2. CASE PullStart(p)
    BY <2>2, <1>a, StartOf DEF TypeOK, PullStart, books
  <2>3. CASE AnswerOk(p)
    BY <2>3, <1>a, <2>1, AnswerOf DEF TypeOK, AnswerOk, books
  <2>4. CASE AnswerFail(p)
    BY <2>4, <1>a, <1>b, RetryOf DEF TypeOK, AnswerFail, books
  <2>5. CASE AnswerLost(p)
    BY <2>5, <1>a, <1>b, <2>1, RetryOf DEF TypeOK, AnswerLost, books
  <2>6. CASE AnswerGarbled(p)
    BY <2>6, <1>a, <1>b, <2>1, GarbledOf DEF TypeOK, AnswerGarbled, books
  <2>7. CASE PullDone(p)
    <3>1. pull[p] \in PullType
      BY <1>a DEF TypeOK
    <3>2. \A l \in Links : Credit(p)[l] \subseteq Chunks
      BY <3>1 DEF Credit, PullType
    <3>3. /\ booked' \in [Links -> SUBSET Chunks]
          /\ samples' \in [Links -> SUBSET Chunks]
      BY <2>7, <1>a, <3>2 DEF TypeOK, PullDone
    <3>4. first' \in BOOLEAN
      BY <2>7 DEF PullDone, FirstDone
    <3>5. QED
      BY <2>7, <1>a, <3>3, <3>4, EndOf DEF TypeOK, PullDone
  <2>8. CASE PullFailed(p)
    BY <2>8, <1>a, EndOf DEF TypeOK, PullFailed, books
  <2>9. QED
    BY <1>4, <2>2, <2>3, <2>4, <2>5, <2>6, <2>7, <2>8 DEF PullStep
<1>5. CASE XrayRestart
  BY <1>5, <1>a, <1>b, <1>c DEF TypeOK, XrayRestart, books
<1>6. CASE ServerRestart
  BY <1>6, <1>a, <1>b, IdleType DEF TypeOK, ServerRestart
<1>7. CASE UNCHANGED vars
  BY <1>7, <1>a DEF TypeOK, vars, books
<1>8. QED
  BY <1>1, <1>2, <1>3, <1>4, <1>5, <1>6, <1>7 DEF Next

----------------------------------------------------------------------------
(* The invariant is inductive.                                                *)

(* Whatever only removes chunks from their places keeps them apart.           *)
LEMMA Shrinking ==
    ASSUME IInv, TypeOK',
           \A l \in Links : /\ counter'[l] \subseteq counter[l]
                            /\ booked'[l] \subseteq booked[l]
                            /\ carried'[l] = carried[l]
                            /\ samples'[l] \subseteq booked'[l],
           \A l \in Links, p \in Pulls :
              /\ pull'[p].read[l] \subseteq pull[p].read[l]
              /\ pull'[p].phase # "answered" => pull'[p].read[l] = {}
              /\ Taken(p, l)' \subseteq Taken(p, l)
    PROVE  IInv'
BY DEF IInv, Origins, CreditedToOwner, NeverTwice, SamplesWithinBooks

(* A pull whose record keeps its answer and its kind has taken what it had.   *)
LEMMA TakenAgain ==
    ASSUME NEW q \in Pulls, NEW l \in Links,
           \/ pull'[q].read = Nothing
           \/ pull'[q].read = pull[q].read /\ pull'[q].isFirst = pull[q].isFirst
    PROVE  Taken(q, l)' \subseteq Taken(q, l)
BY DEF Taken, Resets, Nothing

LEMMA InvStep == IInv /\ [Next]_vars => IInv'
<1> SUFFICES ASSUME IInv, [Next]_vars PROVE IInv'
  OBVIOUS
<1>a. /\ TypeOK /\ Origins /\ CreditedToOwner /\ NeverTwice
      /\ SamplesWithinBooks
  BY DEF IInv
<1>b. TypeOK'
  BY TypeStep
<1>c. \A l \in Links, p \in Pulls :
         pull[p].phase # "answered" => pull[p].read[l] = {}
  BY <1>a DEF Origins
(* Steps that leave the pulls alone and remove chunks at most. *)
<1>d. ASSUME UNCHANGED <<carried, pull>>,
             \A l \in Links : /\ counter'[l] \subseteq counter[l]
                              /\ booked'[l] \subseteq booked[l]
                              /\ samples'[l] \subseteq booked'[l]
      PROVE  IInv'
  BY <1>b, <1>c, <1>d, Shrinking DEF Taken, Resets
(* Steps of a pull that leave the books alone and take nothing. *)
<1>e. ASSUME NEW p \in Pulls, UNCHANGED <<carried, booked, samples>>,
             Query(p) \/ UNCHANGED counter,
             \A q \in Pulls \ {p} : pull'[q] = pull[q],
             pull'[p].phase # "answered" \/ pull[p].phase = "calling",
             \/ pull'[p].read = Nothing
             \/ /\ pull[p].phase = "calling"
                /\ pull'[p].read = pull[p].read
                /\ pull'[p].isFirst = pull[p].isFirst
      PROVE  IInv'
  <2>1. \A l \in Links : counter'[l] \subseteq counter[l]
    BY <1>e DEF Query, Nothing
  <2>2. \A l \in Links, q \in Pulls :
           /\ pull'[q].read[l] \subseteq pull[q].read[l]
           /\ pull'[q].phase # "answered" => pull'[q].read[l] = {}
    BY <1>e, <1>c DEF Nothing
  <2>3. \A l \in Links, q \in Pulls : Taken(q, l)' \subseteq Taken(q, l)
    BY <1>e, TakenAgain
  <2>4. QED
    BY <1>a, <1>b, <1>e, <2>1, <2>2, <2>3, Shrinking DEF SamplesWithinBooks
<1>1. ASSUME NEW l \in Links, RowStep(l) PROVE IInv'
  <2>1. UNCHANGED <<carried, pull, counter>>
    BY <1>1 DEF RowStep, RowMoves, Delete, Issue, RevokeBegin, RevokeSettled,
       RevokeUndone, Expire
  <2>2. \/ UNCHANGED <<booked, samples>>
        \/ /\ booked' = [booked EXCEPT ![l] = {}]
           /\ samples' = [samples EXCEPT ![l] = {}]
    BY <1>1 DEF RowStep, RowMoves, Delete, Issue, RevokeBegin, RevokeSettled,
       RevokeUndone, Expire, SamplesDeleted, books
  <2>3. \A m \in Links : booked'[m] \subseteq booked[m]
                          /\ samples'[m] \subseteq booked'[m]
    BY <2>2, <1>a DEF SamplesWithinBooks, TypeOK
  <2>4. QED
    BY <2>1, <2>3, <1>d
<1>2. ASSUME NEW l \in Links, NEW c \in Chunks, Carry(l, c) PROVE IInv'
  <2>1. /\ \A m \in Links : c \notin carried[m]
        /\ carried' = [carried EXCEPT ![l] = @ \cup {c}]
        /\ counter' = [counter EXCEPT ![l] = @ \cup {c}]
        /\ UNCHANGED <<booked, samples, pull>>
    BY <1>2 DEF Carry, books
  <2>2. \A m \in Links, p \in Pulls : Taken(p, m)' = Taken(p, m)
    BY <2>1 DEF Taken, Resets
  (* The new chunk is in no other place. *)
  <2>3. \A m \in Links : /\ c \notin booked[m]
                          /\ \A p \in Pulls : c \notin Taken(p, m)
    BY <2>1, <1>a DEF CreditedToOwner, Origins, Taken
  <2>4. /\ \A m \in Links \ {l} : counter'[m] = counter[m] /\ carried'[m] = carried[m]
        /\ counter'[l] = counter[l] \cup {c}
        /\ carried'[l] = carried[l] \cup {c}
    BY <2>1, <1>a DEF TypeOK
  <2>5. Origins' /\ CreditedToOwner' /\ SamplesWithinBooks'
    BY <2>1, <2>4, <1>a DEF Origins, CreditedToOwner, SamplesWithinBooks
  <2>6. NeverTwice'
    BY <2>1, <2>2, <2>3, <2>4, <1>a DEF NeverTwice
  <2>7. QED
    BY <1>b, <2>5, <2>6 DEF IInv
<1>3. ASSUME NEW l \in Links, NEW c \in Chunks, SweepSamples(l, c) PROVE IInv'
  <2>1. /\ UNCHANGED <<carried, pull, counter, booked>>
        /\ samples' = [samples EXCEPT ![l] = @ \ {c}]
    BY <1>3 DEF SweepSamples
  <2>2. \A m \in Links : samples'[m] \subseteq booked'[m]
    BY <2>1, <1>a DEF SamplesWithinBooks, TypeOK
  <2>3. QED
    BY <2>1, <2>2, <1>d
<1>4. ASSUME NEW p \in Pulls, PullStep(p) PROVE IInv'
  <2>1. CASE PullStart(p)
    BY <2>1, <1>a, <1>e, <1>b, StartOf DEF PullStart, books, TypeOK, PullType, IdlePull
  <2>2. CASE AnswerOk(p)
    <3>1. /\ pull'[p].phase = "answered" /\ pull'[p].read = counter
          /\ pull'[p].isFirst = pull[p].isFirst
          /\ \A q \in Pulls \ {p} : pull'[q] = pull[q]
          /\ Query(p) /\ UNCHANGED <<carried, booked, samples>>
      BY <2>2, <1>a, AnswerOf DEF AnswerOk, books
    <3>2. \A l \in Links : counter'[l] \subseteq counter[l]
      BY <3>1 DEF Query, Nothing
    <3>3. \A l \in Links :
             /\ \/ Taken(p, l)' = {}
                \/ Taken(p, l)' = counter[l] /\ counter'[l] = {}
             /\ \A q \in Pulls \ {p} : Taken(q, l)' = Taken(q, l)
      BY <3>1 DEF Taken, Resets, Query, Nothing
    <3>4. \A l \in Links : /\ carried'[l] = carried[l] /\ booked'[l] = booked[l]
                            /\ samples'[l] = samples[l]
      BY <3>1
    <3>5. CreditedToOwner' /\ SamplesWithinBooks'
      BY <3>4, <1>a DEF CreditedToOwner, SamplesWithinBooks
    <3>6. \A l \in Links : \A q \in Pulls :
             /\ pull'[q].read[l] \subseteq carried[l]
             /\ pull'[q].phase # "answered" => pull'[q].read[l] = {}
      <4>1. \A l \in Links : pull'[p].read[l] = counter[l]
        BY <3>1
      <4>2. QED
        BY <3>1, <4>1, <1>a DEF Origins
    <3>7. Origins'
      <4>1. \A l \in Links : counter'[l] \subseteq carried'[l]
        BY <3>2, <3>4, <1>a DEF Origins
      <4>2. \A l \in Links : \A q \in Pulls :
               pull'[q].read[l] \subseteq carried'[l]
        BY <3>4, <3>6
      <4>3. QED
        BY <4>1, <4>2, <3>6 DEF Origins
    <3>8. NeverTwice'
      <4> SUFFICES ASSUME NEW l \in Links
                   PROVE  /\ counter'[l] \cap booked'[l] = {}
                          /\ \A q \in Pulls :
                                /\ Taken(q, l)' \cap counter'[l] = {}
                                /\ Taken(q, l)' \cap booked'[l] = {}
                                /\ \A r \in Pulls \ {q} :
                                      Taken(q, l)' \cap Taken(r, l)' = {}
        BY DEF NeverTwice
      <4>1. /\ counter[l] \cap booked[l] = {}
            /\ \A q \in Pulls :
                  /\ Taken(q, l) \cap counter[l] = {}
                  /\ Taken(q, l) \cap booked[l] = {}
                  /\ \A r \in Pulls \ {q} : Taken(q, l) \cap Taken(r, l) = {}
        BY <1>a DEF NeverTwice
      <4>2. /\ \/ Taken(p, l)' = {}
               \/ Taken(p, l)' = counter[l] /\ counter'[l] = {}
            /\ \A q \in Pulls \ {p} : Taken(q, l)' = Taken(q, l)
        BY <3>3
      <4>3. QED
        BY <3>2, <3>4, <4>1, <4>2
    <3>9. QED
      BY <1>b, <3>5, <3>7, <3>8 DEF IInv
  <2>3. CASE AnswerFail(p) \/ AnswerLost(p)
    BY <2>3, <1>a, <1>e, RetryOf DEF AnswerFail, AnswerLost, books
  <2>4. CASE AnswerGarbled(p)
    BY <2>4, <1>a, <1>e, GarbledOf DEF AnswerGarbled, books
  <2>5. CASE PullDone(p)
    <3>1. /\ pull'[p].read = Nothing
          /\ \A q \in Pulls \ {p} : pull'[q] = pull[q]
          /\ UNCHANGED <<carried, counter>>
      BY <2>5, <1>a, EndOf DEF PullDone
    <3>2. \A l \in Links : Credit(p)[l] \subseteq Taken(p, l)
      BY DEF Credit, Listed, Taken, Resets
    <3>3. \A l \in Links : booked'[l] = booked[l] \cup Credit(p)[l]
                            /\ samples'[l] = samples[l] \cup Credit(p)[l]
      BY <2>5 DEF PullDone
    <3>4. \A l \in Links :
             /\ Taken(p, l)' = {}
             /\ \A q \in Pulls \ {p} : Taken(q, l)' = Taken(q, l)
      BY <3>1 DEF Taken, Resets, Nothing
    <3>5. Origins'
      BY <3>1, <1>a DEF Origins, Nothing
    <3>6. \A l \in Links : Taken(p, l) \subseteq carried[l]
      BY <1>a DEF Origins, Taken
    <3>7. CreditedToOwner' /\ SamplesWithinBooks'
      BY <3>1, <3>2, <3>3, <3>6, <1>a DEF CreditedToOwner, SamplesWithinBooks
    <3>8. NeverTwice'
      BY <3>1, <3>2, <3>3, <3>4, <1>a DEF NeverTwice
    <3>9. QED
      BY <1>b, <3>5, <3>7, <3>8 DEF IInv
  <2>6. CASE PullFailed(p)
    <3>1. pull'[p].phase = "idle"
      BY <2>6, <1>a DEF PullFailed, TypeOK, IdlePull
    <3>2. QED
      BY <2>6, <3>1, <1>a, <1>e, EndOf DEF PullFailed, books
  <2>7. QED
    BY <1>4, <2>1, <2>2, <2>3, <2>4, <2>5, <2>6 DEF PullStep
<1>5. CASE XrayRestart
  BY <1>5, <1>a, <1>d DEF XrayRestart, books, Nothing, SamplesWithinBooks
<1>6. CASE ServerRestart
  <2>1. /\ UNCHANGED <<carried, counter, booked, samples>>
        /\ \A p \in Pulls : pull'[p].read = Nothing
    BY <1>6 DEF ServerRestart, IdlePull
  <2>2. QED
    BY <2>1, <1>a, <1>b, TakenAgain, Shrinking DEF SamplesWithinBooks, Nothing
<1>7. CASE UNCHANGED vars
  BY <1>7, <1>a, <1>d DEF vars, books, SamplesWithinBooks
<1>8. QED
  BY <1>1, <1>2, <1>3, <1>4, <1>5, <1>6, <1>7 DEF Next

----------------------------------------------------------------------------
(* Every reachable state satisfies the inductive invariant.                   *)
THEOREM Invariant == Spec => []IInv
BY InitInv, InvStep, PTL DEF Spec

(* Every variable keeps its type.                                             *)
THEOREM TypeCorrect == Spec => []TypeOK
<1>1. IInv => TypeOK
  BY DEF IInv
<1>2. QED
  BY <1>1, Invariant, PTL

(* No traffic is ever counted twice.                                          *)
THEOREM CountedOnce == Spec => []NeverTwice
<1>1. IInv => NeverTwice
  BY DEF IInv
<1>2. QED
  BY <1>1, Invariant, PTL

(* No link is credited with another link's traffic.                           *)
THEOREM OwnTraffic == Spec => []CreditedToOwner
<1>1. IInv => CreditedToOwner
  BY DEF IInv
<1>2. QED
  BY <1>1, Invariant, PTL

(* The traffic curve never shows more than the ledger.                        *)
THEOREM SamplesAgree == Spec => []SamplesWithinBooks
<1>1. IInv => SamplesWithinBooks
  BY DEF IInv
<1>2. QED
  BY <1>1, Invariant, PTL
----------------------------------------------------------------------------
(* Losses.                                                                    *)

(* A step that leaves the places of l's chunks alone loses none of them.      *)
LEMMA SameLoss ==
    ASSUME NEW l \in Links, UNCHANGED <<carried, counter>>, booked'[l] = booked[l],
           \A p \in Pulls : Taken(p, l)' = Taken(p, l)
    PROVE  Lost(l)' = Lost(l)
BY DEF Lost

LEMMA LossStep ==
    ASSUME IInv, [Next]_vars, NEW l \in Links,
           row[l] = "active", row'[l] = "active", faults' = faults
    PROVE  Lost(l)' = Lost(l)
<1>a. TypeOK /\ Origins /\ CreditedToOwner
  BY DEF IInv
<1>b. ~Fault
  BY <1>a, TrafficBounds DEF TypeOK, Fault
<1>c. \A p \in Pulls : pull[p].phase # "answered" => Taken(p, l) = {}
  BY <1>a DEF Origins, Taken
<1>1. ASSUME NEW m \in Links, RowStep(m) PROVE Lost(l)' = Lost(l)
  <2>1. UNCHANGED <<carried, counter, pull>>
    BY <1>1 DEF RowStep, RowMoves, Delete, Issue, RevokeBegin, RevokeSettled,
       RevokeUndone, Expire
  (* Only a deletion touches the books, and l is not the link it deletes. *)
  <2>2. booked'[l] = booked[l]
    BY <1>1, <1>a DEF RowStep, RowMoves, Delete, Issue, RevokeBegin,
       RevokeSettled, RevokeUndone, Expire, books, TypeOK
  <2>3. QED
    BY <2>1, <2>2, SameLoss DEF Taken, Resets
<1>2. ASSUME NEW m \in Links, NEW c \in Chunks, Carry(m, c)
      PROVE  Lost(l)' = Lost(l)
  <2>1. /\ carried' = [carried EXCEPT ![m] = @ \cup {c}]
        /\ counter' = [counter EXCEPT ![m] = @ \cup {c}]
        /\ UNCHANGED <<booked, pull>>
    BY <1>2 DEF Carry, books
  <2>2. \A p \in Pulls : Taken(p, l)' = Taken(p, l)
    BY <2>1 DEF Taken, Resets
  <2>3. CASE m # l
    <3>1. carried'[l] = carried[l] /\ counter'[l] = counter[l]
      BY <2>1, <2>3, <1>a DEF TypeOK
    <3>2. QED
      BY <2>1, <2>2, <3>1 DEF Lost
  <2>4. CASE m = l
    <3>1. /\ carried'[l] = carried[l] \cup {c}
          /\ counter'[l] = counter[l] \cup {c}
          /\ c \notin carried[l]
      BY <2>1, <2>4, <1>2, <1>a DEF TypeOK, Carry
    <3>2. QED
      BY <2>1, <2>2, <3>1 DEF Lost
  <2>5. QED
    BY <2>3, <2>4
<1>3. ASSUME NEW m \in Links, NEW c \in Chunks, SweepSamples(m, c)
      PROVE  Lost(l)' = Lost(l)
  BY <1>3, SameLoss DEF SweepSamples, Taken, Resets
<1>4. ASSUME NEW p \in Pulls, PullStep(p) PROVE Lost(l)' = Lost(l)
  <2>1. CASE PullStart(p) \/ PullFailed(p)
    <3>1. /\ pull[p].phase # "answered"
          /\ pull'[p].read = Nothing
          /\ \A q \in Pulls \ {p} : pull'[q] = pull[q]
          /\ UNCHANGED <<carried, counter, booked>>
      BY <2>1, <1>a, StartOf, EndOf DEF PullStart, PullFailed, books
    <3>2. \A q \in Pulls : Taken(q, l)' = Taken(q, l)
      BY <3>1, <1>c DEF Taken, Resets, Nothing
    <3>3. QED
      BY <3>1, <3>2, SameLoss
  <2>2. CASE AnswerOk(p)
    <3>1. /\ pull[p].phase = "calling"
          /\ pull'[p].read = counter
          /\ pull'[p].isFirst = pull[p].isFirst
          /\ \A q \in Pulls \ {p} : pull'[q] = pull[q]
          /\ Query(p) /\ UNCHANGED <<carried, booked>>
      BY <2>2, <1>a, AnswerOf DEF AnswerOk, books
    <3>2. \A q \in Pulls \ {p} : Taken(q, l)' = Taken(q, l)
      BY <3>1 DEF Taken, Resets
    <3>3. Taken(p, l) = {}
      BY <3>1, <1>c
    (* The counters of l are either left alone or taken. *)
    <3>4. \/ Taken(p, l)' = {} /\ counter'[l] = counter[l]
          \/ Taken(p, l)' = counter[l] /\ counter'[l] = {}
      BY <3>1 DEF Taken, Resets, Query, Nothing
    <3>5. QED
      BY <3>1, <3>2, <3>3, <3>4 DEF Lost
  <2>3. CASE AnswerFail(p) \/ AnswerLost(p) \/ AnswerGarbled(p)
    BY <2>3, <1>b DEF AnswerFail, AnswerLost, AnswerGarbled
  <2>4. CASE PullDone(p)
    <3>1. /\ pull'[p].read = Nothing
          /\ \A q \in Pulls \ {p} : pull'[q] = pull[q]
          /\ UNCHANGED <<carried, counter>>
          /\ booked'[l] = booked[l] \cup Credit(p)[l]
      BY <2>4, <1>a, EndOf DEF PullDone
    (* l is listed, so all that was taken for it is credited. *)
    <3>2. Credit(p)[l] = Taken(p, l)
      BY DEF Credit, Listed, Taken, Resets
    <3>3. Taken(p, l)' = {} /\ \A q \in Pulls \ {p} : Taken(q, l)' = Taken(q, l)
      BY <3>1 DEF Taken, Resets, Nothing
    <3>4. QED
      BY <3>1, <3>2, <3>3 DEF Lost
  <2>5. QED
    BY <1>4, <2>1, <2>2, <2>3, <2>4 DEF PullStep
<1>5. CASE XrayRestart \/ ServerRestart
  BY <1>5, <1>b DEF XrayRestart, ServerRestart
<1>6. CASE UNCHANGED vars
  BY <1>6, SameLoss DEF vars, books, Taken, Resets
<1>7. QED
  BY <1>1, <1>2, <1>3, <1>4, <1>5, <1>6 DEF Next

(* An active link loses traffic only in a step in which an attempt or a       *)
(* process fails.                                                             *)
THEOREM LossesJustified == Spec => LossesAreFaults
<1>1. IInv /\ [Next]_vars =>
         [\A l \in Links :
             row[l] = "active" /\ row'[l] = "active" /\ faults' = faults
                 => Lost(l)' = Lost(l)]_vars
  BY LossStep
<1>2. QED
  BY <1>1, Invariant, PTL DEF Spec, LossesAreFaults

----------------------------------------------------------------------------
(* The curves drawn from the samples: where the offset of the zone does not  *)
(* change, no sample is left out of its curve.                                *)

(* Without a change of the clock every local day begins at a local midnight.  *)
LEMMA DayBegins ==
    ASSUME Instants = Int, NEW z \in Int, \A t \in Int : Offset[t] = z, NEW ts \in Int
    PROVE  DayStart(ts) = ((ts + z) \div DAY_MS) * DAY_MS - z
<1> DEFINE d == ((ts + z) \div DAY_MS) * DAY_MS
<1>1. d \in Int
  BY DEF DAY_MS, HOUR_MS
<1>2. LocalDay(ts) * DAY_MS = d
  BY DEF LocalDay
<1>3. DayStart(ts) = CHOOSE m \in Int : m + z = d
  BY <1>2 DEF DayStart
<1> HIDE DEF d
<1>4. \A m \in Int : m + z = d <=> m = d - z
  BY <1>1
<1>5. (CHOOSE m \in Int : m + z = d) = d - z
  <2>1. d - z \in Int /\ (d - z) + z = d
    BY <1>1
  <2> DEFINE c == CHOOSE m \in Int : m + z = d
  <2>2. c \in Int /\ c + z = d
    BY <2>1
  <2> HIDE DEF c
  <2>3. c = d - z
    BY <2>2, <1>4
  <2> QED
    BY <2>3 DEF c
<1> QED
  BY <1>3, <1>5 DEF d

(* A bucket is a step wide, begins no later than its samples, and its begin   *)
(* is a number of whole steps away from the local midnight of day 0.          *)
LEMMA BucketAligned ==
    ASSUME Instants = Int, NEW z \in Int, \A t \in Int : Offset[t] = z, NEW ts \in Int,
           NEW bucket \in Buckets
    PROVE  \E n \in Int : /\ BucketStart(ts, bucket) = n * Step(bucket) - z
                          /\ n * Step(bucket) - z <= ts
                          /\ ts < n * Step(bucket) - z + Step(bucket)
<1> DEFINE day == (ts + z) \div DAY_MS
<1>1. day \in Int /\ day * DAY_MS - z <= ts /\ ts < day * DAY_MS - z + DAY_MS
  BY DEF DAY_MS, HOUR_MS
<1>2. DayStart(ts) = day * DAY_MS - z
  BY DayBegins
<1> HIDE DEF day
<1>3. CASE bucket = "day"
  BY <1>1, <1>2, <1>3 DEF BucketStart, Step
<1>4. CASE bucket = "hour"
  <2> DEFINE hour == (ts - (day * DAY_MS - z)) \div HOUR_MS
  <2>1. /\ hour \in Int
        /\ hour * HOUR_MS <= ts - (day * DAY_MS - z)
        /\ ts - (day * DAY_MS - z) < hour * HOUR_MS + HOUR_MS
    BY <1>1 DEF DAY_MS, HOUR_MS
  <2>2. BucketStart(ts, bucket) = day * DAY_MS - z + hour * HOUR_MS
    BY <1>2, <1>4 DEF BucketStart
  <2> HIDE DEF hour
  <2>3. day * DAY_MS + hour * HOUR_MS = (24 * day + hour) * HOUR_MS
    BY <1>1, <2>1 DEF DAY_MS, HOUR_MS
  <2>4. 24 * day + hour \in Int /\ Step(bucket) = HOUR_MS
    BY <1>1, <1>4, <2>1 DEF Step
  <2>5. /\ BucketStart(ts, bucket) = (24 * day + hour) * HOUR_MS - z
        /\ (24 * day + hour) * HOUR_MS - z <= ts
        /\ ts < (24 * day + hour) * HOUR_MS - z + HOUR_MS
    BY <1>1, <2>1, <2>2, <2>3 DEF DAY_MS, HOUR_MS
  <2> QED
    BY <2>4, <2>5
<1> QED
  BY <1>3, <1>4 DEF Buckets

(* What CurveComplete asks for, one sample at a time: in a zone whose offset  *)
(* never changes every sample of the range has its bucket in the series, by   *)
(* the hour and by the day (bucketSeries, bucketStart).                       *)
THEOREM EverySampleHasItsBucket ==
    ASSUME Instants = Int, NEW z \in Int, \A t \in Int : Offset[t] = z,
           NEW bucket \in Buckets, NEW from \in Int, NEW to \in Int,
           NEW ts \in Int, from <= ts, ts < to
    PROVE  BucketStart(ts, bucket) \in BucketSeries(from, to, bucket)
<1> DEFINE step == Step(bucket)
<1>1. step = 3600000 \/ step = 86400000
  BY DEF Step, Buckets, HOUR_MS, DAY_MS
<1>2. PICK a \in Int : /\ BucketStart(from, bucket) = a * step - z
                       /\ a * step - z <= from
                       /\ from < a * step - z + step
  BY BucketAligned
<1>3. PICK b \in Int : /\ BucketStart(ts, bucket) = b * step - z
                       /\ b * step - z <= ts
                       /\ ts < b * step - z + step
  BY BucketAligned
<1> DEFINE start == a * step - z
<1>4. BucketSeries(from, to, bucket)
        = {start + k * step : k \in 0..((to - 1 - start) \div step)}
  BY <1>2 DEF BucketSeries
<1> HIDE DEF step
<1>5. b - a >= 0
  BY <1>1, <1>2, <1>3
<1>6. b * step - z = start + (b - a) * step
  BY <1>1
<1>7. (b - a) * step <= to - 1 - start
  BY <1>1, <1>3, <1>6
<1>8. b - a <= (to - 1 - start) \div step
  BY <1>1, <1>5, <1>7
<1>9. b - a \in 0..((to - 1 - start) \div step)
  BY <1>1, <1>5, <1>8
<1> QED
  BY <1>3, <1>4, <1>6, <1>9
=============================================================================
