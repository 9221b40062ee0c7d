--------------------------- MODULE ClashSubsProofs ---------------------------
(* Proved of ClashSubs, for any links, tokens, labels and lifetime of a       *)
(* subscription: what a row names, that the names of an answer differ, and    *)
(* that nobody can tell when, or whether, the clean-up runs (TimedSubs).      *)
EXTENDS ClashSubs, FiniteSetTheorems, TLAPS

Rows == [ids : Seq(Links), ends : Nat]

(* The types the proofs need, and those of the runs.  A row that has an end   *)
(* was written for a drawn token.                                             *)
IInv ==
    /\ subs \in [Tokens -> Rows]
    /\ answer.names \in Seq(Names)
    /\ TypeOK
    /\ NamesDiffer

Serving == {l \in Links : Serves(l)}

----------------------------------------------------------------------------
(* Induction, in the form the provers can use: a set of numbers has a least   *)
(* element.                                                                   *)
LEMMA Least ==
    ASSUME NEW T \in SUBSET Nat, T # {}
    PROVE  \E m \in T : \A k \in T : m <= k
<1> DEFINE Below == {0..k : k \in T}
           R == StrictSubsetOrdering(Nat)
<1>1. Below \subseteq FiniteSubsetsOf(Nat)
  <2>1. \A k \in T : IsFiniteSet(0..k) /\ 0..k \in SUBSET Nat
    BY FS_Interval
  <2> QED BY <2>1 DEF FiniteSubsetsOf
<1>2. IsWellFoundedOn(R, FiniteSubsetsOf(Nat))
  BY FS_StrictSubsetOrderingWellFounded
<1>3. PICK B \in Below : \A C \in Below : ~(<<C, B>> \in R)
  <2>1. Below # {}
    OBVIOUS
  <2> HIDE DEF Below, R
  <2> QED BY <1>1, <1>2, <2>1, WFMin
<1>4. PICK m \in T : B = 0..m
  OBVIOUS
<1>5. ASSUME NEW k \in T, k < m PROVE FALSE
  <2>1. 0..k \subseteq 0..m /\ 0..k # 0..m
    BY <1>5
  <2>2. 0..k \in SUBSET Nat /\ 0..m \in SUBSET Nat
    OBVIOUS
  <2>3. <<0..k, 0..m>> \in R
    BY <2>1, <2>2, Zenon DEF StrictSubsetOrdering
  <2>4. 0..k \in Below
    OBVIOUS
  <2> HIDE DEF Below, R
  <2> QED BY <1>3, <1>4, <2>3, <2>4
<1> QED BY <1>5

----------------------------------------------------------------------------
(* Sequences in which nothing occurs twice.                                   *)
LEMMA AppendOne ==
    ASSUME NEW S, NEW s \in Seq(S), NEW e \in S
    PROVE  /\ Append(s, e) \in Seq(S)
           /\ Len(Append(s, e)) = Len(s) + 1
           /\ \A i \in 1..Len(s) : Append(s, e)[i] = s[i]
           /\ Append(s, e)[Len(s) + 1] = e
OBVIOUS

LEMMA InjectiveMore ==
    ASSUME NEW S, NEW s \in Seq(S), NEW e \in S, IsInjective(s), ~Contains(s, e)
    PROVE  IsInjective(Append(s, e))
<1> DEFINE n == Len(s)
<1> PICK t : t = Append(s, e)
  OBVIOUS
<1>1. /\ t \in Seq(S) /\ Len(t) = n + 1 /\ n \in Nat
      /\ \A i \in 1..n : t[i] = s[i]
      /\ t[n + 1] = e
  BY AppendOne
<1>2. \A i \in 1..n : s[i] # e
  BY DEF Contains
<1>3. \A i, j \in 1..n : s[i] = s[j] => i = j
  BY DEF IsInjective
<1>4. DOMAIN t = 1..(n + 1)
  BY <1>1
<1> HIDE DEF n
<1>5. ASSUME NEW i \in 1..(n + 1), NEW j \in 1..(n + 1), t[i] = t[j] PROVE i = j
  BY <1>1, <1>2, <1>3, <1>5
<1> QED BY <1>4, <1>5 DEF IsInjective

----------------------------------------------------------------------------
(* Accepted and OnlyThose.                                                    *)
Taking(f, ids, S, m) ==
    f = [i \in 0..m |->
            IF i = 0 THEN <<>>
            ELSE IF ids[i] \in S /\ ~Contains(f[i - 1], ids[i])
            THEN Append(f[i - 1], ids[i]) ELSE f[i - 1]]

LEMMA TakingRuns ==
    ASSUME NEW ids, NEW S, NEW m \in Nat
    PROVE  \E f : Taking(f, ids, S, m)
<1> DEFINE T == {k \in Nat : ~ \E f : Taking(f, ids, S, k)}
<1> SUFFICES ASSUME T # {} PROVE FALSE
  OBVIOUS
<1>1. PICK k \in T : \A j \in T : k <= j
  BY Least
<1>2. k # 0
  <2>1. Taking([i \in 0..0 |-> <<>>], ids, S, 0)
    BY DEF Taking
  <2> QED BY <2>1
<1>3. PICK g : Taking(g, ids, S, k - 1)
  BY <1>1, <1>2
<1> DEFINE next == IF ids[k] \in S /\ ~Contains(g[k - 1], ids[k])
                   THEN Append(g[k - 1], ids[k]) ELSE g[k - 1]
           h == [i \in 0..k |-> IF i = k THEN next ELSE g[i]]
<1>4. Taking(h, ids, S, k)
  <2> DEFINE step(f, i) ==
                IF i = 0 THEN <<>>
                ELSE IF ids[i] \in S /\ ~Contains(f[i - 1], ids[i])
                THEN Append(f[i - 1], ids[i]) ELSE f[i - 1]
  <2>1. g = [i \in 0..(k - 1) |-> step(g, i)]
    BY <1>3 DEF Taking
  <2>2. ASSUME NEW i \in 0..k PROVE h[i] = step(h, i)
    <3>1. i # 0 => h[i - 1] = g[i - 1]
      BY <1>2
    <3>2. step(h, i) = step(g, i)
      BY <3>1
    <3>3. i = k => h[i] = step(g, i)
      BY <1>2
    <3>4. CASE i # k
      <4>1. i \in 0..(k - 1) /\ h[i] = g[i]
        BY <3>4
      <4>2. \A x \in 0..(k - 1) : g[x] = step(g, x)
        BY <2>1
      <4> HIDE DEF step, h
      <4> QED BY <3>2, <4>1, <4>2
    <3> QED BY <3>2, <3>3, <3>4
  <2>3. h = [i \in 0..k |-> step(h, i)]
    BY <2>2
  <2> QED BY <2>3 DEF Taking
<1> QED BY <1>4

(* What is accepted is a list of known links without repetition, not longer   *)
(* than the request.                                                          *)
LEMMA AcceptedFacts ==
    ASSUME NEW D, NEW ids \in Seq(D), NEW S
    PROVE  /\ Accepted(ids, S) \in Seq(S \cap D)
           /\ Len(Accepted(ids, S)) <= Len(ids)
           /\ IsInjective(Accepted(ids, S))
<1> DEFINE f == CHOOSE f : Taking(f, ids, S, Len(ids))
<1>1. Taking(f, ids, S, Len(ids))
  BY TakingRuns
<1>2. Accepted(ids, S) = f[Len(ids)]
  BY Zenon DEF Accepted, Taking
<1> DEFINE Good(i) == f[i] \in Seq(S \cap D) /\ Len(f[i]) <= i /\ IsInjective(f[i])
           T == {i \in 0..Len(ids) : ~Good(i)}
<1> HIDE DEF f
<1> SUFFICES ASSUME T # {} PROVE FALSE
  BY <1>2
<1>3. PICK i \in T : \A j \in T : i <= j
  <2>1. T \in SUBSET Nat
    OBVIOUS
  <2> HIDE DEF T
  <2> QED BY <2>1, Least
<1>4. i # 0
  <2>1. f[0] = <<>>
    BY <1>1 DEF Taking
  <2>2. IsInjective(<<>>) /\ <<>> \in Seq(S \cap D) /\ Len(<<>>) = 0
    BY DEF IsInjective
  <2>3. Good(0)
    BY <2>1, <2>2
  <2> HIDE DEF Good
  <2> QED BY <1>3, <2>3
<1>5. i - 1 \in 0..Len(ids) /\ Good(i - 1)
  BY <1>3, <1>4
<1>6. f[i] = IF ids[i] \in S /\ ~Contains(f[i - 1], ids[i])
             THEN Append(f[i - 1], ids[i]) ELSE f[i - 1]
  BY <1>1, <1>3, <1>4 DEF Taking
<1>7. PICK s : s = f[i - 1]
  OBVIOUS
<1>8. s \in Seq(S \cap D) /\ Len(s) <= i - 1 /\ IsInjective(s)
  BY <1>5, <1>7
<1>9. CASE ids[i] \in S /\ ~Contains(s, ids[i])
  <2>1. PICK e : e = ids[i]
    OBVIOUS
  <2>2. e \in S \cap D /\ ~Contains(s, e)
    BY <1>3, <1>4, <1>9, <2>1
  <2>3. Append(s, e) \in Seq(S \cap D) /\ Len(Append(s, e)) <= i /\ IsInjective(Append(s, e))
    BY <1>3, <1>8, <2>2, AppendOne, InjectiveMore
  <2> QED BY <1>3, <1>6, <1>7, <1>9, <2>1, <2>3
<1>10. CASE ~(ids[i] \in S /\ ~Contains(s, ids[i]))
  BY <1>3, <1>6, <1>7, <1>8, <1>10
<1> QED BY <1>9, <1>10

Keeping(f, ids, S, m) ==
    f = [i \in 0..m |->
            IF i = 0 THEN <<>>
            ELSE IF ids[i] \in S THEN Append(f[i - 1], ids[i]) ELSE f[i - 1]]

LEMMA KeepingRuns ==
    ASSUME NEW ids, NEW S, NEW m \in Nat
    PROVE  \E f : Keeping(f, ids, S, m)
<1> DEFINE T == {k \in Nat : ~ \E f : Keeping(f, ids, S, k)}
<1> SUFFICES ASSUME T # {} PROVE FALSE
  OBVIOUS
<1>1. PICK k \in T : \A j \in T : k <= j
  BY Least
<1>2. k # 0
  <2>1. Keeping([i \in 0..0 |-> <<>>], ids, S, 0)
    BY DEF Keeping
  <2> QED BY <2>1
<1>3. PICK g : Keeping(g, ids, S, k - 1)
  BY <1>1, <1>2
<1> DEFINE next == IF ids[k] \in S THEN Append(g[k - 1], ids[k]) ELSE g[k - 1]
           h == [i \in 0..k |-> IF i = k THEN next ELSE g[i]]
<1>4. Keeping(h, ids, S, k)
  <2> DEFINE step(f, i) ==
                IF i = 0 THEN <<>>
                ELSE IF ids[i] \in S
                THEN Append(f[i - 1], ids[i]) ELSE f[i - 1]
  <2>1. g = [i \in 0..(k - 1) |-> step(g, i)]
    BY <1>3 DEF Keeping
  <2>2. ASSUME NEW i \in 0..k PROVE h[i] = step(h, i)
    <3>1. i # 0 => h[i - 1] = g[i - 1]
      BY <1>2
    <3>2. step(h, i) = step(g, i)
      BY <3>1
    <3>3. i = k => h[i] = step(g, i)
      BY <1>2
    <3>4. CASE i # k
      <4>1. i \in 0..(k - 1) /\ h[i] = g[i]
        BY <3>4
      <4>2. \A x \in 0..(k - 1) : g[x] = step(g, x)
        BY <2>1
      <4> HIDE DEF step, h
      <4> QED BY <3>2, <4>1, <4>2
    <3> QED BY <3>2, <3>3, <3>4
  <2>3. h = [i \in 0..k |-> step(h, i)]
    BY <2>2
  <2> QED BY <2>3 DEF Keeping
<1> QED BY <1>4

LEMMA OnlyThoseFacts ==
    ASSUME NEW D, NEW ids \in Seq(D), NEW S
    PROVE  OnlyThose(ids, S) \in Seq(D)
<1> DEFINE f == CHOOSE f : Keeping(f, ids, S, Len(ids))
<1>1. Keeping(f, ids, S, Len(ids))
  BY KeepingRuns
<1>2. OnlyThose(ids, S) = f[Len(ids)]
  BY Zenon DEF OnlyThose, Keeping
<1> DEFINE T == {i \in 0..Len(ids) : f[i] \notin Seq(D)}
<1> HIDE DEF f
<1> SUFFICES ASSUME T # {} PROVE FALSE
  BY <1>2
<1>3. PICK i \in T : \A j \in T : i <= j
  <2>1. T \in SUBSET Nat
    OBVIOUS
  <2> HIDE DEF T
  <2> QED BY <2>1, Least
<1>4. i # 0
  <2>1. f[0] = <<>>
    BY <1>1 DEF Keeping
  <2>2. f[0] \in Seq(D)
    BY <2>1
  <2> QED BY <1>3, <2>2
<1>5. f[i - 1] \in Seq(D) /\ ids[i] \in D
  BY <1>3, <1>4
<1>6. f[i] = IF ids[i] \in S THEN Append(f[i - 1], ids[i]) ELSE f[i - 1]
  BY <1>1, <1>3, <1>4 DEF Keeping
<1>7. f[i] \in Seq(D)
  <2>1. PICK s \in Seq(D) : s = f[i - 1]
    BY <1>5
  <2>2. PICK e \in D : e = ids[i]
    BY <1>5
  <2>3. Append(s, e) \in Seq(D)
    OBVIOUS
  <2> QED BY <1>6, <2>1, <2>2, <2>3
<1> QED BY <1>3, <1>7

----------------------------------------------------------------------------
(* The names of the nodes.                                                    *)

(* Numbers behind one name make different names.                              *)
LEMMA NumbersTell ==
    ASSUME NEW raw \in Names, NEW j \in Nat, NEW k \in Nat,
           Append(raw, j) = Append(raw, k)
    PROVE  j = k
<1>1. raw \in Seq(Words \cup Nat) /\ j \in Words \cup Nat /\ k \in Words \cup Nat
  BY DEF Names
<1>2. Append(raw, j)[Len(raw) + 1] = j /\ Append(raw, k)[Len(raw) + 1] = k
  BY <1>1
<1> QED BY <1>2

(* Among one more number than there are names, one makes a name nobody has:   *)
(* the loop that looks for it ends.                                           *)
LEMMA FreeExists ==
    ASSUME NEW raw \in Names, NEW n \in Nat, NEW used \in Seq(Names)
    PROVE  \E k \in (n + 1)..(n + Len(used) + 1) : ~Contains(used, Append(raw, k))
<1> DEFINE Tried == (n + 1)..(n + Len(used) + 1)
           place == [k \in Tried |-> CHOOSE i \in 1..Len(used) : used[i] = Append(raw, k)]
<1> SUFFICES ASSUME \A k \in Tried : Contains(used, Append(raw, k)) PROVE FALSE
  OBVIOUS
<1>1. Len(used) \in Nat
  OBVIOUS
<1>2. \A k \in Tried : place[k] \in 1..Len(used) /\ used[place[k]] = Append(raw, k)
  BY DEF Contains
<1>3. place \in [Tried -> 1..Len(used)]
  BY <1>2
<1>4. IsFiniteSet(Tried) /\ Cardinality(Tried) = Len(used) + 1
  <2>1. PICK a \in Int, b \in Int : a = n + 1 /\ b = n + Len(used) + 1
    BY <1>1
  <2>2. IsFiniteSet(a..b) /\ Cardinality(a..b) = IF a > b THEN 0 ELSE b - a + 1
    BY FS_Interval
  <2> QED BY <1>1, <2>1, <2>2
<1>5. IsFiniteSet(1..Len(used)) /\ Cardinality(1..Len(used)) = Len(used)
  <2>1. PICK b \in Nat : b = Len(used)
    BY <1>1
  <2>2. IsFiniteSet(1..b) /\ Cardinality(1..b) = IF 1 > b THEN 0 ELSE b - 1 + 1
    BY FS_Interval
  <2> QED BY <2>1, <2>2
<1>6. Cardinality(1..Len(used)) < Cardinality(Tried)
  BY <1>1, <1>4, <1>5
<1> HIDE DEF place
<1>7. PICK j, k \in Tried : j # k /\ place[j] = place[k]
  <2> HIDE DEF Tried
  <2> QED BY <1>3, <1>4, <1>5, <1>6, FS_PigeonHole
<1>8. Append(raw, j) = Append(raw, k)
  BY <1>2, <1>7
<1>9. j \in Nat /\ k \in Nat
  BY <1>7
<1> QED BY <1>7, <1>8, <1>9, NumbersTell

LEMMA FreeNumberFacts ==
    ASSUME NEW raw \in Names, NEW n \in Nat, NEW used \in Seq(Names)
    PROVE  /\ FreeNumber(raw, n, used) \in Nat
           /\ ~Contains(used, Append(raw, FreeNumber(raw, n, used)))
<1> DEFINE Tried == (n + 1)..(n + Len(used) + 1)
           Free(k) == ~Contains(used, Append(raw, k))
           T == {k \in Tried : Free(k)}
<1>1. T \in SUBSET Nat /\ T # {}
  <2>1. \E k \in Tried : Free(k)
    BY FreeExists
  <2>2. Tried \subseteq Nat
    OBVIOUS
  <2> HIDE DEF Free, Tried
  <2> QED BY <2>1, <2>2
<1>2. PICK k \in T : \A j \in T : k <= j
  <2> HIDE DEF T
  <2> QED BY <1>1, Least
<1>3. \A j \in (n + 1)..(k - 1) : ~Free(j)
  <2> SUFFICES ASSUME NEW j \in (n + 1)..(k - 1), Free(j) PROVE FALSE
    OBVIOUS
  <2> HIDE DEF Free
  <2>1. Len(used) \in Nat
    OBVIOUS
  <2>2. j \in T
    BY <1>2, <2>1
  <2> QED BY <1>2, <2>2
<1>4. \E m \in Tried : Free(m) /\ \A j \in (n + 1)..(m - 1) : Contains(used, Append(raw, j))
  BY <1>2, <1>3
<1>5. /\ FreeNumber(raw, n, used) \in Tried
      /\ Free(FreeNumber(raw, n, used))
  BY <1>4 DEF FreeNumber
<1> QED BY <1>5

(* One turn of the loop.                                                      *)
Acc == [out : {s \in Seq(Names) : IsInjective(s)}, last : SUBSET (Names \X Nat)]

LEMMA NamedFacts ==
    ASSUME NEW acc \in Acc, NEW raw \in Names
    PROVE  Named(acc, raw) \in Acc
<1>1. PICK out \in Seq(Names), last \in SUBSET (Names \X Nat) :
          acc = [out |-> out, last |-> last] /\ IsInjective(out)
  BY DEF Acc
<1>2. acc.out = out /\ acc.last = last
  BY <1>1
<1>3. CASE ~Contains(out, raw)
  <2>1. Append(out, raw) \in Seq(Names) /\ IsInjective(Append(out, raw))
    BY <1>1, <1>3, AppendOne, InjectiveMore
  <2>2. {p \in last : p[1] # raw} \cup {<<raw, 1>>} \in SUBSET (Names \X Nat)
    OBVIOUS
  <2>3. Named(acc, raw) = [out |-> Append(out, raw),
                           last |-> {p \in last : p[1] # raw} \cup {<<raw, 1>>}]
    BY <1>2, <1>3 DEF Named
  <2> QED BY <2>1, <2>2, <2>3 DEF Acc
<1>4. CASE Contains(out, raw)
  <2> DEFINE had == {p[2] : p \in {q \in last : q[1] = raw}}
             from == IF had = {} THEN 1 ELSE CHOOSE k \in had : TRUE
  <2>1. from \in Nat
    <3>1. had \subseteq Nat
      OBVIOUS
    <3> HIDE DEF had
    <3> QED BY <3>1
  <2>2. PICK n : n = FreeNumber(raw, from, out)
    OBVIOUS
  <2>3. Named(acc, raw) = [out |-> Append(out, Append(raw, n)),
                           last |-> {p \in last : p[1] # raw} \cup {<<raw, n>>}]
    BY <1>2, <1>4, <2>2 DEF Named
  <2> HIDE DEF from
  <2>4. n \in Nat /\ ~Contains(out, Append(raw, n))
    BY <2>1, <2>2, FreeNumberFacts
  <2>5. Append(raw, n) \in Names
    <3>1. raw \in Seq(Words \cup Nat) /\ n \in Words \cup Nat
      BY <2>4 DEF Names
    <3>2. Append(raw, n) \in Seq(Words \cup Nat)
      BY <3>1
    <3> QED BY <3>2 DEF Names
  <2>6. PICK name \in Names : name = Append(raw, n)
    BY <2>5
  <2>7. Append(out, name) \in Seq(Names) /\ IsInjective(Append(out, name))
    BY <1>1, <2>4, <2>6, AppendOne, InjectiveMore
  <2>8. {p \in last : p[1] # raw} \cup {<<raw, n>>} \in SUBSET (Names \X Nat)
    BY <2>4
  <2> QED BY <2>3, <2>6, <2>7, <2>8 DEF Acc
<1> QED BY <1>3, <1>4

Naming(f, names, m) ==
    f = [i \in 0..m |-> IF i = 0 THEN [out |-> <<>>, last |-> {}]
                        ELSE Named(f[i - 1], names[i])]

LEMMA NamingRuns ==
    ASSUME NEW names, NEW m \in Nat
    PROVE  \E f : Naming(f, names, m)
<1> DEFINE T == {k \in Nat : ~ \E f : Naming(f, names, k)}
<1> SUFFICES ASSUME T # {} PROVE FALSE
  OBVIOUS
<1>1. PICK k \in T : \A j \in T : k <= j
  BY Least
<1>2. k # 0
  <2>1. Naming([i \in 0..0 |-> [out |-> <<>>, last |-> {}]], names, 0)
    BY DEF Naming
  <2> QED BY <2>1
<1>3. PICK g : Naming(g, names, k - 1)
  BY <1>1, <1>2
<1> DEFINE h == [i \in 0..k |-> IF i = k THEN Named(g[k - 1], names[k]) ELSE g[i]]
<1>4. Naming(h, names, k)
  <2> DEFINE none == [out |-> <<>>, last |-> {}]
             step(f, i) == IF i = 0 THEN none ELSE Named(f[i - 1], names[i])
  <2>1. g = [i \in 0..(k - 1) |-> step(g, i)]
    BY <1>3 DEF Naming
  <2> HIDE DEF none
  <2>2. \A i \in 0..k : h[i] = step(h, i)
    BY <1>1, <1>2, <2>1
  <2>3. h = [i \in 0..k |-> step(h, i)]
    BY <2>2
  <2> QED BY <2>3 DEF Naming, none
<1> QED BY <1>4

(* Whatever the links are called, the names of the nodes differ.              *)
LEMMA DedupeFacts ==
    ASSUME NEW names \in Seq(Names)
    PROVE  DedupeNodeNames(names) \in Seq(Names) /\ IsInjective(DedupeNodeNames(names))
<1> DEFINE f == CHOOSE f : Naming(f, names, Len(names))
<1>1. Naming(f, names, Len(names))
  BY NamingRuns
<1>2. DedupeNodeNames(names) = f[Len(names)].out
  BY Zenon DEF DedupeNodeNames, Naming
<1> DEFINE T == {i \in 0..Len(names) : f[i] \notin Acc}
<1> HIDE DEF f
<1> SUFFICES ASSUME T # {} PROVE FALSE
  <2>1. f[Len(names)] \in Acc
    OBVIOUS
  <2> QED BY <1>2, <2>1 DEF Acc
<1>3. PICK i \in T : \A j \in T : i <= j
  <2>1. T \in SUBSET Nat
    OBVIOUS
  <2> HIDE DEF T
  <2> QED BY <2>1, Least
<1>4. i # 0
  <2>1. f[0] = [out |-> <<>>, last |-> {}]
    BY <1>1 DEF Naming
  <2>2. f[0] \in Acc
    BY <2>1 DEF Acc, IsInjective
  <2> QED BY <2>2
<1>5. f[i - 1] \in Acc /\ names[i] \in Names
  BY <1>3, <1>4
<1>6. f[i] = Named(f[i - 1], names[i])
  BY <1>1, <1>3, <1>4 DEF Naming
<1> QED BY <1>3, <1>5, <1>6, NamedFacts

----------------------------------------------------------------------------
(* The invariant.                                                             *)

LEMMA Numbers == IInv => now \in Nat /\ \A t \in Tokens : subs[t].ends \in Nat
BY DEF IInv, TypeOK, Rows

LEMMA InitInv == Init => IInv
<1> SUFFICES ASSUME Init PROVE IInv
  OBVIOUS
<1>1. subs \in [Tokens -> Rows] /\ \A t \in Tokens : ~HasRow(t)
  BY DEF Init, NoRow, Rows, HasRow
<1>2. answer.names = <<>>
  BY DEF Init, NoAnswer
<1>3. TypeOK
  BY <1>1, SubsAssumption DEF Init, TypeOK
<1> QED BY <1>1, <1>2, <1>3 DEF IInv, NamesDiffer, IsInjective

(* What a step leaves alone: a row stays what it was or is gone, and a link   *)
(* that has been created once stays so.                                       *)
LEMMA RowsStay ==
    ASSUME IInv, subs' \in [Tokens -> Rows],
           \A t \in Tokens : subs'[t] = subs[t] \/ subs'[t] = NoRow,
           \A l \in Links : status[l] # "fresh" => status'[l] # "fresh",
           drawn' = drawn, answer' = NoAnswer \/ answer'.names = answer.names,
           now' \in 1..MaxTime,
           status' \in [Links -> {"fresh", "active", "down", "gone"}],
           expires' \in [Links -> Lifetimes \cup {Permanent}]
    PROVE  IInv'
<1>1. answer'.names \in Seq(Names) /\ IsInjective(answer'.names)
  <2>1. NoAnswer.names = <<>> /\ <<>> \in Seq(Names) /\ IsInjective(<<>>)
    BY DEF NoAnswer, IsInjective
  <2> QED BY <2>1 DEF IInv, NamesDiffer
<1>2. ASSUME NEW t \in Tokens, HasRow(t)'
      PROVE  /\ t \in drawn'
             /\ Len(subs'[t].ids) \in 1..MaxLinks
             /\ IsInjective(subs'[t].ids)
             /\ \A l \in ToSet(subs'[t].ids) : status'[l] # "fresh"
             /\ subs'[t].ends \in (1 + TTL)..(MaxTime + TTL)
  <2>1. subs'[t] = subs[t] /\ HasRow(t)
    BY <1>2 DEF HasRow, NoRow
  <2>2. subs[t].ids \in Seq(Links)
    BY DEF IInv, Rows
  <2>3. ToSet(subs[t].ids) \subseteq Links
    BY <2>2 DEF ToSet
  <2> QED BY <2>1, <2>3 DEF IInv, TypeOK
<1>3. TypeOK'
  BY <1>2 DEF IInv, TypeOK
<1> QED BY <1>1, <1>3 DEF IInv, NamesDiffer

LEMMA LinkMovesInv ==
    ASSUME IInv, NEW l \in Links, LinkIssued(l) \/ LinkMoves(l) \/ LinkExtended(l)
    PROVE  IInv'
<1>1. /\ now' = now /\ drawn' = drawn /\ subs' = subs /\ answer' = NoAnswer
  BY DEF LinkIssued, LinkMoves, LinkExtended
<1>2. status' = status \/ \E to \in {"active", "down", "gone"} :
                             status' = [status EXCEPT ![l] = to]
  BY DEF LinkIssued, LinkMoves, LinkExtended
<1>3. expires' \in [Links -> Lifetimes \cup {Permanent}]
  BY DEF LinkIssued, LinkMoves, LinkExtended, IInv, TypeOK
<1>4. /\ status' \in [Links -> {"fresh", "active", "down", "gone"}]
      /\ \A k \in Links : status[k] # "fresh" => status'[k] # "fresh"
  BY <1>2 DEF IInv, TypeOK
<1>5. subs' \in [Tokens -> Rows] /\ now' \in 1..MaxTime
  BY <1>1 DEF IInv, TypeOK
<1> QED BY <1>1, <1>3, <1>4, <1>5, RowsStay

LEMMA TickInv == IInv /\ Tick => IInv'
<1> SUFFICES ASSUME IInv, Tick PROVE IInv'
  OBVIOUS
<1>1. /\ now' = now + 1 /\ now < MaxTime /\ answer' = NoAnswer
      /\ UNCHANGED <<status, expires, drawn, subs>>
  BY DEF Tick, links
<1>2. now' \in 1..MaxTime
  BY <1>1, SubsAssumption DEF IInv, TypeOK
<1>3. /\ subs' \in [Tokens -> Rows]
      /\ status' \in [Links -> {"fresh", "active", "down", "gone"}]
      /\ expires' \in [Links -> Lifetimes \cup {Permanent}]
  BY <1>1 DEF IInv, TypeOK
<1> QED BY <1>1, <1>2, <1>3, RowsStay

LEMMA CleanUpInv == IInv /\ CleanUp => IInv'
<1> SUFFICES ASSUME IInv, CleanUp PROVE IInv'
  OBVIOUS
<1>1. /\ subs' = [t \in Tokens |-> IF Overdue(t) THEN NoRow ELSE subs[t]]
      /\ answer' = NoAnswer /\ UNCHANGED <<now, status, expires, drawn>>
  BY DEF CleanUp, links
<1>2. NoRow \in Rows
  BY DEF NoRow, Rows
<1>3. subs' \in [Tokens -> Rows]
  BY <1>1, <1>2 DEF IInv
<1>4. /\ now' \in 1..MaxTime
      /\ status' \in [Links -> {"fresh", "active", "down", "gone"}]
      /\ expires' \in [Links -> Lifetimes \cup {Permanent}]
  BY <1>1 DEF IInv, TypeOK
<1>5. \A t \in Tokens : subs'[t] = subs[t] \/ subs'[t] = NoRow
  BY <1>1
<1> QED BY <1>1, <1>3, <1>4, <1>5, RowsStay

(* A new row names known links, each once, and no more than were asked for.   *)
LEMMA CreateInv ==
    ASSUME IInv, NEW t \in Tokens, NEW linkIds \in Seq(Links), Create(t, linkIds)
    PROVE  IInv'
<1>1. PICK ids : ids = Selected(linkIds)
  OBVIOUS
<1>2. /\ Len(linkIds) \in 1..MaxLinks /\ ids # <<>>
      /\ drawn' = drawn \cup {t}
      /\ subs' = [subs EXCEPT ![t] = [ids |-> ids, ends |-> now + TTL]]
      /\ answer' = NoAnswer /\ UNCHANGED <<now, status, expires>>
  BY <1>1 DEF Create, links
<1>3. /\ ids \in Seq(Known \cap Links)
      /\ Len(ids) <= Len(linkIds) /\ IsInjective(ids)
  BY <1>1, AcceptedFacts DEF Selected
<1>4. Known \cap Links = Known
  BY DEF Known
<1>5. ids \in Seq(Known) /\ ids \in Seq(Links)
  <2>1. Known \subseteq Links
    BY DEF Known
  <2> QED BY <1>3, <1>4, <2>1
<1>6. Len(ids) \in 1..MaxLinks
  BY <1>2, <1>3, <1>5, SubsAssumption
<1>7. \A l \in ToSet(ids) : status[l] # "fresh"
  <2>1. ToSet(ids) \subseteq Known
    BY <1>5 DEF ToSet
  <2> QED BY <2>1 DEF Known
<1>8. now + TTL \in (1 + TTL)..(MaxTime + TTL)
  BY SubsAssumption DEF IInv, TypeOK
<1>9. subs' \in [Tokens -> Rows]
  <2>1. [ids |-> ids, ends |-> now + TTL] \in Rows
    BY <1>5, <1>8, SubsAssumption DEF Rows
  <2> QED BY <1>2, <2>1 DEF IInv
<1>10. subs'[t] = [ids |-> ids, ends |-> now + TTL]
  BY <1>2 DEF IInv
<1>11. ASSUME NEW u \in Tokens, HasRow(u)'
       PROVE  /\ u \in drawn'
              /\ Len(subs'[u].ids) \in 1..MaxLinks
              /\ IsInjective(subs'[u].ids)
              /\ \A l \in ToSet(subs'[u].ids) : status'[l] # "fresh"
              /\ subs'[u].ends \in (1 + TTL)..(MaxTime + TTL)
  <2>1. CASE u = t
    BY <1>2, <1>3, <1>6, <1>7, <1>8, <1>10, <2>1
  <2>2. CASE u # t
    <3>1. subs'[u] = subs[u] /\ HasRow(u)
      BY <1>2, <1>11, <2>2 DEF IInv, HasRow
    <3> QED BY <1>2, <3>1 DEF IInv, TypeOK
  <2> QED BY <2>1, <2>2
<1>12. TypeOK'
  BY <1>2, <1>11 DEF IInv, TypeOK
<1>13. answer'.names = <<>> /\ <<>> \in Seq(Names)
  BY <1>2 DEF NoAnswer
<1>14. NamesDiffer'
  BY <1>13 DEF NamesDiffer, IsInjective
<1> QED BY <1>9, <1>12, <1>13, <1>14 DEF IInv

(* The names of an answer are those of the links that serve, told apart.      *)
LEMMA GetInv ==
    ASSUME IInv, NEW t \in Tokens, Get(t)
    PROVE  IInv'
<1>1. PICK live : live = Live(t)
  OBVIOUS
<1> DEFINE names == [i \in DOMAIN live |-> DisplayAlias(Label[live[i]])]
<1>2. UNCHANGED <<now, status, expires, drawn, subs>>
  BY DEF Get, links
<1>3. answer'.names = DedupeNodeNames(names)
  BY <1>1 DEF Get
<1>4. live \in Seq(Links)
  <2>1. subs[t].ids \in Seq(Links)
    BY DEF IInv, Rows
  <2>2. PICK ids \in Seq(Links) : ids = subs[t].ids
    BY <2>1
  <2>3. OnlyThose(ids, {l \in Links : Serves(l)}) \in Seq(Links)
    BY OnlyThoseFacts
  <2>4. <<>> \in Seq(Links)
    OBVIOUS
  <2> QED BY <1>1, <2>2, <2>3, <2>4 DEF Live
<1>5. \A l \in Links : DisplayAlias(Label[l]) \in Names
  <2>1. \A l \in Links : Label[l] \in [alias : Names, note : Names, id : Names]
    BY SubsAssumption
  <2> HIDE DEF Names
  <2> QED BY <2>1 DEF DisplayAlias
<1>6. names \in Seq(Names)
  <2>1. DOMAIN live = 1..Len(live) /\ Len(live) \in Nat /\ \A i \in 1..Len(live) : live[i] \in Links
    BY <1>4
  <2>2. names \in [1..Len(live) -> Names]
    BY <1>5, <2>1
  <2> HIDE DEF names
  <2> QED BY <2>1, <2>2
<1> HIDE DEF names
<1>7. answer'.names \in Seq(Names) /\ IsInjective(answer'.names)
  BY <1>3, <1>6, DedupeFacts
<1>8. TypeOK'
  BY <1>2 DEF IInv, TypeOK, HasRow
<1> QED BY <1>2, <1>7, <1>8 DEF IInv, NamesDiffer

LEMMA NextInv == IInv /\ [Next]_vars => IInv'
<1> SUFFICES ASSUME IInv, [Next]_vars PROVE IInv'
  OBVIOUS
<1>1. CASE UNCHANGED vars
  BY <1>1 DEF IInv, vars, TypeOK, HasRow, NamesDiffer
<1>2. Requests \subseteq Seq(Links)
  BY DEF Requests, BoundedSeq, SeqOf
<1> QED BY <1>1, <1>2, TickInv, GetInv, CreateInv, CleanUpInv, LinkMovesInv DEF Next

(* A row names between one and MaxLinks different links that existed, and it  *)
(* ends TTL after a moment of the clock (create of clashService.ts).          *)
THEOREM TypeCorrect == Spec => []TypeOK
<1>1. IInv => TypeOK
  BY DEF IInv
<1> QED BY <1>1, InitInv, NextInv, PTL DEF Spec

(* The names of the nodes of an answer differ pairwise, whatever names the    *)
(* users gave their links, names like those the code makes up included        *)
(* (dedupeNodeNames of clash.ts).                                             *)
THEOREM NamesAreDifferent == Spec => []NamesDiffer
<1>1. IInv => NamesDiffer
  BY DEF IInv
<1> QED BY <1>1, InitInv, NextInv, PTL DEF Spec

----------------------------------------------------------------------------
(* The refinement.                                                            *)
LEMMA InitMaps == Init => Promise!Init
BY SubsAssumption
   DEF Init, Promise!Init, openList, shown, NoRow, NoAnswer, Ended, Serves,
       Promise!Nothing, Promise!Silent

(* A step that moves no row and no list but by time is a step of the world.   *)
LEMMA WorldMaps ==
    ASSUME IInv, IInv', now' >= now, drawn' = drawn, answer' = NoAnswer,
           \A t \in Tokens : subs'[t] = subs[t] \/ (Ended(t) /\ subs'[t] = NoRow)
    PROVE  Promise!World
<1>1. Serving' \subseteq Links
  BY DEF Serving
<1>2. shown' = Promise!Silent
  BY DEF shown, NoAnswer, Promise!Silent
<1>3. ASSUME NEW t \in Tokens
      PROVE  openList'[t] = IF openList[t].ends > now' THEN openList[t]
                            ELSE Promise!Nothing
  <2>1. now \in Nat /\ now' \in Nat /\ subs[t].ends \in Nat
    BY DEF IInv, TypeOK, Rows
  <2>2. CASE Ended(t)
    <3>1. subs'[t].ends <= now'
      BY <2>1, <2>2 DEF Ended, NoRow
    <3> QED BY <2>1, <2>2, <3>1 DEF openList, Ended, NoRow, Promise!Nothing
  <2>3. CASE ~Ended(t)
    BY <2>1, <2>3 DEF openList, Ended, NoRow, Promise!Nothing
  <2> QED BY <2>2, <2>3
<1>4. openList' = [t \in Tokens |-> IF openList[t].ends > now' THEN openList[t]
                                    ELSE Promise!Nothing]
  BY <1>3 DEF openList
<1> QED BY <1>1, <1>2, <1>4 DEF Promise!World, Serving

LEMMA CreateMaps ==
    ASSUME IInv, NEW t \in Tokens, NEW linkIds, Create(t, linkIds)
    PROVE  Promise!Create(t)
<1> DEFINE row == [ids |-> Selected(linkIds), ends |-> now + TTL]
<1>1. /\ now' = now /\ status' = status /\ expires' = expires
      /\ t \notin drawn /\ drawn' = drawn \cup {t}
      /\ subs' = [subs EXCEPT ![t] = row]
      /\ answer' = NoAnswer /\ Selected(linkIds) # <<>>
  BY DEF Create, links
<1>2. subs'[t] = row /\ ~Ended(t)'
  <2>1. subs'[t] = row
    BY <1>1 DEF IInv
  <2>2. now \in Nat /\ TTL \in Nat \ {0}
    BY Numbers, SubsAssumption
  <2> QED BY <1>1, <2>1, <2>2 DEF Ended
<1>3. openList'[t] = row
  BY <1>2 DEF openList
<1>4. ASSUME NEW u \in Tokens, u # t PROVE openList'[u] = openList[u]
  BY <1>1, <1>4 DEF openList, Ended, IInv
<1>5. openList' = [openList EXCEPT ![t] = row]
  BY <1>3, <1>4 DEF openList
<1>6. openList'[t].ids # <<>> /\ row = [ids |-> openList'[t].ids, ends |-> now + TTL]
  BY <1>1, <1>3
<1>7. shown' = Promise!Silent
  BY <1>1 DEF shown, NoAnswer, Promise!Silent
<1>8. Serving' = Serving
  BY <1>1 DEF Serving, Serves
<1> HIDE DEF row
<1> QED BY <1>1, <1>5, <1>6, <1>7, <1>8 DEF Promise!Create, Serving

LEMMA GetMaps ==
    ASSUME IInv, NEW t \in Tokens, Get(t)
    PROVE  Promise!Get(t)
<1>1. /\ now' = now /\ status' = status /\ expires' = expires
      /\ drawn' = drawn /\ subs' = subs
  BY DEF Get, links
<1>2. Serving' = Serving /\ openList' = openList
  BY <1>1 DEF Serving, Serves, openList, Ended
<1>3. now \in Nat /\ subs[t].ends \in Nat
  BY Numbers
<1>4. Live(t) = Promise!Served(t)
  <2>1. CASE Ended(t)
    BY <1>3, <2>1 DEF Live, openList, NoRow, Ended, Promise!Served
  <2>2. CASE ~Ended(t)
    <3>1. /\ HasRow(t) /\ openList[t] = subs[t] /\ ~(openList[t].ends <= now)
      BY <1>3, <2>2 DEF openList, HasRow, Ended
    <3>2. OnlyThose(subs[t].ids, Serving) = Promise!OnlyThose(subs[t].ids, Serving)
      BY Zenon DEF OnlyThose, Promise!OnlyThose
    <3> QED BY <2>2, <3>1, <3>2 DEF Live, Serving, Promise!Served
  <2> QED BY <2>1, <2>2
<1>5. shown' = [token |-> t, nodes |-> Live(t)]
  BY DEF Get, shown
<1> QED BY <1>1, <1>2, <1>4, <1>5 DEF Promise!Get, Serving

LEMMA StepMaps == IInv /\ IInv' /\ [Next]_vars => [Promise!Next]_(Promise!vars)
<1> SUFFICES ASSUME IInv, IInv', [Next]_vars PROVE [Promise!Next]_(Promise!vars)
  OBVIOUS
<1>1. CASE UNCHANGED vars
  BY <1>1 DEF vars, Promise!vars, openList, shown, Ended, Serves
<1>2. CASE Tick
  <2>1. now' >= now
    BY <1>2, Numbers DEF Tick
  <2> QED BY <1>2, <2>1, WorldMaps DEF Tick, Promise!Next
<1>3. CASE CleanUp
  <2>1. now' >= now
    BY <1>3, Numbers DEF CleanUp
  <2>2. \A t \in Tokens : subs'[t] = subs[t] \/ (Ended(t) /\ subs'[t] = NoRow)
    BY <1>3 DEF CleanUp, Overdue, Ended
  <2> QED BY <1>3, <2>1, <2>2, WorldMaps DEF CleanUp, Promise!Next
<1>4. ASSUME NEW l \in Links, LinkIssued(l) \/ LinkMoves(l) \/ LinkExtended(l)
      PROVE  Promise!World
  <2>1. now' >= now
    BY <1>4, Numbers DEF LinkIssued, LinkMoves, LinkExtended
  <2> QED BY <1>4, <2>1, WorldMaps DEF LinkIssued, LinkMoves, LinkExtended
<1> QED BY <1>1, <1>2, <1>3, <1>4, CreateMaps, GetMaps DEF Next, Promise!Next

(* Spec implies ImplementsTimedSubs: a fetch is answered from the list as it  *)
(* was created, for exactly TTL, with the links that serve at that moment.    *)
THEOREM Pointers == Spec => ImplementsTimedSubs
<1>1. Spec => []IInv
  BY InitInv, NextInv, PTL DEF Spec
<1> QED BY <1>1, InitMaps, StepMaps, PTL DEF Spec, ImplementsTimedSubs, Promise!Spec
=============================================================================
