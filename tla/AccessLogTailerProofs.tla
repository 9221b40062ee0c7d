------------------------ MODULE AccessLogTailerProofs ------------------------
(* The access log collector never glues two lines, never forgets one and      *)
(* stores none twice that it still knows, for any log, chunk, batch, cap and  *)
(* number of rotations and faults.  The first two are about where the offset  *)
(* points: into the file that is there now (InStep), or beyond the end of a   *)
(* file that was cut, which the next stat notices (CutOff).  The third is     *)
(* about which part of the log may be read again, and when (Twice).           *)
EXTENDS AccessLogTailer, FiniteSetTheorems, SequenceTheorems, TLAPS

Whole(n) == <<2*n - 1, 2*n>>
Whole1 == {Whole(n) : n \in Lines}
LineTexts == Whole1 \cup {<<2*n>> : n \in Lines}
GenuineRows == {Genuine(n) : n \in Lines}
HalfLines == {<<>>} \cup {<<2*n - 1>> : n \in Lines}

(* The sorts of the state; TypeOK and RowsGenuine follow from it.             *)
Sorts ==
    /\ end \in 0..(2 * MaxLines) /\ base \in 0..end
    /\ cuts \in 0..MaxCuts /\ ino \in 1..(cuts + 1) /\ faults \in 0..MaxFaults
    /\ cut \in BOOLEAN
    /\ stat \in StatType /\ offset \in 0..(2 * MaxLines)
    /\ partial \in HalfLines
    /\ pending \in Seq(GenuineRows) /\ Len(pending) < Batch
    /\ seen \in Seq(GenuineRows) /\ Len(seen) <= SeenCap
    /\ poll \in [phase : {"idle", "read", "lines"}, cur : StatType, todo : Seq(LineTexts)]
    /\ rows \in Seq(GenuineRows)
    /\ excuse \in [Lines -> {"none", "history", "cut", "fault"}]
    /\ lapsed \subseteq Lines

(* What a poll under way knows, and what one that has not begun does not.     *)
Phases ==
    /\ stat.ino <= ino /\ poll.cur.ino <= ino
    /\ poll.phase # "idle" => stat # Unknown /\ poll.cur.ino > 0 /\ offset <= poll.cur.size
    /\ poll.phase # "lines" => poll.todo = <<>>
    /\ stat = Unknown => offset = 0 /\ partial = <<>>

(* The offset points into the file, and the half line ends there.             *)
InStep ==
    /\ offset <= end - base
    /\ partial # <<>> => offset > 0 /\ partial = <<base + offset>>

(* It points beyond the end of the file, and the next stat will tell.         *)
CutOff ==
    /\ cut
    /\ end - base < offset
    /\ ino # Known.ino \/ offset <= Known.size

Position == InStep \/ CutOff

(* A fingerprint is that of a stored row, or of one a fault took.             *)
Remembers == \A r \in ToSet(seen) : Contains(rows, r) \/ excuse[r.first] # "none"

(* Line n begins behind the offset, or at it with its first half in hand.     *)
Awaited(n) ==
    \/ offset <= end - base /\ (2*n - 1 > base + offset \/ partial = <<2*n - 1>>)
    \/ offset > end - base /\ 2*n - 1 > base

Covered ==
    stat # Unknown =>
        \A n \in Lines \ Noise :
            Stored(n) \/ InHand(n) \/ Awaited(n) \/ excuse[n] # "none"

IInv == Sorts /\ Phases /\ Position /\ Remembers /\ Covered

----------------------------------------------------------------------------
(* Induction, in the form the provers can use: a set of numbers has a least   *)
(* element.                                                                   *)
LEMMA Least ==
    ASSUME NEW T \in SUBSET Nat, T # {}
    PROVE  \E m \in T : \A k \in T : m <= k
<1> DEFINE Below == {0..k : k \in T}
           R == StrictSubsetOrdering(Nat)
<1>1. Below \subseteq FiniteSubsetsOf(Nat)
  <2>1. \A k \in T : IsFiniteSet(0..k) /\ 0..k \in SUBSET Nat
    BY FS_Interval
  <2> QED BY <2>1 DEF FiniteSubsetsOf
<1>2. IsWellFoundedOn(R, FiniteSubsetsOf(Nat))
  BY FS_StrictSubsetOrderingWellFounded
<1>3. PICK B \in Below : \A C \in Below : ~(<<C, B>> \in R)
  <2>1. Below # {}
    OBVIOUS
  <2> HIDE DEF Below, R
  <2> QED BY <1>1, <1>2, <2>1, WFMin
<1>4. PICK m \in T : B = 0..m
  OBVIOUS
<1>5. ASSUME NEW k \in T, k < m PROVE FALSE
  <2>1. 0..k \subseteq 0..m /\ 0..k # 0..m
    BY <1>5
  <2>2. 0..k \in SUBSET Nat /\ 0..m \in SUBSET Nat
    OBVIOUS
  <2>3. <<0..k, 0..m>> \in R
    BY <2>1, <2>2, Zenon DEF StrictSubsetOrdering
  <2>4. 0..k \in Below
    OBVIOUS
  <2> HIDE DEF Below, R
  <2> QED BY <1>3, <1>4, <2>3, <2>4
<1> QED BY <1>5

----------------------------------------------------------------------------
(* Units and lines.                                                           *)

LEMMA Halves ==
    ASSUME NEW u \in Units
    PROVE  \E n \in Lines : \/ u = 2*n - 1 /\ ~IsTail(u)
                            \/ u = 2*n /\ IsTail(u)
<1>1. MaxLines \in Nat
  BY TailerBounds
<1>2. PICK n \in Nat : u = 2*n \/ u = 2*n - 1
  <2>1. (u + 1) \div 2 \in Nat /\ (u = 2 * ((u + 1) \div 2) \/ u = 2 * ((u + 1) \div 2) - 1)
    BY <1>1 DEF Units
  <2> QED BY <2>1
<1>3. n \in Lines
  BY <1>1, <1>2 DEF Units, Lines
<1> QED BY <1>2, <1>3 DEF IsTail, Units, Lines

LEMMA LineOfUnits ==
    ASSUME NEW n \in Lines
    PROVE  /\ 2*n - 1 \in Units /\ 2*n \in Units
           /\ LineOf(2*n - 1) = n /\ LineOf(2*n) = n
           /\ ~IsTail(2*n - 1) /\ IsTail(2*n)
BY TailerBounds DEF Lines, Units, LineOf, IsTail

(* The state of split('\n') behind each unit of a text exists.                *)
SplitUpTo(f, text, m) ==
    f = [i \in 0..m |-> IF i = 0 THEN [lines |-> <<>>, rest |-> <<>>]
                        ELSE Fed(f[i - 1], text[i])]

LEMMA SplitRuns ==
    ASSUME NEW text, NEW m \in Nat
    PROVE  \E f : SplitUpTo(f, text, m)
<1> DEFINE T == {k \in Nat : ~ \E f : SplitUpTo(f, text, k)}
<1> SUFFICES ASSUME T # {} PROVE FALSE
  OBVIOUS
<1>1. PICK k \in T : \A j \in T : k <= j
  BY Least
<1>2. k # 0
  <2>1. SplitUpTo([i \in 0..0 |-> [lines |-> <<>>, rest |-> <<>>]], text, 0)
    BY DEF SplitUpTo
  <2> QED BY <2>1
<1>3. PICK g : SplitUpTo(g, text, k - 1)
  BY <1>1, <1>2
<1> DEFINE h == [i \in 0..k |-> IF i = k THEN Fed(g[k - 1], text[k]) ELSE g[i]]
<1>4. SplitUpTo(h, text, k)
  BY <1>1, <1>2, <1>3 DEF SplitUpTo
<1> QED BY <1>4

LEMMA SplitIsARun ==
    ASSUME NEW text, Len(text) \in Nat
    PROVE  \E f : SplitUpTo(f, text, Len(text)) /\ Split(text) = f[Len(text)]
<1> DEFINE f == CHOOSE f : SplitUpTo(f, text, Len(text))
<1>1. SplitUpTo(f, text, Len(text))
  BY SplitRuns
<1>2. Split(text) = f[Len(text)]
  BY Zenon DEF Split, SplitUpTo
<1> QED BY <1>1, <1>2

(* The whole lines among the texts lie between a and b, in their order.       *)
Between(lines, a, b) ==
    \A i \in DOMAIN lines, n \in Lines : lines[i] = Whole(n) =>
        /\ a <= 2*n - 1 /\ 2*n < b
        /\ \A j \in DOMAIN lines, m \in Lines : j < i /\ lines[j] = Whole(m) => m < n

(* What split has made of the units a .. b - 1.                               *)
CutUp(s, a, b) ==
    /\ s = [lines |-> s.lines, rest |-> s.rest]
    /\ s.lines \in Seq(LineTexts)
    /\ s.rest = IF b = a \/ IsTail(b - 1) THEN <<>> ELSE <<b - 1>>
    /\ \A n \in Lines : a <= 2*n - 1 /\ 2*n < b => Contains(s.lines, Whole(n))
    /\ Between(s.lines, a, b)

LEMMA WholeIsWhole ==
    /\ \A n, k \in Lines : Whole(n) = Whole(k) => n = k
    /\ \A n, k \in Lines : Whole(n) # <<2*k>>
<1>1. \A n \in Lines : Whole(n)[2] = 2*n /\ Len(Whole(n)) = 2 /\ Len(<<2*n>>) = 1
  BY DEF Whole
<1>2. Lines \subseteq Nat
  BY DEF Lines
<1>3. ASSUME NEW n \in Lines, NEW k \in Lines, Whole(n) = Whole(k) PROVE n = k
  <2>1. 2*n = 2*k
    BY <1>1, <1>3
  <2> QED BY <1>2, <2>1
<1>4. ASSUME NEW n \in Lines, NEW k \in Lines, Whole(n) = <<2*k>> PROVE FALSE
  BY <1>1, <1>4
<1> QED BY <1>3, <1>4

LEMMA AppendOne ==
    ASSUME NEW S, NEW x \in S, NEW y \in S
    PROVE  Append(<<x>>, y) = <<x, y>>
<1>1. <<x>> \in Seq(S) /\ Len(<<x>>) = 1 /\ <<x, y>> \in Seq(S) /\ Len(<<x, y>>) = 2
  OBVIOUS
<1>2. PICK one \in Seq(S) : one = <<x>> /\ Len(one) = 1 /\ one[1] = x
  BY <1>1
<1>3. PICK t \in Seq(S) : t = Append(one, y) /\ Len(t) = 2 /\ t[1] = x /\ t[2] = y
  <2>1. PICK t : t = Append(one, y)
    OBVIOUS
  <2>2. t \in Seq(S) /\ Len(t) = 2
    BY <1>2, <2>1
  <2>3. t[1] = x
    BY <1>2, <2>1
  <2>4. t[2] = y
    BY <1>2, <2>1
  <2> QED BY <2>1, <2>2, <2>3, <2>4
<1>4. PICK u \in Seq(S) : u = <<x, y>> /\ Len(u) = 2 /\ u[1] = x /\ u[2] = y
  BY <1>1
<1>5. \A i \in 1..Len(t) : t[i] = u[i]
  BY <1>3, <1>4
<1>6. t = u
  BY <1>3, <1>4, <1>5, SeqEqual
<1> QED BY <1>2, <1>3, <1>4, <1>6

LEMMA FedCutsUp ==
    ASSUME NEW a \in Units, NEW b \in Units, a <= b, NEW s, CutUp(s, a, b)
    PROVE  CutUp(Fed(s, b), a, b + 1)
<1> DEFINE line == Append(s.rest, b)
<1>0. a \in Nat /\ b \in Nat /\ Lines \subseteq Nat
  BY DEF Units, Lines
<1>1. PICK n \in Lines : (b = 2*n - 1 /\ ~IsTail(b)) \/ (b = 2*n /\ IsTail(b))
  BY Halves
<1>2. CASE b = 2*n /\ IsTail(b)
  <2>1. a # b => ~IsTail(b - 1)
    BY <1>2, LineOfUnits
  <2>2. line = IF a = b THEN <<2*n>> ELSE Whole(n)
    <3>1. CASE a = b
      <4>1. s.rest = <<>>
        BY <3>1 DEF CutUp
      <4> QED BY <1>2, <3>1, <4>1
    <3>2. CASE a # b
      <4>1. s.rest = <<b - 1>>
        BY <2>1, <3>2 DEF CutUp
      <4>2. PICK x \in Int : x = b - 1
        BY <1>0
      <4>3. Append(<<x>>, b) = <<x, b>>
        <5>1. b \in Int
          BY <1>0
        <5> QED BY <5>1, AppendOne
      <4>4. line = <<b - 1, b>>
        BY <4>1, <4>2, <4>3
      <4> QED BY <1>2, <3>2, <4>4 DEF Whole
    <3> QED BY <3>1, <3>2
  <2>3. line \in LineTexts
    BY <2>2 DEF LineTexts, Whole1
  <2>4. Fed(s, b) = [lines |-> Append(s.lines, line), rest |-> <<>>]
    BY <1>2 DEF Fed
  <2> DEFINE l2 == Append(s.lines, line)
  <2>5. l2 \in Seq(LineTexts) /\ Len(l2) = Len(s.lines) + 1 /\ l2[Len(l2)] = line
        /\ \A i \in 1..Len(s.lines) : l2[i] = s.lines[i]
    BY <2>3 DEF CutUp
  <2>6. ASSUME NEW k \in Lines, a <= 2*k - 1, 2*k < b + 1
        PROVE  Contains(l2, Whole(k))
    <3>1. CASE 2*k < b
      <4>1. PICK i \in DOMAIN s.lines : s.lines[i] = Whole(k)
        BY <2>6, <3>1 DEF CutUp, Contains
      <4>2. i \in 1..Len(s.lines) /\ Len(s.lines) \in Nat /\ DOMAIN l2 = 1..Len(l2)
        BY <2>5 DEF CutUp
      <4> HIDE DEF l2
      <4> QED BY <2>5, <4>1, <4>2 DEF Contains
    <3>2. CASE ~(2*k < b)
      <4>1. k = n /\ a # b
        BY <1>0, <1>2, <2>6, <3>2
      <4>2. l2[Len(l2)] = Whole(k) /\ Len(l2) \in DOMAIN l2
        BY <2>2, <2>5, <4>1 DEF CutUp
      <4> QED BY <4>2 DEF Contains
    <3> QED BY <3>1, <3>2
  <2>7. b + 1 # a /\ IsTail((b + 1) - 1)
    BY <1>0, <1>2
  <2>8. Between(l2, a, b + 1)
    <3>1. SUFFICES ASSUME NEW i \in DOMAIN l2, NEW k \in Lines, l2[i] = Whole(k)
                   PROVE  /\ a <= 2*k - 1 /\ 2*k < b + 1
                          /\ \A j \in DOMAIN l2, m \in Lines :
                                 j < i /\ l2[j] = Whole(m) => m < k
      BY DEF Between
    <3>2. PICK len \in Nat : len = Len(s.lines) /\ DOMAIN s.lines = 1..len
      BY DEF CutUp
    <3>3. DOMAIN l2 = 1..(len + 1) /\ l2[len + 1] = line /\ \A j \in 1..len : l2[j] = s.lines[j]
      BY <2>5, <3>2
    <3>4. Between(s.lines, a, b)
      BY DEF CutUp
    <3> HIDE DEF l2
    <3>5. CASE i \in 1..len
      <4>1. s.lines[i] = Whole(k)
        BY <3>1, <3>3, <3>5
      <4>2. /\ a <= 2*k - 1 /\ 2*k < b
            /\ \A j \in 1..len, m \in Lines : j < i /\ s.lines[j] = Whole(m) => m < k
        BY <3>2, <3>4, <3>5, <4>1 DEF Between
      <4>3. \A j \in 1..(len + 1) : j < i => j \in 1..len
        BY <3>5
      <4> QED BY <1>0, <3>3, <4>2, <4>3
    <3>6. CASE i \notin 1..len
      <4>1. i = len + 1
        BY <3>1, <3>2, <3>3, <3>6
      <4>2. Whole(k) = line
        BY <3>1, <3>3, <4>1
      <4>3. a # b /\ k = n
        BY <2>2, <4>2, WholeIsWhole
      <4>4. a <= 2*k - 1 /\ 2*k < b + 1
        BY <1>0, <1>2, <4>3
      <4>5. ASSUME NEW j \in DOMAIN l2, NEW m \in Lines, j < i, l2[j] = Whole(m)
            PROVE  m < k
        <5>1. j \in 1..len
          BY <3>2, <3>3, <4>1, <4>5
        <5>2. s.lines[j] = Whole(m)
          BY <3>3, <4>5, <5>1
        <5>3. 2*m < b
          BY <3>2, <3>4, <5>1, <5>2 DEF Between
        <5> QED BY <1>0, <1>2, <4>3, <5>3
      <4> QED BY <4>4, <4>5
    <3> QED BY <3>5, <3>6
  <2> QED BY <2>4, <2>5, <2>6, <2>7, <2>8 DEF CutUp
<1>3. CASE b = 2*n - 1 /\ ~IsTail(b)
  <2>1. a = b \/ IsTail(b - 1)
    <3>1. CASE a # b
      <4>1. b - 1 = 2*(n - 1) /\ n - 1 \in Nat
        BY <1>0, <1>3 DEF Lines
      <4> QED BY <4>1 DEF IsTail
    <3> QED BY <3>1
  <2>2. s.rest = <<>>
    BY <2>1 DEF CutUp
  <2>3. Fed(s, b) = [lines |-> s.lines, rest |-> <<b>>]
    BY <1>3, <2>2 DEF Fed
  <2>4. \A k \in Lines : 2*k < b + 1 => 2*k < b
    BY <1>0, <1>3
  <2>5. b + 1 # a /\ ~IsTail((b + 1) - 1) /\ (b + 1) - 1 = b
    BY <1>0, <1>3
  <2>6. Between(s.lines, a, b + 1)
    BY <1>0 DEF Between, CutUp
  <2> QED BY <2>3, <2>4, <2>5, <2>6 DEF CutUp
<1> QED BY <1>1, <1>2, <1>3

(* split('\n') of consecutive units.                                          *)
LEMMA SplitCutsUp ==
    ASSUME NEW a \in Nat \ {0}, NEW m \in Nat, a + m - 1 <= 2 * MaxLines,
           NEW text \in Seq(Units), Len(text) = m,
           \A i \in 1..m : text[i] = a + i - 1
    PROVE  CutUp(Split(text), a, a + m)
<1>1. PICK f : SplitUpTo(f, text, m) /\ Split(text) = f[m]
  BY SplitIsARun
<1> DEFINE T == {i \in 0..m : ~CutUp(f[i], a, a + i)}
<1> SUFFICES ASSUME T # {} PROVE FALSE
  BY <1>1
<1>2. PICK i \in T : \A j \in T : i <= j
  <2>1. T \in SUBSET Nat
    OBVIOUS
  <2> HIDE DEF T
  <2> QED BY <2>1, Least
<1>3. CASE i = 0
  <2>1. f[0] = [lines |-> <<>>, rest |-> <<>>]
    BY <1>1 DEF SplitUpTo
  <2>2. \A n \in Lines : ~(a <= 2*n - 1 /\ 2*n < a)
    BY DEF Lines
  <2>3. Between(<<>>, a, a + 0)
    BY DEF Between
  <2>4. CutUp(f[0], a, a + 0)
    BY <2>1, <2>2, <2>3 DEF CutUp
  <2> QED BY <1>2, <1>3, <2>4
<1>4. CASE i # 0
  <2>1. i - 1 \in 0..m /\ i - 1 \notin T
    BY <1>2, <1>4
  <2>2. CutUp(f[i - 1], a, a + i - 1)
    BY <2>1
  <2>3. f[i] = Fed(f[i - 1], a + i - 1)
    BY <1>1, <1>2, <1>4 DEF SplitUpTo
  <2>4. a \in Units /\ a + i - 1 \in Units /\ a <= a + i - 1
    BY <1>2, <1>4, TailerBounds DEF Units
  <2>5. CutUp(f[i], a, (a + i - 1) + 1)
    BY <2>2, <2>3, <2>4, FedCutsUp
  <2>6. (a + i - 1) + 1 = a + i
    BY <1>2
  <2> QED BY <1>2, <2>5, <2>6
<1> QED BY <1>3, <1>4

----------------------------------------------------------------------------
(* The fingerprints.                                                          *)

LEMMA RemoveFirstFacts ==
    ASSUME NEW S, NEW s \in Seq(S), NEW e
    PROVE  /\ RemoveFirst(s, e) \in Seq(S)
           /\ Len(RemoveFirst(s, e)) <= Len(s)
           /\ ToSet(RemoveFirst(s, e)) \subseteq ToSet(s)
<1>1. CASE ~ \E i \in 1..Len(s) : s[i] = e
  BY <1>1 DEF RemoveFirst
<1>2. CASE \E i \in 1..Len(s) : s[i] = e
  <2> DEFINE I == {i \in 1..Len(s) : s[i] = e}
             k == Min(I)
             t == SubSeq(s, 1, k - 1) \o SubSeq(s, k + 1, Len(s))
  <2>1. k \in 1..Len(s)
    <3>1. I \in SUBSET Nat /\ I # {}
      BY <1>2
    <3>2. \E m \in I : \A j \in I : m <= j
      BY <3>1, Least
    <3>3. k \in I
      BY <3>2 DEF Min
    <3> QED BY <3>3
  <2>2. RemoveFirst(s, e) = t
    BY <1>2, Zenon DEF RemoveFirst, SelectInSeq, RemoveAt
  <2> HIDE DEF k
  <2>3. /\ t \in Seq(S) /\ Len(t) = Len(s) - 1
        /\ \A i \in 1..Len(t) : t[i] = IF i < k THEN s[i] ELSE s[i + 1]
    <3>1. PICK u : u = SubSeq(s, 1, k - 1)
      OBVIOUS
    <3>2. PICK v : v = SubSeq(s, k + 1, Len(s))
      OBVIOUS
    <3>3. /\ u \in Seq(S) /\ Len(u) = k - 1
          /\ \A i \in 1..(k - 1) : u[i] = s[i]
      BY <2>1, <3>1
    <3>4. /\ v \in Seq(S) /\ Len(v) = Len(s) - k
          /\ \A i \in 1..(Len(s) - k) : v[i] = s[k + i]
      BY <2>1, <3>2
    <3>5. t = u \o v
      BY <3>1, <3>2
    <3>6. /\ u \o v \in Seq(S) /\ Len(u \o v) = Len(u) + Len(v)
          /\ \A i \in 1..Len(u \o v) :
                (u \o v)[i] = IF i <= Len(u) THEN u[i] ELSE v[i - Len(u)]
      BY <3>3, <3>4, ConcatProperties
    <3>7. Len(s) \in Nat
      OBVIOUS
    <3> HIDE DEF t
    <3>8. Len(t) = Len(s) - 1
      BY <2>1, <3>3, <3>4, <3>5, <3>6, <3>7
    <3>9. ASSUME NEW i \in 1..Len(t) PROVE t[i] = IF i < k THEN s[i] ELSE s[i + 1]
      BY <2>1, <3>3, <3>4, <3>5, <3>6, <3>7, <3>8
    <3> QED BY <3>5, <3>6, <3>8, <3>9
  <2> HIDE DEF t
  <2>4. ToSet(t) \subseteq ToSet(s)
    BY <2>1, <2>3 DEF ToSet
  <2> QED BY <2>2, <2>3, <2>4
<1> QED BY <1>1, <1>2

LEMMA RememberedFacts ==
    ASSUME NEW S, NEW s \in Seq(S), Len(s) <= SeenCap, NEW r \in S
    PROVE  /\ Remembered(s, r) \in Seq(S)
           /\ Len(Remembered(s, r)) <= SeenCap
           /\ ToSet(Remembered(s, r)) \subseteq ToSet(s) \cup {r}
<1> DEFINE w == RemoveFirst(s, r)
           t == Append(w, r)
<1>1. w \in Seq(S) /\ Len(w) <= Len(s) /\ ToSet(w) \subseteq ToSet(s)
  BY RemoveFirstFacts
<1>2. Remembered(s, r) = IF Len(t) > SeenCap THEN Tail(t) ELSE t
  BY DEF Remembered
<1> HIDE DEF w
<1>3. t \in Seq(S) /\ Len(t) = Len(w) + 1 /\ ToSet(t) \subseteq ToSet(s) \cup {r}
  BY <1>1 DEF ToSet
<1> HIDE DEF t
<1>4. SeenCap \in Nat \ {0}
  BY TailerBounds
<1>5. CASE Len(t) > SeenCap
  <2>1. Tail(t) \in Seq(S) /\ Len(Tail(t)) = Len(t) - 1
    BY <1>3, <1>4, <1>5
  <2>2. ToSet(Tail(t)) \subseteq ToSet(t)
    BY <1>3, <1>4, <1>5, <2>1 DEF ToSet
  <2> QED BY <1>1, <1>2, <1>3, <1>4, <1>5, <2>1, <2>2
<1>6. CASE ~(Len(t) > SeenCap)
  BY <1>1, <1>2, <1>3, <1>4, <1>6
<1> QED BY <1>5, <1>6

(* The fingerprints behind each row of a batch exist.                         *)
Remembering(f, batch, m) ==
    f = [i \in 0..m |-> IF i = 0 THEN seen ELSE Remembered(f[i - 1], batch[i])]

LEMMA RememberingRuns ==
    ASSUME NEW batch, NEW m \in Nat
    PROVE  \E f : Remembering(f, batch, m)
<1> DEFINE T == {k \in Nat : ~ \E f : Remembering(f, batch, k)}
<1> SUFFICES ASSUME T # {} PROVE FALSE
  OBVIOUS
<1>1. PICK k \in T : \A j \in T : k <= j
  BY Least
<1>2. k # 0
  <2>1. Remembering([i \in 0..0 |-> seen], batch, 0)
    BY DEF Remembering
  <2> QED BY <2>1
<1>3. PICK g : Remembering(g, batch, k - 1)
  BY <1>1, <1>2
<1> DEFINE h == [i \in 0..k |-> IF i = k THEN Remembered(g[k - 1], batch[k]) ELSE g[i]]
<1>4. Remembering(h, batch, k)
  BY <1>1, <1>2, <1>3 DEF Remembering
<1> QED BY <1>4

LEMMA RememberingIsARun ==
    ASSUME NEW batch, Len(batch) \in Nat
    PROVE  \E f : Remembering(f, batch, Len(batch)) /\ RememberedAll(batch) = f[Len(batch)]
<1> DEFINE f == CHOOSE f : Remembering(f, batch, Len(batch))
<1>1. Remembering(f, batch, Len(batch))
  BY RememberingRuns
<1>2. RememberedAll(batch) = f[Len(batch)]
  BY Zenon DEF RememberedAll, Remembering
<1> QED BY <1>1, <1>2

LEMMA RememberedAllFacts ==
    ASSUME NEW S, seen \in Seq(S), Len(seen) <= SeenCap, NEW batch \in Seq(S)
    PROVE  /\ RememberedAll(batch) \in Seq(S)
           /\ Len(RememberedAll(batch)) <= SeenCap
           /\ ToSet(RememberedAll(batch)) \subseteq ToSet(seen) \cup ToSet(batch)
<1> DEFINE Kept(s) == /\ s \in Seq(S) /\ Len(s) <= SeenCap
                      /\ ToSet(s) \subseteq ToSet(seen) \cup ToSet(batch)
<1>1. PICK f : Remembering(f, batch, Len(batch)) /\ RememberedAll(batch) = f[Len(batch)]
  BY RememberingIsARun
<1> DEFINE T == {i \in 0..Len(batch) : ~Kept(f[i])}
<1> SUFFICES ASSUME T # {} PROVE FALSE
  BY <1>1
<1>2. PICK i \in T : \A j \in T : i <= j
  <2>1. T \in SUBSET Nat
    OBVIOUS
  <2> HIDE DEF T
  <2> QED BY <2>1, Least
<1>3. i # 0
  <2>1. f[0] = seen
    BY <1>1 DEF Remembering
  <2> QED BY <2>1
<1>4. Kept(f[i - 1])
  BY <1>2, <1>3
<1>5. f[i] = Remembered(f[i - 1], batch[i])
  BY <1>1, <1>2, <1>3 DEF Remembering
<1>6. batch[i] \in S /\ batch[i] \in ToSet(batch)
  BY <1>2, <1>3 DEF ToSet
<1>7. Kept(f[i])
  <2>1. /\ Remembered(f[i - 1], batch[i]) \in Seq(S)
        /\ Len(Remembered(f[i - 1], batch[i])) <= SeenCap
        /\ ToSet(Remembered(f[i - 1], batch[i])) \subseteq ToSet(f[i - 1]) \cup {batch[i]}
    <3>1. PICK s : s = f[i - 1]
      OBVIOUS
    <3>2. PICK r \in S : r = batch[i]
      BY <1>6
    <3>3. s \in Seq(S) /\ Len(s) <= SeenCap
      BY <1>4, <3>1
    <3>4. /\ Remembered(s, r) \in Seq(S)
          /\ Len(Remembered(s, r)) <= SeenCap
          /\ ToSet(Remembered(s, r)) \subseteq ToSet(s) \cup {r}
      BY <3>3, RememberedFacts
    <3> QED BY <3>1, <3>2, <3>4
  <2> QED BY <1>4, <1>5, <1>6, <2>1
<1> QED BY <1>2, <1>7

----------------------------------------------------------------------------
(* The log.                                                                   *)

LEMMA Numbers ==
    ASSUME Sorts
    PROVE  /\ end \in Nat /\ base \in Nat /\ base <= end /\ end <= 2 * MaxLines
           /\ offset \in Nat /\ ino \in Nat /\ cuts \in Nat /\ faults \in Nat
           /\ stat.ino \in Nat /\ stat.size \in Nat
           /\ poll.cur.ino \in Nat /\ poll.cur.size \in Nat
           /\ Known.ino \in Nat /\ Known.size \in Nat
           /\ MaxLines \in Nat /\ Lines \subseteq Nat
BY TailerBounds DEF Sorts, StatType, Known, Lines

LEMMA XrayLogsInv == IInv /\ XrayLogs => IInv'
<1> SUFFICES ASSUME IInv, XrayLogs PROVE IInv'
  OBVIOUS
<1> USE Numbers DEF IInv
<1>1. Sorts'
  BY DEF Sorts, XrayLogs
<1>2. Phases'
  BY DEF Phases, XrayLogs
<1>3. Known' = Known
  BY DEF Known, XrayLogs
<1>4. InStep => InStep'
  BY DEF InStep, XrayLogs
<1>5. CutOff => CutOff'
  BY <1>3 DEF CutOff, XrayLogs
<1>6. Remembers'
  BY DEF Remembers, XrayLogs
<1>7. Covered'
  <2>1. \A n \in Lines : Awaited(n) => Awaited(n)'
    <3>1. /\ end' = end + 1 /\ base' = base /\ offset' = offset /\ partial' = partial
          /\ ~cut \/ offset = 0 \/ end + 1 - base < offset
      BY DEF XrayLogs
    <3>2. CASE InStep
      BY <3>1, <3>2 DEF Awaited, InStep
    <3>3. CASE CutOff
      BY <3>1, <3>3 DEF Awaited, CutOff
    <3> QED BY <3>2, <3>3 DEF Position
  <2>2. \A n \in Lines : (Stored(n) => Stored(n)') /\ (InHand(n) => InHand(n)')
    BY DEF Stored, InHand, XrayLogs
  <2> QED BY <2>1, <2>2 DEF Covered, XrayLogs
<1> QED BY <1>1, <1>2, <1>4, <1>5, <1>6, <1>7 DEF Position

(* What becomes of the lines that are excused.                                *)
LEMMA ExcusedFacts ==
    ASSUME Sorts, NEW S, NEW why \in {"history", "cut", "fault"}, Excused(S, why)
    PROVE  /\ excuse' \in [Lines -> {"none", "history", "cut", "fault"}]
           /\ \A n \in Lines : excuse[n] # "none" => excuse'[n] # "none"
           /\ \A n \in Lines : n \in S => excuse'[n] # "none"
BY DEF Sorts, Excused

LEMMA CutInv ==
    ASSUME IInv, NEW kind, Cut(kind)
    PROVE  IInv'
<1> USE Numbers DEF IInv
<1>1. cuts' = cuts + 1 /\ cuts' \in 0..MaxCuts
  <2>1. cuts' = cuts + 1 /\ cuts < MaxCuts
    BY DEF Cut
  <2> QED BY <2>1, TailerBounds DEF Sorts
<1>2. ino' \in {ino, ino + 1}
  BY DEF Cut
<1>3. /\ base' = end /\ end' = end /\ offset' = offset /\ partial' = partial
      /\ stat' = stat /\ poll' = poll /\ cut' = TRUE /\ rows' = rows /\ seen' = seen
      /\ pending' = pending /\ lapsed' = lapsed /\ faults' = faults
  BY DEF Cut
<1>4. /\ excuse' \in [Lines -> {"none", "history", "cut", "fault"}]
      /\ \A n \in Lines : excuse[n] # "none" => excuse'[n] # "none"
      /\ \A n \in Lines : n \in Unread => excuse'[n] # "none"
  BY ExcusedFacts DEF Cut
<1>5. Sorts'
  BY <1>1, <1>2, <1>3, <1>4 DEF Sorts
<1>6. Phases'
  BY <1>2, <1>3 DEF Phases
<1>7. Position'
  <2>1. Known' = Known
    BY <1>3 DEF Known
  <2>2. CASE offset = 0
    BY <1>3, <2>2 DEF Position, InStep, CutOff
  <2>3. CASE offset # 0
    <3>1. ino' = ino + 1 => ino' # Known.ino
      BY <1>2 DEF Known, Phases
    <3>2. ino' = ino /\ ino = Known.ino => offset <= Known.size
      <4>1. CASE poll.phase = "idle"
        <5>1. Noticeable'
          BY DEF Cut
        <5>2. stat # Unknown
          BY <2>3 DEF Phases
        <5> QED BY <1>3, <4>1, <5>1, <5>2 DEF Noticeable, StatStale, Known
      <4>2. CASE poll.phase # "idle"
        BY <4>2 DEF Phases, Known
      <4> QED BY <4>1, <4>2
    <3>3. CutOff'
      BY <1>2, <1>3, <2>1, <2>3, <3>1, <3>2 DEF CutOff
    <3> QED BY <3>3 DEF Position
  <2> QED BY <2>2, <2>3
<1>8. Remembers'
  <2>1. \A r \in ToSet(seen) : r.first \in Lines
    BY DEF Sorts, ToSet, GenuineRows, Genuine
  <2> QED BY <1>3, <1>4, <2>1 DEF Remembers
<1>9. Covered'
  <2>1. SUFFICES ASSUME NEW n \in Lines \ Noise, stat # Unknown
                 PROVE  Stored(n)' \/ InHand(n)' \/ Awaited(n)' \/ excuse'[n] # "none"
    BY <1>3 DEF Covered
  <2>2. Stored(n)' = Stored(n) /\ InHand(n)' = InHand(n)
    BY <1>3 DEF Stored, InHand
  <2>3. CASE n \in Unread
    BY <1>4, <2>3
  <2>4. CASE 2*n - 1 > end
    BY <1>3, <2>4 DEF Awaited
  <2> QED BY <2>2, <2>3, <2>4 DEF Unread
<1> QED BY <1>5, <1>6, <1>7, <1>8, <1>9

----------------------------------------------------------------------------
(* The stat of a poll.                                                        *)

LEMMA CurrentFacts ==
    ASSUME Sorts
    PROVE  /\ Current \in StatType /\ Current.ino = ino /\ Current.size = end - base
           /\ Current # Unknown
BY Numbers, TailerBounds DEF Sorts, Current, StatType, Unknown

LEMMA BaselineInv == IInv /\ Baseline => IInv'
<1> SUFFICES ASSUME IInv, Baseline PROVE IInv'
  OBVIOUS
<1> USE Numbers DEF IInv
<1>1. /\ base' = base /\ end' = end /\ ino' = ino /\ partial' = partial
      /\ offset' = end - base /\ stat' = Current /\ poll' = poll /\ cut' = FALSE
      /\ rows' = rows /\ seen' = seen /\ pending' = pending /\ lapsed' = lapsed
      /\ cuts' = cuts /\ faults' = faults /\ stat = Unknown /\ poll.phase = "idle"
  BY DEF Baseline
<1>2. /\ excuse' \in [Lines -> {"none", "history", "cut", "fault"}]
      /\ \A n \in Lines : excuse[n] # "none" => excuse'[n] # "none"
      /\ \A n \in Lines : n \in Unread => excuse'[n] # "none"
  BY ExcusedFacts DEF Baseline
<1>3. Current \in StatType /\ Current.ino = ino /\ Current # Unknown
  BY CurrentFacts
<1>4. Sorts'
  <2>1. offset' \in 0..(2 * MaxLines)
    BY <1>1
  <2>2. stat' \in StatType
    BY <1>1, <1>3
  <2> QED BY <1>1, <1>2, <2>1, <2>2 DEF Sorts
<1>5. Phases'
  BY <1>1, <1>3 DEF Phases
<1>6. partial = <<>>
  BY <1>1 DEF Phases
<1>7. Position'
  BY <1>1, <1>6 DEF Position, InStep
<1>8. Remembers'
  <2>1. \A r \in ToSet(seen) : r.first \in Lines
    BY DEF Sorts, ToSet, GenuineRows, Genuine
  <2> QED BY <1>1, <1>2, <2>1 DEF Remembers
<1>9. Covered'
  <2>1. SUFFICES ASSUME NEW n \in Lines \ Noise
                 PROVE  Stored(n)' \/ InHand(n)' \/ Awaited(n)' \/ excuse'[n] # "none"
    BY DEF Covered
  <2>2. Stored(n)' = Stored(n) /\ InHand(n)' = InHand(n)
    BY <1>1 DEF Stored, InHand
  <2>3. CASE 2*n - 1 > end
    BY <1>1, <2>3 DEF Awaited
  <2> QED BY <1>2, <2>2, <2>3 DEF Unread
<1> QED BY <1>4, <1>5, <1>7, <1>8, <1>9

LEMMA PollStatInv == IInv /\ PollStat => IInv'
<1> SUFFICES ASSUME IInv, PollStat PROVE IInv'
  OBVIOUS
<1> USE Numbers DEF IInv
<1>1. /\ base' = base /\ end' = end /\ ino' = ino /\ cut' = FALSE /\ excuse' = excuse
      /\ rows' = rows /\ seen' = seen /\ pending' = pending /\ lapsed' = lapsed
      /\ cuts' = cuts /\ faults' = faults /\ stat # Unknown /\ poll.phase = "idle"
  BY DEF PollStat
<1>2. /\ stat' = IF Replaced THEN Current ELSE stat
      /\ offset' = IF Replaced THEN 0 ELSE offset
      /\ partial' = IF Replaced THEN <<>> ELSE partial
  BY DEF PollStat, PartialDropped
<1>3. PICK p \in {"read", "lines"} : poll' = [phase |-> p, cur |-> Current, todo |-> <<>>]
  BY DEF PollStat
<1>4. /\ Current \in StatType /\ Current.ino = ino /\ Current.size = end - base
      /\ Current # Unknown
  BY CurrentFacts
<1>5. InStep \/ Replaced
  <2>1. CASE CutOff
    BY <1>1, <1>4, <2>1 DEF CutOff, Known, Replaced
  <2> QED BY <2>1 DEF Position
<1>6. Sorts'
  <2>1. poll' \in [phase : {"idle", "read", "lines"}, cur : StatType, todo : Seq(LineTexts)]
    BY <1>3, <1>4
  <2>2. stat' \in StatType /\ offset' \in 0..(2 * MaxLines) /\ partial' \in HalfLines
    BY <1>2, <1>4 DEF Sorts, HalfLines
  <2> QED BY <1>1, <2>1, <2>2 DEF Sorts
<1>7. InStep'
  BY <1>1, <1>2, <1>5 DEF InStep
<1>8. Phases'
  <2>1. offset' <= Current.size
    BY <1>1, <1>4, <1>7 DEF InStep
  <2>2. poll'.cur = Current /\ poll'.todo = <<>> /\ ino > 0
    BY <1>3 DEF Sorts
  <2>3. stat' # Unknown /\ stat'.ino <= ino
    BY <1>1, <1>2, <1>4 DEF Phases
  <2> QED BY <1>1, <1>4, <2>1, <2>2, <2>3 DEF Phases
<1>9. Remembers'
  BY <1>1 DEF Remembers
<1>10. Covered'
  <2>1. SUFFICES ASSUME NEW n \in Lines \ Noise
                 PROVE  Stored(n)' \/ InHand(n)' \/ Awaited(n)' \/ excuse'[n] # "none"
    BY DEF Covered
  <2>2. Stored(n)' = Stored(n)
    BY <1>1 DEF Stored
  <2>3. InHand(n) => InHand(n)'
    <3>1. poll.todo = <<>>
      BY <1>1 DEF Phases
    <3>2. ~Contains(poll.todo, <<2*n - 1, 2*n>>)
      BY <3>1 DEF Contains
    <3> QED BY <1>1, <3>2 DEF InHand
  <2>4. Awaited(n) => Awaited(n)'
    <3>1. CASE Replaced
      <4>1. partial = <<2*n - 1>> /\ offset <= end - base => 2*n - 1 > base
        <5>1. CASE InStep
          <6>1. <<2*n - 1>> # <<>>
            OBVIOUS
          <6>2. <<2*n - 1>> = <<base + offset>> => 2*n - 1 = base + offset
            OBVIOUS
          <6> QED BY <5>1, <6>1, <6>2 DEF InStep
        <5> QED BY <5>1 DEF Position, CutOff
      <4>2. Awaited(n) => 2*n - 1 > base
        BY <4>1 DEF Awaited
      <4> QED BY <1>1, <1>2, <3>1, <4>2 DEF Awaited
    <3>2. CASE ~Replaced
      BY <1>1, <1>2, <3>2 DEF Awaited
    <3> QED BY <3>1, <3>2
  <2> QED BY <1>1, <2>2, <2>3, <2>4 DEF Covered
<1> QED BY <1>6, <1>7, <1>8, <1>9, <1>10 DEF Position

(* A poll that ends before it kept its stat: the next one compares with the   *)
(* older stat, and where the offset points is as plain to it.                 *)
LEMMA BrokenOff ==
    ASSUME IInv, poll.phase # "idle", poll' = Idle, Noticeable',
           UNCHANGED <<file, stat, offset, partial>>
    PROVE  Phases' /\ Position'
<1> USE Numbers DEF IInv
<1>1. Phases'
  BY DEF Phases, Idle, Unknown, file
<1>2. ASSUME InStep PROVE Position'
  BY <1>2 DEF Position, InStep, file
<1>3. ASSUME CutOff PROVE Position'
  <2>1. Known' = stat /\ stat # Unknown /\ ino' = ino /\ poll'.phase = "idle"
    BY DEF Known, Idle, Phases, file
  <2>2. ino # stat.ino \/ offset <= stat.size
    BY <1>3, <2>1 DEF Noticeable, StatStale, CutOff, file
  <2> QED BY <1>3, <2>1, <2>2 DEF Position, CutOff, file
<1> QED BY <1>1, <1>2, <1>3 DEF Position

LEMMA OpenFailsInv == IInv /\ OpenFails => IInv'
<1> SUFFICES ASSUME IInv, OpenFails PROVE IInv'
  OBVIOUS
<1> USE Numbers DEF IInv
<1>1. /\ UNCHANGED <<file, stat, offset, partial>>
      /\ rows' = rows /\ seen' = seen /\ pending' = pending /\ lapsed' = lapsed
      /\ cuts' = cuts /\ excuse' = excuse /\ poll.phase = "read" /\ poll' = Idle
  BY DEF OpenFails
<1>2. faults' \in 0..MaxFaults
  <2>1. faults' = faults + 1 /\ faults < MaxFaults
    BY DEF OpenFails, Fault
  <2> QED BY <2>1, TailerBounds DEF Sorts
<1>3. Noticeable'
  BY DEF OpenFails
<1>4. Phases' /\ Position'
  BY <1>1, <1>3, BrokenOff
<1>5. Sorts'
  <2>1. Idle \in [phase : {"idle", "read", "lines"}, cur : StatType, todo : Seq(LineTexts)]
    BY TailerBounds DEF Idle, Unknown, StatType
  <2> QED BY <1>1, <1>2, <2>1 DEF Sorts, file
<1>6. Remembers'
  BY <1>1 DEF Remembers
<1>7. Covered'
  <2>1. \A n \in Lines : /\ Stored(n)' = Stored(n) /\ Awaited(n)' = Awaited(n)
    BY <1>1 DEF Stored, Awaited, file
  <2>2. \A n \in Lines : InHand(n) => InHand(n)'
    <3>1. poll.todo = <<>>
      BY <1>1 DEF Phases
    <3>2. \A n \in Lines : ~Contains(poll.todo, <<2*n - 1, 2*n>>)
      BY <3>1 DEF Contains
    <3> QED BY <1>1, <3>2 DEF InHand
  <2> QED BY <1>1, <2>1, <2>2 DEF Covered
<1> QED BY <1>4, <1>5, <1>6, <1>7

----------------------------------------------------------------------------
(* The read.                                                                  *)

Text == partial \o [i \in 1..Got |-> base + offset + i]

LEMMA GotFacts ==
    ASSUME Sorts, offset <= poll.cur.size
    PROVE  /\ Got \in Nat
           /\ offset <= end - base => offset + Got <= end - base
           /\ offset > end - base => Got = 0
           /\ offset + Got <= poll.cur.size
<1> USE Numbers
<1>1. Current.size = end - base
  BY CurrentFacts
<1>2. Want \in Nat /\ offset + Want <= poll.cur.size
  BY TailerBounds DEF Want, Smaller
<1> QED BY <1>1, <1>2 DEF Got, Smaller

(* The text of a read are consecutive units: those the offset moves over,     *)
(* after the half line before them.                                           *)
LEMMA TextFacts ==
    ASSUME Sorts, Position, offset <= poll.cur.size
    PROVE  \E a \in Nat \ {0}, m \in Nat :
              /\ a + m - 1 <= 2 * MaxLines
              /\ Text \in Seq(Units) /\ Len(Text) = m
              /\ \A i \in 1..m : Text[i] = a + i - 1
              /\ InStep => /\ a + m = base + offset + Got + 1
                           /\ a = IF partial = <<>> THEN base + offset + 1 ELSE base + offset
              /\ CutOff => IF partial = <<>> THEN m = 0 ELSE m = 1 /\ partial = <<a>>
<1> USE Numbers
<1> DEFINE chunk == [i \in 1..Got |-> base + offset + i]
<1>1. /\ Got \in Nat
      /\ offset <= end - base => offset + Got <= end - base
      /\ offset > end - base => Got = 0
  BY GotFacts
<1>2. chunk \in Seq(Units) /\ Len(chunk) = Got /\ \A i \in 1..Got : chunk[i] = base + offset + i
  <2>1. \A i \in 1..Got : base + offset + i \in Units
    BY <1>1 DEF Units
  <2>2. chunk \in [1..Got -> Units]
    BY <1>1, <2>1
  <2>3. chunk \in Seq(Units)
    BY <1>1, <2>2, SeqDef
  <2>4. Len(chunk) = Got
    BY <1>1, <2>2, <2>3, LenProperties
  <2> QED BY <2>3, <2>4
<1> HIDE DEF chunk
<1>3. Text = partial \o chunk
  BY DEF Text, chunk
<1>4. CASE partial = <<>>
  <2>1. Text = chunk
    BY <1>2, <1>3, <1>4, ConcatEmptySeq
  <2>2. CASE InStep
    <3>1. ~CutOff
      BY <2>2 DEF InStep, CutOff
    <3>2. base + offset + 1 \in Nat \ {0} /\ (base + offset + 1) + Got - 1 <= 2 * MaxLines
      <4>1. offset + Got <= end - base
        BY <1>1, <2>2 DEF InStep
      <4> QED BY <1>1, <4>1
    <3>3. \A i \in 1..Got : Text[i] = (base + offset + 1) + i - 1
      BY <1>1, <1>2, <2>1
    <3>4. (base + offset + 1) + Got = base + offset + Got + 1
      BY <1>1
    <3> QED BY <1>1, <1>2, <1>4, <2>1, <3>1, <3>2, <3>3, <3>4
  <2>3. CASE CutOff
    <3>1. Got = 0 /\ ~InStep
      BY <1>1, <2>3 DEF InStep, CutOff
    <3>2. 1 + 0 - 1 <= 2 * MaxLines
      OBVIOUS
    <3> QED BY <1>2, <1>4, <2>1, <3>1, <3>2
  <2> QED BY <2>2, <2>3 DEF Position
<1>5. CASE partial # <<>>
  <2>1. PICK n \in Lines : partial = <<2*n - 1>>
    BY <1>5 DEF Sorts, HalfLines
  <2>2. 2*n - 1 \in Units /\ partial \in Seq(Units) /\ Len(partial) = 1 /\ partial[1] = 2*n - 1
    BY <2>1, LineOfUnits
  <2>3. /\ Text \in Seq(Units) /\ Len(Text) = 1 + Got
        /\ \A i \in 1..(1 + Got) : Text[i] = IF i <= 1 THEN partial[i] ELSE chunk[i - 1]
    <3>1. /\ partial \o chunk \in Seq(Units) /\ Len(partial \o chunk) = Len(partial) + Len(chunk)
          /\ \A i \in 1..Len(partial) + Len(chunk) : (partial \o chunk)[i] =
                IF i <= Len(partial) THEN partial[i] ELSE chunk[i - Len(partial)]
      BY <1>2, <2>2, ConcatProperties
    <3> QED BY <1>1, <1>2, <1>3, <2>2, <3>1
  <2>4. CASE InStep
    <3>1. ~CutOff
      BY <2>4 DEF InStep, CutOff
    <3>2. base + offset = 2*n - 1
      BY <1>5, <2>2, <2>4 DEF InStep
    <3>3. base + offset \in Nat \ {0} /\ (base + offset) + (1 + Got) - 1 <= 2 * MaxLines
      <4>1. offset + Got <= end - base /\ offset > 0
        BY <1>1, <1>5, <2>4 DEF InStep
      <4> QED BY <1>1, <4>1
    <3>4. ASSUME NEW i \in 1..(1 + Got) PROVE Text[i] = (base + offset) + i - 1
      <4>1. CASE i <= 1
        BY <1>1, <2>2, <2>3, <3>2, <4>1
      <4>2. CASE i > 1
        <5>1. i - 1 \in 1..Got
          BY <1>1, <4>2
        <5> QED BY <1>1, <1>2, <2>3, <4>2, <5>1
      <4> QED BY <1>1, <4>1, <4>2
    <3>5. (base + offset) + (1 + Got) = base + offset + Got + 1 /\ 1 + Got \in Nat
      BY <1>1
    <3> QED BY <1>5, <2>3, <3>1, <3>3, <3>4, <3>5
  <2>5. CASE CutOff
    <3>1. Got = 0 /\ ~InStep
      BY <1>1, <2>5 DEF InStep, CutOff
    <3>2. 2*n - 1 \in Nat \ {0} /\ (2*n - 1) + 1 - 1 <= 2 * MaxLines
      BY <2>2 DEF Units
    <3>3. \A i \in 1..1 : Text[i] = (2*n - 1) + i - 1
      BY <2>2, <2>3, <3>1, <3>2
    <3>4. PICK a \in Nat \ {0} : a = 2*n - 1
      BY <3>2
    <3>5. a + 1 - 1 <= 2 * MaxLines /\ Len(Text) = 1 /\ \A i \in 1..1 : Text[i] = a + i - 1
      BY <1>1, <2>3, <3>1, <3>2, <3>3, <3>4
    <3> QED BY <1>5, <2>1, <2>3, <3>1, <3>4, <3>5
  <2> QED BY <2>4, <2>5 DEF Position
<1> QED BY <1>4, <1>5

LEMMA PollReadInv == IInv /\ PollRead => IInv'
<1> SUFFICES ASSUME IInv, PollRead PROVE IInv'
  OBVIOUS
<1> USE Numbers DEF IInv
<1>1. /\ base' = base /\ end' = end /\ ino' = ino /\ cut' = cut /\ excuse' = excuse
      /\ rows' = rows /\ seen' = seen /\ pending' = pending /\ lapsed' = lapsed
      /\ cuts' = cuts /\ faults' = faults /\ stat' = stat /\ poll.phase = "read"
      /\ offset' = offset + Got
      /\ partial' = Split(Text).rest
      /\ poll' = [poll EXCEPT !.phase = "lines", !.todo = Split(Text).lines]
  BY DEF PollRead, Text, OffsetAfter, file
<1>2. /\ Got \in Nat
      /\ offset <= end - base => offset + Got <= end - base
      /\ offset > end - base => Got = 0
      /\ offset + Got <= poll.cur.size
  BY <1>1, GotFacts DEF Phases
<1>3. PICK a \in Nat \ {0}, m \in Nat :
              /\ a + m - 1 <= 2 * MaxLines
              /\ Text \in Seq(Units) /\ Len(Text) = m
              /\ \A i \in 1..m : Text[i] = a + i - 1
              /\ InStep => /\ a + m = base + offset + Got + 1
                           /\ a = IF partial = <<>> THEN base + offset + 1 ELSE base + offset
              /\ CutOff => IF partial = <<>> THEN m = 0 ELSE m = 1 /\ partial = <<a>>
  BY <1>1, TextFacts DEF Phases
<1>4. CutUp(Split(Text), a, a + m)
  <2>1. PICK text \in Seq(Units) : text = Text
    BY <1>3
  <2>2. CutUp(Split(text), a, a + m)
    BY <1>3, <2>1, SplitCutsUp
  <2> QED BY <2>1, <2>2
<1> DEFINE lines == Split(Text).lines
<1>5. /\ lines \in Seq(LineTexts)
      /\ partial' = IF m = 0 \/ IsTail(a + m - 1) THEN <<>> ELSE <<a + m - 1>>
      /\ \A n \in Lines : a <= 2*n - 1 /\ 2*n < a + m => Contains(lines, Whole(n))
  <2>1. a + m = a <=> m = 0
    BY <1>3
  <2> QED BY <1>1, <1>4, <2>1 DEF CutUp
<1> HIDE DEF lines
<1>6. /\ poll'.phase = "lines" /\ poll'.cur = poll.cur /\ poll'.todo = lines
      /\ poll' \in [phase : {"idle", "read", "lines"}, cur : StatType, todo : Seq(LineTexts)]
  BY <1>1, <1>5 DEF Sorts, lines
<1>7. partial' \in HalfLines
  <2>1. CASE m = 0 \/ IsTail(a + m - 1)
    BY <1>5, <2>1 DEF HalfLines
  <2>2. CASE ~(m = 0 \/ IsTail(a + m - 1))
    <3>1. a + m - 1 \in Units
      BY <1>3, <2>2 DEF Units
    <3>2. PICK n \in Lines : a + m - 1 = 2*n - 1
      BY <2>2, <3>1, Halves
    <3> QED BY <1>5, <2>2, <3>2 DEF HalfLines
  <2> QED BY <2>1, <2>2
<1>8. Sorts'
  <2>1. offset' \in 0..(2 * MaxLines)
    <3>1. CASE offset <= end - base
      BY <1>1, <1>2, <3>1
    <3>2. CASE offset > end - base
      BY <1>1, <1>2, <3>2 DEF Sorts
    <3> QED BY <3>1, <3>2
  <2> QED BY <1>1, <1>6, <1>7, <2>1 DEF Sorts
<1>9. Phases'
  BY <1>1, <1>2, <1>6 DEF Phases
<1>10. Position'
  <2>1. CASE InStep
    <3>1. partial' # <<>> => partial' = <<base + offset + Got>> /\ offset + Got > 0
      <4>1. a + m - 1 = base + offset + Got /\ (m # 0 => offset + Got > 0)
        <5>1. a + m = base + offset + Got + 1
          BY <1>3, <2>1
        <5>2. CASE partial = <<>>
          <6>1. a = base + offset + 1
            BY <1>3, <2>1, <5>2
          <6> QED BY <1>2, <5>1, <6>1
        <5>3. CASE partial # <<>>
          <6>1. offset > 0
            BY <2>1, <5>3 DEF InStep
          <6> QED BY <1>2, <5>1, <6>1
        <5> QED BY <5>2, <5>3
      <4> QED BY <1>5, <4>1
    <3>2. base + (offset + Got) = base + offset + Got
      BY <1>2
    <3> QED BY <1>1, <1>2, <2>1, <3>1, <3>2 DEF Position, InStep
  <2>2. CASE CutOff
    <3>1. Known' = Known
      BY <1>1, <1>6 DEF Known
    <3>2. offset' = offset
      BY <1>1, <1>2, <2>2 DEF CutOff
    <3> QED BY <1>1, <2>2, <3>1, <3>2 DEF Position, CutOff
  <2> QED BY <2>1, <2>2 DEF Position
<1>11. Remembers'
  BY <1>1 DEF Remembers
<1>12. Covered'
  <2>1. SUFFICES ASSUME NEW n \in Lines \ Noise, stat # Unknown
                 PROVE  Stored(n)' \/ InHand(n)' \/ Awaited(n)' \/ excuse'[n] # "none"
    BY <1>1 DEF Covered
  <2>2. Stored(n)' = Stored(n)
    BY <1>1 DEF Stored
  <2>3. InHand(n) => InHand(n)'
    <3>1. poll.todo = <<>>
      BY <1>1 DEF Phases
    <3>2. ~Contains(poll.todo, <<2*n - 1, 2*n>>)
      BY <3>1 DEF Contains
    <3> QED BY <1>1, <3>2 DEF InHand
  <2>4. Awaited(n) => InHand(n)' \/ Awaited(n)'
    <3>1. CASE InStep
      <4>1. ASSUME Awaited(n) PROVE a <= 2*n - 1
        <5>1. CASE partial = <<2*n - 1>>
          <6>1. partial # <<>> /\ 2*n - 1 = base + offset
            BY <3>1, <5>1 DEF InStep
          <6> QED BY <1>3, <3>1, <6>1
        <5>2. CASE partial # <<2*n - 1>>
          BY <1>3, <3>1, <4>1, <5>2 DEF Awaited, InStep
        <5> QED BY <5>1, <5>2
      <4>2. a + m = base + offset + Got + 1 /\ offset' = offset + Got /\ offset' <= end' - base'
        BY <1>1, <1>2, <1>3, <3>1 DEF InStep
      <4>3. CASE 2*n < a + m
        BY <1>5, <1>6, <4>1, <4>3 DEF InHand, Whole
      <4>4. CASE 2*n - 1 >= a + m
        BY <1>1, <1>2, <4>2, <4>4 DEF Awaited
      <4>5. CASE 2*n = a + m
        <5>1. ASSUME Awaited(n) PROVE partial' = <<2*n - 1>>
          <6>1. a + m - 1 = 2*n - 1 /\ m # 0
            BY <4>1, <4>5, <5>1
          <6>2. ~IsTail(2*n - 1)
            BY LineOfUnits
          <6> QED BY <1>5, <6>1, <6>2
        <5> QED BY <4>2, <5>1 DEF Awaited
      <4> QED BY <1>2, <4>2, <4>3, <4>4, <4>5
    <3>2. CASE CutOff
      <4>1. offset' = offset /\ offset > end - base
        BY <1>1, <1>2, <3>2 DEF CutOff
      <4> QED BY <1>1, <4>1 DEF Awaited
    <3> QED BY <3>1, <3>2 DEF Position
  <2> QED BY <1>1, <2>1, <2>2, <2>3, <2>4 DEF Covered
<1> QED BY <1>8, <1>9, <1>10, <1>11, <1>12

----------------------------------------------------------------------------
(* The lines.                                                                 *)

LEMMA TodoFacts ==
    ASSUME Sorts, poll.todo # <<>>
    PROVE  /\ Head(poll.todo) \in LineTexts
           /\ Tail(poll.todo) \in Seq(LineTexts)
           /\ \A t : Contains(poll.todo, t) => t = Head(poll.todo) \/ Contains(Tail(poll.todo), t)
<1>1. PICK todo \in Seq(LineTexts) : todo = poll.todo
  BY DEF Sorts
<1>2. todo # <<>> /\ Len(todo) \in Nat \ {0}
  BY <1>1
<1>3. /\ Head(todo) = todo[1] /\ todo[1] \in LineTexts /\ Tail(todo) \in Seq(LineTexts)
      /\ Len(Tail(todo)) = Len(todo) - 1
      /\ \A i \in 1..(Len(todo) - 1) : Tail(todo)[i] = todo[i + 1]
  BY <1>2
<1>4. ASSUME NEW t, Contains(todo, t), t # todo[1] PROVE Contains(Tail(todo), t)
  <2>1. PICK i \in 1..Len(todo) : todo[i] = t
    BY <1>4 DEF Contains
  <2>2. i - 1 \in 1..(Len(todo) - 1) /\ Tail(todo)[i - 1] = t
    BY <1>2, <1>3, <1>4, <2>1
  <2> QED BY <1>2, <1>3, <2>2 DEF Contains
<1> QED BY <1>1, <1>3, <1>4

(* A text that parses is a whole line.                                        *)
LEMMA ParsedWhole ==
    ASSUME NEW t \in LineTexts, Parses(t)
    PROVE  \E n \in Lines : t = Whole(n) /\ RowOf(t) = Genuine(n) /\ n \notin Noise
<1>1. CASE t \in Whole1
  <2>1. PICK n \in Lines : t = Whole(n)
    BY <1>1 DEF Whole1
  <2>2. t[1] = 2*n - 1 /\ t[Len(t)] = 2*n
    BY <2>1 DEF Whole
  <2>3. LineOf(t[1]) = n /\ LineOf(t[Len(t)]) = n
    BY <2>2, LineOfUnits
  <2> QED BY <2>1, <2>3 DEF RowOf, Genuine, Parses
<1>2. CASE t \notin Whole1
  <2>1. PICK n \in Lines : t = <<2*n>>
    BY <1>2 DEF LineTexts
  <2>2. t[1] = 2*n
    BY <2>1
  <2>3. IsTail(t[1])
    BY <2>2, LineOfUnits
  <2> QED BY <2>3 DEF Parses
<1> QED BY <1>1, <1>2

LEMMA WholeParses ==
    ASSUME NEW n \in Lines, n \notin Noise
    PROVE  Parses(Whole(n)) /\ LineOf(Whole(n)[1]) = n /\ RowOf(Whole(n)) = Genuine(n)
<1>1. Whole(n)[1] = 2*n - 1 /\ Whole(n)[Len(Whole(n))] = 2*n
  BY DEF Whole
<1>2. LineOf(Whole(n)[1]) = n /\ LineOf(Whole(n)[Len(Whole(n))]) = n /\ ~IsTail(Whole(n)[1])
  BY <1>1, LineOfUnits
<1> QED BY <1>2 DEF Parses, RowOf, Genuine

LEMMA GenuineFacts ==
    /\ GenuineRows \subseteq Row
    /\ \A r \in GenuineRows : r.first \in Lines /\ r = Genuine(r.first) /\ r.first = r.last
BY DEF GenuineRows, Genuine, Row

(* A step in the middle of the lines moves neither the log nor the offset.    *)
LEMMA LinesStep ==
    ASSUME IInv, UNCHANGED <<file, stat, offset, partial>>, poll.phase = "lines",
           poll'.phase = "lines", poll'.cur = poll.cur, poll.todo # <<>>
    PROVE  Phases' /\ Position' /\ \A n \in Lines : Awaited(n)' = Awaited(n)
<1> USE Numbers DEF IInv
<1>1. Phases'
  BY DEF Phases, file
<1>2. Known' = Known
  BY DEF Known, file
<1>3. Position'
  BY <1>2 DEF Position, InStep, CutOff, file
<1>4. \A n \in Lines : Awaited(n)' = Awaited(n)
  BY DEF Awaited, file
<1> QED BY <1>1, <1>3, <1>4

LEMMA SkipLineInv == IInv /\ SkipLine => IInv'
<1> SUFFICES ASSUME IInv, SkipLine PROVE IInv'
  OBVIOUS
<1> USE Numbers DEF IInv
<1> DEFINE text == Head(poll.todo)
<1>1. /\ UNCHANGED <<file, stat, offset, partial>>
      /\ rows' = rows /\ seen' = seen /\ pending' = pending /\ lapsed' = lapsed
      /\ cuts' = cuts /\ faults' = faults /\ excuse' = excuse
      /\ poll.phase = "lines" /\ poll.todo # <<>>
      /\ poll' = [poll EXCEPT !.todo = Tail(@)]
      /\ ~Parses(text) \/ IsDuplicate(RowOf(text))
  BY DEF SkipLine
<1>2. /\ text \in LineTexts /\ Tail(poll.todo) \in Seq(LineTexts)
      /\ \A t : Contains(poll.todo, t) => t = text \/ Contains(Tail(poll.todo), t)
  BY <1>1, TodoFacts
<1> HIDE DEF text
<1>3. /\ poll'.phase = "lines" /\ poll'.cur = poll.cur /\ poll'.todo = Tail(poll.todo)
      /\ poll' \in [phase : {"idle", "read", "lines"}, cur : StatType, todo : Seq(LineTexts)]
  BY <1>1, <1>2 DEF Sorts
<1>4. Phases' /\ Position' /\ \A n \in Lines : Awaited(n)' = Awaited(n)
  BY <1>1, <1>3, LinesStep
<1>5. Sorts'
  BY <1>1, <1>3 DEF Sorts, file
<1>6. Remembers'
  BY <1>1 DEF Remembers
<1>7. Covered'
  <2>1. SUFFICES ASSUME NEW n \in Lines \ Noise, stat # Unknown
                 PROVE  Stored(n)' \/ InHand(n)' \/ Awaited(n)' \/ excuse'[n] # "none"
    BY <1>1 DEF Covered
  <2>2. Stored(n)' = Stored(n)
    BY <1>1 DEF Stored
  <2>3. CASE text = Whole(n)
    <3>1. Contains(seen, Genuine(n))
      BY <1>1, <2>3, WholeParses DEF IsDuplicate
    <3>2. Genuine(n) \in ToSet(seen) /\ Genuine(n).first = n
      BY <3>1 DEF Contains, ToSet, Genuine
    <3>3. Contains(rows, Genuine(n)) \/ excuse[n] # "none"
      BY <3>2 DEF Remembers
    <3> QED BY <1>1, <2>2, <3>3 DEF Stored
  <2>4. CASE text # Whole(n)
    <3>1. InHand(n) => InHand(n)'
      BY <1>1, <1>2, <1>3, <2>4 DEF InHand, Whole
    <3> QED BY <1>1, <1>4, <2>1, <2>2, <3>1 DEF Covered
  <2> QED BY <2>3, <2>4
<1> QED BY <1>4, <1>5, <1>6, <1>7

(* A flush: every row of the batch is stored or excused, and so is the row of *)
(* every fingerprint.                                                         *)
LEMMA FlushFacts ==
    ASSUME Sorts, Remembers, NEW batch \in Seq(GenuineRows), Flush(batch)
    PROVE  /\ pending' = <<>> /\ lapsed' \subseteq Lines
           /\ seen' \in Seq(GenuineRows) /\ Len(seen') <= SeenCap
           /\ rows' \in Seq(GenuineRows)
           /\ excuse' \in [Lines -> {"none", "history", "cut", "fault"}]
           /\ faults' \in 0..MaxFaults
           /\ \A n \in Lines : excuse[n] # "none" => excuse'[n] # "none"
           /\ \A n \in Lines : Stored(n) => Stored(n)'
           /\ \A n \in Lines :
                 Contains(batch, Genuine(n)) => Stored(n)' \/ excuse'[n] # "none"
           /\ Remembers'
<1> USE Numbers
<1>1. pending' = <<>> /\ seen' = RememberedAll(batch)
  BY DEF Flush
<1>2. /\ RememberedAll(batch) \in Seq(GenuineRows)
      /\ Len(RememberedAll(batch)) <= SeenCap
      /\ ToSet(RememberedAll(batch)) \subseteq ToSet(seen) \cup ToSet(batch)
  BY RememberedAllFacts DEF Sorts
<1> DEFINE Kept ==
              /\ rows' \in Seq(GenuineRows)
              /\ excuse' \in [Lines -> {"none", "history", "cut", "fault"}]
              /\ faults' \in 0..MaxFaults
              /\ \A n \in Lines : excuse[n] # "none" => excuse'[n] # "none"
              /\ \A r : Contains(rows, r) => Contains(rows', r)
              /\ \A r \in GenuineRows :
                    Contains(batch, r) => Contains(rows', r) \/ excuse'[r.first] # "none"
<1>3. ASSUME rows' = rows \o batch /\ UNCHANGED <<excuse, faults>>
      PROVE  Kept
  <2>1. PICK a \in Seq(GenuineRows) : a = rows
    BY DEF Sorts
  <2>2. /\ a \o batch \in Seq(GenuineRows) /\ Len(a \o batch) = Len(a) + Len(batch)
        /\ \A i \in 1..Len(a) + Len(batch) :
              (a \o batch)[i] = IF i <= Len(a) THEN a[i] ELSE batch[i - Len(a)]
    BY ConcatProperties
  <2>3. Len(a) \in Nat /\ Len(batch) \in Nat
    OBVIOUS
  <2> DEFINE both == a \o batch
  <2>4. \A i \in 1..Len(a) : i \in 1..Len(both) /\ both[i] = a[i]
    BY <2>2, <2>3
  <2>5. \A i \in 1..Len(batch) : Len(a) + i \in 1..Len(both) /\ both[Len(a) + i] = batch[i]
    BY <2>2, <2>3
  <2>6. both \in Seq(GenuineRows)
    BY <2>2
  <2> HIDE DEF both
  <2>7. \A r : Contains(a, r) \/ Contains(batch, r) => Contains(both, r)
    BY <2>4, <2>5, <2>6 DEF Contains
  <2>8. rows' = both
    BY <1>3, <2>1 DEF both
  <2>9. excuse' = excuse /\ faults' = faults
    BY <1>3
  <2> QED BY <2>1, <2>6, <2>7, <2>8, <2>9 DEF Sorts
<1>4. ASSUME /\ Fault("sink")
             /\ Excused({r.first : r \in ToSet(batch)}, "fault")
             /\ UNCHANGED rows
      PROVE  Kept
  <2>1. /\ excuse' \in [Lines -> {"none", "history", "cut", "fault"}]
        /\ \A n \in Lines : excuse[n] # "none" => excuse'[n] # "none"
        /\ \A n \in Lines : n \in {r.first : r \in ToSet(batch)} => excuse'[n] # "none"
    BY <1>4, ExcusedFacts
  <2>2. faults' \in 0..MaxFaults
    <3>1. faults' = faults + 1 /\ faults < MaxFaults
      BY <1>4 DEF Fault
    <3> QED BY <3>1, TailerBounds DEF Sorts
  <2>3. \A r \in GenuineRows : Contains(batch, r) => r.first \in {q.first : q \in ToSet(batch)}
    BY DEF Contains, ToSet
  <2>4. \A r \in GenuineRows : Contains(batch, r) => excuse'[r.first] # "none"
    BY <2>1, <2>3, GenuineFacts
  <2> QED BY <1>4, <2>1, <2>2, <2>4 DEF Sorts
<1>5. Kept
  BY <1>3, <1>4 DEF Flush
<1> HIDE DEF Kept
<1>6. \A n \in Lines : Stored(n) => Stored(n)'
  BY <1>5 DEF Stored, Kept
<1>7. \A n \in Lines : Contains(batch, Genuine(n)) => Stored(n)' \/ excuse'[n] # "none"
  <2>1. \A n \in Lines : Genuine(n) \in GenuineRows /\ Genuine(n).first = n
    BY DEF GenuineRows, Genuine
  <2> QED BY <1>5, <2>1 DEF Stored, Kept
<1>8. Remembers'
  <2>1. SUFFICES ASSUME NEW r \in ToSet(seen')
                 PROVE  Contains(rows', r) \/ excuse'[r.first] # "none"
    BY DEF Remembers
  <2>2. r \in ToSet(seen) \/ r \in ToSet(batch)
    BY <1>1, <1>2
  <2>3. CASE r \in ToSet(seen)
    <3>1. r.first \in Lines
      BY <2>3, GenuineFacts DEF Sorts, ToSet
    <3> QED BY <1>5, <2>3, <3>1 DEF Remembers, Kept
  <2>4. CASE r \in ToSet(batch)
    <3>1. r \in GenuineRows /\ Contains(batch, r)
      BY <2>4 DEF ToSet, Contains
    <3> QED BY <1>5, <3>1 DEF Kept
  <2> QED BY <2>2, <2>3, <2>4
<1>9. lapsed' \subseteq Lines
  <2>1. \A r \in ToSet(seen) \cup ToSet(batch) : r.first \in Lines
    BY GenuineFacts DEF Sorts, ToSet
  <2> QED BY <2>1 DEF Flush, Sorts
<1> QED BY <1>1, <1>2, <1>5, <1>6, <1>7, <1>8, <1>9 DEF Kept

LEMMA TakeLineInv == IInv /\ TakeLine => IInv'
<1> SUFFICES ASSUME IInv, TakeLine PROVE IInv'
  OBVIOUS
<1> USE Numbers DEF IInv
<1> DEFINE text == Head(poll.todo)
           batch == Append(pending, RowOf(text))
<1>1. /\ UNCHANGED <<file, stat, offset, partial>>
      /\ cuts' = cuts
      /\ poll.phase = "lines" /\ poll.todo # <<>>
      /\ poll' = [poll EXCEPT !.todo = Tail(@)]
      /\ Parses(text)
      /\ IF Len(batch) >= Batch THEN Flush(batch)
         ELSE pending' = batch /\ UNCHANGED <<seen, rows, excuse, lapsed, faults>>
  BY DEF TakeLine
<1>2. /\ text \in LineTexts /\ Tail(poll.todo) \in Seq(LineTexts)
      /\ \A t : Contains(poll.todo, t) => t = text \/ Contains(Tail(poll.todo), t)
  BY <1>1, TodoFacts
<1>3. PICK k \in Lines : text = Whole(k) /\ RowOf(text) = Genuine(k)
  BY <1>1, <1>2, ParsedWhole
<1>4. /\ batch \in Seq(GenuineRows)
      /\ \A r : Contains(pending, r) => Contains(batch, r)
      /\ Contains(batch, Genuine(k))
  <2>1. PICK s \in Seq(GenuineRows) : s = pending
    BY DEF Sorts
  <2>2. PICK r \in GenuineRows : r = Genuine(k)
    BY DEF GenuineRows
  <2>3. PICK t : t = Append(s, r)
    OBVIOUS
  <2>4. /\ t \in Seq(GenuineRows) /\ Len(t) = Len(s) + 1
        /\ \A i \in 1..Len(s) : t[i] = s[i]
        /\ t[Len(s) + 1] = r
    BY <2>3, AppendProperties
  <2>5. Len(s) \in Nat
    OBVIOUS
  <2>6. (\A q : Contains(s, q) => Contains(t, q)) /\ Contains(t, r)
    BY <2>4, <2>5 DEF Contains
  <2> QED BY <1>3, <2>1, <2>2, <2>3, <2>4, <2>6
<1> HIDE DEF text, batch
<1>5. /\ poll'.phase = "lines" /\ poll'.cur = poll.cur /\ poll'.todo = Tail(poll.todo)
      /\ poll' \in [phase : {"idle", "read", "lines"}, cur : StatType, todo : Seq(LineTexts)]
  BY <1>1, <1>2 DEF Sorts
<1>6. Phases' /\ Position' /\ \A n \in Lines : Awaited(n)' = Awaited(n)
  BY <1>1, <1>5, LinesStep
<1>7. /\ pending' \in Seq(GenuineRows) /\ Len(pending') < Batch /\ lapsed' \subseteq Lines
      /\ seen' \in Seq(GenuineRows) /\ Len(seen') <= SeenCap
      /\ rows' \in Seq(GenuineRows)
      /\ excuse' \in [Lines -> {"none", "history", "cut", "fault"}]
      /\ faults' \in 0..MaxFaults
      /\ Remembers'
      /\ \A n \in Lines : /\ excuse[n] # "none" => excuse'[n] # "none"
                          /\ Stored(n) => Stored(n)'
                          /\ Contains(batch, Genuine(n)) =>
                                \/ Stored(n)' \/ excuse'[n] # "none"
                                \/ Contains(pending', Genuine(n))
  <2>1. CASE Len(batch) >= Batch
    <3>1. Flush(batch)
      BY <1>1, <2>1
    <3>2. <<>> \in Seq(GenuineRows) /\ Len(<<>>) < Batch
      BY TailerBounds
    <3> QED BY <1>4, <3>1, <3>2, FlushFacts
  <2>2. CASE ~(Len(batch) >= Batch)
    <3>1. /\ pending' = batch /\ seen' = seen /\ rows' = rows /\ excuse' = excuse
          /\ faults' = faults /\ lapsed' = lapsed
      BY <1>1, <2>2
    <3>2. Len(batch) < Batch
      BY <1>4, <2>2, TailerBounds
    <3> QED BY <1>4, <3>1, <3>2 DEF Sorts, Remembers, Stored
  <2> QED BY <2>1, <2>2
<1>8. Sorts'
  BY <1>1, <1>5, <1>7 DEF Sorts, file
<1>9. Covered'
  <2>1. SUFFICES ASSUME NEW n \in Lines \ Noise, stat # Unknown
                 PROVE  Stored(n)' \/ InHand(n)' \/ Awaited(n)' \/ excuse'[n] # "none"
    BY <1>1 DEF Covered
  <2>2. Contains(batch, Genuine(n)) => Stored(n)' \/ InHand(n)' \/ excuse'[n] # "none"
    BY <1>7 DEF InHand
  <2>3. InHand(n) => Contains(batch, Genuine(n)) \/ InHand(n)'
    <3>1. CASE Contains(pending, Genuine(n))
      BY <1>4, <3>1
    <3>2. CASE Contains(poll.todo, Whole(n))
      <4>1. CASE Whole(n) = text
        <5>1. Genuine(n) = Genuine(k)
          <6>1. RowOf(Whole(n)) = Genuine(n)
            BY WholeParses
          <6> QED BY <1>3, <4>1, <6>1
        <5> QED BY <1>4, <5>1
      <4>2. CASE Whole(n) # text
        BY <1>2, <1>5, <3>2, <4>2 DEF InHand, Whole
      <4> QED BY <4>1, <4>2
    <3> QED BY <3>1, <3>2 DEF InHand, Whole
  <2> QED BY <1>6, <1>7, <2>1, <2>2, <2>3 DEF Covered
<1> QED BY <1>6, <1>7, <1>8, <1>9

LEMMA ResolveFailsInv == IInv /\ ResolveFails => IInv'
<1> SUFFICES ASSUME IInv, ResolveFails PROVE IInv'
  OBVIOUS
<1> USE Numbers DEF IInv
<1> DEFINE dropped == {LineOf(text[1]) : text \in ToSet(poll.todo)}
<1>1. /\ UNCHANGED <<file, stat, offset, partial>>
      /\ rows' = rows /\ seen' = seen /\ pending' = pending /\ cuts' = cuts
      /\ lapsed' = lapsed \cup {r.first : r \in ToSet(pending)}
      /\ poll.phase = "lines" /\ poll' = Idle /\ Noticeable'
      /\ Fault("resolve") /\ Excused(dropped, "fault")
  BY DEF ResolveFails
<1>2. faults' \in 0..MaxFaults
  <2>1. faults' = faults + 1 /\ faults < MaxFaults
    BY <1>1 DEF Fault
  <2> QED BY <2>1, TailerBounds DEF Sorts
<1>3. /\ excuse' \in [Lines -> {"none", "history", "cut", "fault"}]
      /\ \A n \in Lines : excuse[n] # "none" => excuse'[n] # "none"
      /\ \A n \in Lines : n \in dropped => excuse'[n] # "none"
  BY <1>1, ExcusedFacts
<1>4. Phases' /\ Position'
  BY <1>1, BrokenOff
<1>5. Sorts'
  <2>1. Idle \in [phase : {"idle", "read", "lines"}, cur : StatType, todo : Seq(LineTexts)]
    BY TailerBounds DEF Idle, Unknown, StatType
  <2>2. lapsed' \subseteq Lines
    <3>1. \A r \in ToSet(pending) : r.first \in Lines
      BY GenuineFacts DEF Sorts, ToSet
    <3> QED BY <1>1, <3>1 DEF Sorts
  <2> QED BY <1>1, <1>2, <1>3, <2>1, <2>2 DEF Sorts, file
<1>6. Remembers'
  <2>1. \A r \in ToSet(seen) : r.first \in Lines
    BY GenuineFacts DEF Sorts, ToSet
  <2> QED BY <1>1, <1>3, <2>1 DEF Remembers
<1>7. Covered'
  <2>1. SUFFICES ASSUME NEW n \in Lines \ Noise, stat # Unknown
                 PROVE  Stored(n)' \/ InHand(n)' \/ Awaited(n)' \/ excuse'[n] # "none"
    BY <1>1 DEF Covered
  <2>2. Stored(n)' = Stored(n) /\ Awaited(n)' = Awaited(n)
    BY <1>1 DEF Stored, Awaited, file
  <2>3. InHand(n) => InHand(n)' \/ n \in dropped
    <3>1. CASE Contains(poll.todo, Whole(n))
      <4>1. Whole(n) \in ToSet(poll.todo) /\ LineOf(Whole(n)[1]) = n
        BY <3>1, WholeParses DEF Contains, ToSet
      <4> QED BY <4>1
    <3>2. CASE Contains(pending, Genuine(n))
      BY <1>1, <3>2 DEF InHand
    <3> QED BY <3>1, <3>2 DEF InHand, Whole
  <2> HIDE DEF dropped
  <2> QED BY <1>3, <2>1, <2>2, <2>3 DEF Covered
<1> QED BY <1>4, <1>5, <1>6, <1>7

LEMMA PollEndInv == IInv /\ PollEnd => IInv'
<1> SUFFICES ASSUME IInv, PollEnd PROVE IInv'
  OBVIOUS
<1> USE Numbers DEF IInv
<1>1. /\ UNCHANGED <<file, offset, partial>> /\ cuts' = cuts
      /\ poll.phase = "lines" /\ poll.todo = <<>> /\ stat' = poll.cur /\ poll' = Idle
      /\ Flush(pending)
  BY DEF PollEnd
<1>2. pending \in Seq(GenuineRows)
  BY DEF Sorts
<1>3. /\ pending' = <<>> /\ lapsed' \subseteq Lines
      /\ seen' \in Seq(GenuineRows) /\ Len(seen') <= SeenCap
      /\ rows' \in Seq(GenuineRows)
      /\ excuse' \in [Lines -> {"none", "history", "cut", "fault"}]
      /\ faults' \in 0..MaxFaults
      /\ \A n \in Lines : excuse[n] # "none" => excuse'[n] # "none"
      /\ \A n \in Lines : Stored(n) => Stored(n)'
      /\ \A n \in Lines : Contains(pending, Genuine(n)) => Stored(n)' \/ excuse'[n] # "none"
      /\ Remembers'
  BY <1>1, <1>2, FlushFacts
<1>4. Known' = Known /\ poll'.phase = "idle" /\ poll'.todo = <<>> /\ poll'.cur.ino = 0
  BY <1>1 DEF Known, Idle, Unknown
<1>5. Phases'
  <2>1. stat' # Unknown
    BY <1>1 DEF Phases, Unknown
  <2> QED BY <1>1, <1>4, <2>1 DEF Phases, file
<1>6. Position'
  BY <1>1, <1>4 DEF Position, InStep, CutOff, file
<1>7. Sorts'
  <2>1. Idle \in [phase : {"idle", "read", "lines"}, cur : StatType, todo : Seq(LineTexts)]
    BY TailerBounds DEF Idle, Unknown, StatType
  <2>2. Len(pending') < Batch /\ pending' \in Seq(GenuineRows)
    BY <1>3, TailerBounds
  <2>3. stat' \in StatType
    BY <1>1 DEF Sorts
  <2> QED BY <1>1, <1>3, <2>1, <2>2, <2>3 DEF Sorts, file
<1>8. Covered'
  <2>1. SUFFICES ASSUME NEW n \in Lines \ Noise
                 PROVE  Stored(n)' \/ InHand(n)' \/ Awaited(n)' \/ excuse'[n] # "none"
    BY DEF Covered
  <2>2. Awaited(n)' = Awaited(n)
    BY <1>1 DEF Awaited, file
  <2>3. InHand(n) => Contains(pending, Genuine(n))
    BY <1>1 DEF InHand, Contains
  <2>4. stat # Unknown
    BY <1>1 DEF Phases
  <2> QED BY <1>3, <2>1, <2>2, <2>3, <2>4 DEF Covered
<1> QED BY <1>3, <1>5, <1>6, <1>7, <1>8

LEMMA RestartInv == IInv /\ Restart => IInv'
<1> SUFFICES ASSUME IInv, Restart PROVE IInv'
  OBVIOUS
<1> USE Numbers DEF IInv
<1>1. /\ UNCHANGED file /\ rows' = rows /\ excuse' = excuse /\ lapsed' = lapsed /\ cuts' = cuts
      /\ stat' = Unknown /\ offset' = 0 /\ partial' = <<>> /\ pending' = <<>> /\ seen' = <<>>
      /\ poll' = Idle
  BY DEF Restart
<1>2. faults' \in 0..MaxFaults
  <2>1. faults' = faults + 1 /\ faults < MaxFaults
    BY DEF Restart, Fault
  <2> QED BY <2>1, TailerBounds DEF Sorts
<1>3. Sorts'
  <2>1. Idle \in [phase : {"idle", "read", "lines"}, cur : StatType, todo : Seq(LineTexts)]
    BY TailerBounds DEF Idle, Unknown, StatType
  <2>2. stat' \in StatType /\ offset' \in 0..(2 * MaxLines) /\ partial' \in HalfLines
    BY <1>1, TailerBounds DEF Unknown, StatType, HalfLines
  <2>3. /\ pending' \in Seq(GenuineRows) /\ Len(pending') < Batch
        /\ seen' \in Seq(GenuineRows) /\ Len(seen') <= SeenCap
    BY <1>1, TailerBounds
  <2> QED BY <1>1, <1>2, <2>1, <2>2, <2>3 DEF Sorts, file
<1>4. Phases'
  BY <1>1 DEF Phases, Idle, Unknown, file
<1>5. Position'
  BY <1>1 DEF Position, InStep, file
<1>6. Remembers'
  BY <1>1 DEF Remembers, ToSet
<1>7. Covered'
  BY <1>1 DEF Covered
<1> QED BY <1>3, <1>4, <1>5, <1>6, <1>7

LEMMA InitInv == Init => IInv
<1> SUFFICES ASSUME Init PROVE IInv
  OBVIOUS
<1> USE DEF Init
<1>1. Sorts
  <2>1. Idle \in [phase : {"idle", "read", "lines"}, cur : StatType, todo : Seq(LineTexts)]
    BY TailerBounds DEF Idle, Unknown, StatType
  <2>2. stat \in StatType /\ partial \in HalfLines
    BY TailerBounds DEF Unknown, StatType, HalfLines
  <2>3. /\ pending \in Seq(GenuineRows) /\ Len(pending) < Batch
        /\ seen \in Seq(GenuineRows) /\ Len(seen) <= SeenCap
        /\ rows \in Seq(GenuineRows)
    BY TailerBounds
  <2>4. excuse \in [Lines -> {"none", "history", "cut", "fault"}]
    OBVIOUS
  <2>5. poll \in [phase : {"idle", "read", "lines"}, cur : StatType, todo : Seq(LineTexts)]
    BY <2>1
  <2>6. /\ end \in 0..(2 * MaxLines) /\ base \in 0..end /\ offset \in 0..(2 * MaxLines)
        /\ cuts \in 0..MaxCuts /\ ino \in 1..(cuts + 1) /\ faults \in 0..MaxFaults
    BY TailerBounds
  <2>7. cut \in BOOLEAN /\ lapsed \subseteq Lines
    OBVIOUS
  <2> QED BY <2>2, <2>3, <2>4, <2>5, <2>6, <2>7, Zenon DEF Sorts
<1>2. Phases
  BY DEF Phases, Idle, Unknown
<1>3. Position
  BY DEF Position, InStep
<1>4. Remembers
  BY DEF Remembers, ToSet
<1>5. Covered
  BY DEF Covered
<1> QED BY <1>1, <1>2, <1>3, <1>4, <1>5 DEF IInv

LEMMA StepInv == IInv /\ [Next]_vars => IInv'
<1> SUFFICES ASSUME IInv, [Next]_vars PROVE IInv'
  OBVIOUS
<1>1. CASE UNCHANGED vars
  BY <1>1 DEF vars, file, IInv, Sorts, Phases, Position, InStep, CutOff, Known, Remembers,
              Covered, Stored, InHand, Awaited
<1>2. CASE Poll
  BY <1>2, BaselineInv, PollStatInv, PollReadInv, OpenFailsInv, SkipLineInv, TakeLineInv,
     ResolveFailsInv, PollEndInv DEF Poll
<1> QED BY <1>1, <1>2, XrayLogsInv, CutInv, RestartInv DEF Next

LEMMA Invariant == Spec => []IInv
BY InitInv, StepInv, PTL DEF Spec

----------------------------------------------------------------------------
(* The sorts of the state (lib/accessLogTailer.ts): the buffer stays below a  *)
(* batch and the fingerprints within their cap.                               *)
THEOREM TypeCorrect == Spec => []TypeOK
<1>1. IInv => TypeOK
  <2> SUFFICES ASSUME IInv PROVE TypeOK
    OBVIOUS
  <2> USE Numbers DEF IInv
  <2>1. ToSet(partial) \subseteq Units
    <3>1. CASE partial = <<>>
      BY <3>1 DEF ToSet
    <3>2. CASE partial # <<>>
      <4>1. PICK n \in Lines : partial = <<2*n - 1>>
        BY <3>2 DEF Sorts, HalfLines
      <4>2. ToSet(partial) = {2*n - 1}
        BY <4>1 DEF ToSet
      <4> QED BY <4>2, LineOfUnits
    <3> QED BY <3>1, <3>2
  <2>2. \A s \in Seq(GenuineRows) : ToSet(s) \subseteq Row
    BY GenuineFacts DEF ToSet
  <2>3. \A text \in LineTexts : text # <<>> /\ ToSet(text) \subseteq Units
    <3>1. \A n \in Lines : <<2*n>> # <<>> /\ ToSet(<<2*n>>) \subseteq Units
      BY LineOfUnits DEF ToSet
    <3>2. \A n \in Lines : Whole(n) # <<>> /\ ToSet(Whole(n)) \subseteq Units
      BY LineOfUnits DEF ToSet, Whole
    <3> QED BY <3>1, <3>2 DEF LineTexts, Whole1
  <2>4. \A text \in ToSet(poll.todo) : text \in LineTexts
    BY DEF Sorts, ToSet
  <2>5. ino \in 1..(MaxCuts + 1)
    BY TailerBounds DEF Sorts
  <2> QED BY <2>1, <2>2, <2>3, <2>4, <2>5 DEF TypeOK, Sorts
<1> QED BY <1>1, Invariant, PTL

(* Every row of connections is one line of the log (consumeChunk and the      *)
(* partial it carries over, poll and what it resets when the file was         *)
(* replaced), whatever the reads, rotations and faults.                       *)
THEOREM RowsAreGenuine == Spec => []RowsGenuine
<1>1. IInv => RowsGenuine
  BY GenuineFacts DEF IInv, Sorts, RowsGenuine, ToSet
<1> QED BY <1>1, Invariant, PTL

(* A complete line is stored, in the hands of the poll or ahead of it, unless *)
(* a rotation or a fault took it (poll, flush, consumeChunk).                 *)
THEOREM NothingIsForgotten == Spec => []NothingForgotten
<1>1. IInv => NothingForgotten
  <2> SUFFICES ASSUME IInv, stat # Unknown, NEW n \in Lines \ Noise, Awaited(n)
               PROVE  Ahead(n)
    BY DEF IInv, Covered, NothingForgotten
  <2> USE Numbers DEF IInv
  <2>1. Current.size = end - base
    BY CurrentFacts
  <2>2. CASE InStep
    <3>1. CASE partial = <<2*n - 1>>
      <4>1. 2*n - 1 = base + offset /\ offset > 0
        BY <2>2, <3>1 DEF InStep
      <4>2. Horizon = base \/ Horizon = base + offset
        BY DEF Horizon
      <4> QED BY <3>1, <4>1, <4>2 DEF Ahead
    <3>2. CASE partial # <<2*n - 1>>
      <4>1. 2*n - 1 > base + offset
        BY <2>2, <3>2 DEF Awaited, InStep
      <4> QED BY <4>1 DEF Ahead, Horizon
    <3> QED BY <3>1, <3>2
  <2>3. CASE CutOff
    <3>1. Horizon = base
      BY <2>1, <2>3 DEF CutOff, Horizon
    <3>2. 2*n - 1 > base
      BY <2>3 DEF Awaited, CutOff
    <3> QED BY <3>1, <3>2 DEF Ahead
  <2> QED BY <2>2, <2>3 DEF Position
<1> QED BY <1>1, Invariant, PTL

----------------------------------------------------------------------------
(* The order of the rows.  A line may be read twice only after a cut between  *)
(* the stat and the read of a poll that began at offset 0; whatever the next  *)
(* read brings again is in `seen`, has lapsed, or is newer than all rows.     *)

Taken(k) == Stored(k) \/ Contains(pending, Genuine(k))
Marked(n) == Contains(seen, Genuine(n)) \/ n \in lapsed
Settled(n) == Marked(n) \/ \A k \in Lines : Taken(k) => k < n

InOrder(s) ==
    \A i, j \in DOMAIN s : i < j => s[i].last < s[j].first \/ s[j].first \in lapsed

Ordering ==
    /\ InOrder(rows)
    /\ InOrder(pending)
    /\ \A k, n \in Lines : Stored(k) /\ Contains(pending, Genuine(n)) => k < n \/ n \in lapsed

(* What has been taken was in the log.                                        *)
Past == \A k \in Lines : Taken(k) => 2*k <= end

(* The lines yet to be read are settled, and so are those read but not looked *)
(* at, which come in their order.                                             *)
Fresh == stat # Unknown => \A n \in Lines \ Noise : Awaited(n) => Settled(n)

Behind(k) == 2*k <= base + (IF offset <= end - base THEN offset ELSE 0)

Todo ==
    /\ \A n \in Lines : Contains(poll.todo, Whole(n)) => Behind(n)
    /\ \A n \in Lines \ Noise : Contains(poll.todo, Whole(n)) => Settled(n)
    /\ \A i, j \in DOMAIN poll.todo, m, n \in Lines :
          j < i /\ poll.todo[j] = Whole(m) /\ poll.todo[i] = Whole(n) => m < n

(* The next poll will begin the file again.                                   *)
Again == ino # Known.ino \/ end - base < Known.size

(* What it will read twice is settled, or in the hands of this poll.          *)
Twice ==
    stat # Unknown /\ Again /\ 0 < offset /\ offset <= end - base =>
        /\ poll.phase # "read"
        /\ \A n \in Lines \ Noise :
              base < 2*n - 1 /\ 2*n - 1 <= base + offset =>
                  \/ IF poll.phase = "idle" THEN Settled(n) ELSE Marked(n)
                  \/ /\ poll.phase = "lines"
                     /\ \/ Contains(poll.todo, Whole(n))
                        \/ Contains(pending, Genuine(n))
                        \/ partial = <<2*n - 1>>

(* Only a cut makes a poll begin the file again.                              *)
Noticed ==
    /\ stat # Unknown /\ Again => cut
    /\ poll.phase # "idle" => stat.ino = poll.cur.ino /\ stat.size <= poll.cur.size

OInv == Ordering /\ Past /\ Fresh /\ Todo /\ Twice /\ Noticed

LEMMA SameRows ==
    ASSUME UNCHANGED <<rows, pending, seen, lapsed>>
    PROVE  /\ Ordering => Ordering'
           /\ \A n \in Lines : /\ Taken(n)' = Taken(n) /\ Marked(n)' = Marked(n)
                               /\ Settled(n)' = Settled(n)
<1>1. \A n \in Lines : Stored(n)' = Stored(n)
  BY DEF Stored
<1>2. \A n \in Lines : Taken(n)' = Taken(n) /\ Marked(n)' = Marked(n)
  BY <1>1 DEF Taken, Marked
<1>3. \A n \in Lines : Settled(n)' = Settled(n)
  BY <1>2 DEF Settled
<1>4. Ordering => Ordering'
  BY <1>1 DEF Ordering, InOrder
<1> QED BY <1>2, <1>3, <1>4

(* A line behind everything that was taken.                                   *)
LEMMA NewIsSettled ==
    ASSUME Past, NEW n \in Lines, 2*n - 1 > end, Sorts
    PROVE  Settled(n)
<1> USE Numbers
<1>1. \A k \in Lines : Taken(k) => k < n
  BY DEF Past
<1> QED BY <1>1 DEF Settled

LEMMA XrayLogsOrder == IInv /\ OInv /\ XrayLogs => OInv'
<1> SUFFICES ASSUME IInv, OInv, XrayLogs PROVE OInv'
  OBVIOUS
<1> USE Numbers DEF IInv, OInv
<1>1. /\ end' = end + 1 /\ base' = base /\ ino' = ino /\ cut' = cut /\ stat' = stat
      /\ offset' = offset /\ partial' = partial /\ poll' = poll
      /\ UNCHANGED <<rows, pending, seen, lapsed>>
      /\ ~cut \/ offset = 0 \/ end + 1 - base < offset
  BY DEF XrayLogs
<1>2. /\ Ordering'
      /\ \A n \in Lines : /\ Taken(n)' = Taken(n) /\ Marked(n)' = Marked(n)
                          /\ Settled(n)' = Settled(n)
  BY <1>1, SameRows
<1>3. Known' = Known
  BY <1>1 DEF Known
<1>4. offset <= end - base <=> offset <= end' - base'
  BY <1>1 DEF Position, InStep, CutOff
<1>5. \A n \in Lines : Awaited(n)' = Awaited(n) /\ Behind(n)' = Behind(n)
  BY <1>1, <1>4 DEF Awaited, Behind
<1>6. Past'
  BY <1>1, <1>2 DEF Past
<1>7. Fresh'
  BY <1>1, <1>2, <1>5 DEF Fresh
<1>8. Todo'
  BY <1>1, <1>2, <1>5 DEF Todo
<1>9. Again' => Again
  BY <1>1, <1>3 DEF Again
<1>10. Noticed'
  BY <1>1, <1>9 DEF Noticed
<1>11. Twice'
  BY <1>1, <1>4, <1>9 DEF Twice, Noticed
<1> QED BY <1>2, <1>6, <1>7, <1>8, <1>10, <1>11

LEMMA CutOrder ==
    ASSUME IInv, OInv, NEW kind, Cut(kind)
    PROVE  OInv'
<1> USE Numbers DEF IInv, OInv
<1>1. /\ base' = end /\ end' = end /\ offset' = offset /\ partial' = partial
      /\ stat' = stat /\ poll' = poll /\ cut' = TRUE
      /\ UNCHANGED <<rows, pending, seen, lapsed>>
  BY DEF Cut
<1>2. /\ Ordering'
      /\ \A n \in Lines : /\ Taken(n)' = Taken(n) /\ Marked(n)' = Marked(n)
                          /\ Settled(n)' = Settled(n)
  BY <1>1, SameRows
<1>3. Past'
  BY <1>1, <1>2 DEF Past
<1>4. Fresh'
  <2>1. SUFFICES ASSUME NEW n \in Lines, Awaited(n)' PROVE Settled(n)
    BY <1>1, <1>2 DEF Fresh
  <2>2. offset = 0 => partial = <<>>
    BY DEF Position, InStep, CutOff
  <2>3. <<2*n - 1>> # <<>>
    OBVIOUS
  <2>4. offset = 0 => partial # <<2*n - 1>>
    BY <2>2, <2>3
  <2>5. 2*n - 1 > end
    BY <1>1, <2>1, <2>4 DEF Awaited
  <2> QED BY <2>5, NewIsSettled
<1>5. Todo'
  <2>1. \A n \in Lines : Behind(n) => Behind(n)'
    BY <1>1 DEF Behind
  <2> QED BY <1>1, <1>2, <2>1 DEF Todo
<1>6. Twice'
  BY <1>1 DEF Twice
<1>7. Noticed'
  BY <1>1 DEF Noticed
<1> QED BY <1>2, <1>3, <1>4, <1>5, <1>6, <1>7

LEMMA BaselineOrder == IInv /\ OInv /\ Baseline => OInv'
<1> SUFFICES ASSUME IInv, OInv, Baseline PROVE OInv'
  OBVIOUS
<1> USE Numbers DEF IInv, OInv
<1>1. /\ base' = base /\ end' = end /\ ino' = ino /\ partial' = partial
      /\ offset' = end - base /\ stat' = Current /\ poll' = poll
      /\ UNCHANGED <<rows, pending, seen, lapsed>>
      /\ stat = Unknown /\ poll.phase = "idle"
  BY DEF Baseline
<1>2. /\ Ordering'
      /\ \A n \in Lines : /\ Taken(n)' = Taken(n) /\ Marked(n)' = Marked(n)
                          /\ Settled(n)' = Settled(n)
  BY <1>1, SameRows
<1>3. partial = <<>> /\ poll.todo = <<>>
  BY <1>1 DEF Phases
<1>4. Current.ino = ino /\ Current.size = end - base
  BY CurrentFacts
<1>5. ~Again'
  BY <1>1, <1>4 DEF Again, Known
<1>6. Past'
  BY <1>1, <1>2 DEF Past
<1>7. Fresh'
  <2>1. SUFFICES ASSUME NEW n \in Lines, Awaited(n)' PROVE Settled(n)
    BY <1>2 DEF Fresh
  <2>2. partial' # <<2*n - 1>>
    BY <1>1, <1>3
  <2>3. 2*n - 1 > end
    BY <1>1, <2>1, <2>2 DEF Awaited
  <2> QED BY <2>3, NewIsSettled
<1>8. Todo'
  BY <1>1, <1>3 DEF Todo, Contains
<1>9. Twice' /\ Noticed'
  BY <1>1, <1>5 DEF Twice, Noticed
<1> QED BY <1>2, <1>6, <1>7, <1>8, <1>9

LEMMA PollStatOrder == IInv /\ OInv /\ PollStat => OInv'
<1> SUFFICES ASSUME IInv, OInv, PollStat PROVE OInv'
  OBVIOUS
<1> USE Numbers DEF IInv, OInv
<1>1. /\ base' = base /\ end' = end /\ ino' = ino
      /\ UNCHANGED <<rows, pending, seen, lapsed>>
      /\ stat # Unknown /\ poll.phase = "idle"
      /\ stat' = IF Replaced THEN Current ELSE stat
      /\ offset' = IF Replaced THEN 0 ELSE offset
      /\ partial' = IF Replaced THEN <<>> ELSE partial
  BY DEF PollStat, PartialDropped
<1>2. /\ Ordering'
      /\ \A n \in Lines : /\ Taken(n)' = Taken(n) /\ Marked(n)' = Marked(n)
                          /\ Settled(n)' = Settled(n)
  BY <1>1, SameRows
<1>3. Current.ino = ino /\ Current.size = end - base
  BY CurrentFacts
<1>4. poll'.phase # "idle" /\ poll'.cur = Current /\ poll'.todo = <<>>
  <2>1. PICK p \in {"read", "lines"} : poll' = [phase |-> p, cur |-> Current, todo |-> <<>>]
    BY DEF PollStat
  <2> QED BY <2>1
<1>5. Replaced <=> Again
  BY <1>1, <1>3 DEF Replaced, Again, Known
<1>6. ~Again'
  BY <1>1, <1>3, <1>4 DEF Again, Known
<1>7. Past'
  BY <1>1, <1>2 DEF Past
<1>8. Fresh'
  <2>1. SUFFICES ASSUME NEW n \in Lines \ Noise, Awaited(n)' PROVE Settled(n)
    BY <1>2 DEF Fresh
  <2>2. CASE ~Replaced
    <3>1. Awaited(n)
      BY <1>1, <2>1, <2>2 DEF Awaited
    <3> QED BY <1>1, <3>1 DEF Fresh
  <2>3. CASE Replaced
    <3>1. partial' # <<2*n - 1>>
      BY <1>1, <2>3
    <3>2. 2*n - 1 > base
      BY <1>1, <2>1, <2>3, <3>1 DEF Awaited
    <3>3. CASE Awaited(n)
      BY <1>1, <3>3 DEF Fresh
    <3>4. CASE ~Awaited(n)
      <4>1. offset <= end - base /\ 2*n - 1 <= base + offset /\ 0 < offset
        BY <3>2, <3>4 DEF Awaited
      <4> QED BY <1>1, <1>5, <2>3, <3>2, <4>1 DEF Twice, Settled
    <3> QED BY <3>3, <3>4
  <2> QED BY <2>2, <2>3
<1>9. Todo'
  BY <1>4 DEF Todo, Contains
<1>10. Twice'
  BY <1>6 DEF Twice
<1>11. Noticed'
  <2>1. stat'.ino = ino /\ stat'.size <= end - base
    <3>1. CASE Replaced
      BY <1>1, <1>3, <3>1
    <3>2. CASE ~Replaced
      BY <1>1, <1>3, <3>2 DEF Replaced
    <3> QED BY <3>1, <3>2
  <2> QED BY <1>3, <1>4, <1>6, <2>1 DEF Noticed
<1> QED BY <1>2, <1>7, <1>8, <1>9, <1>10, <1>11

(* A poll that breaks off compares with a stat that is not newer.             *)
LEMMA BrokenOffAgain ==
    ASSUME IInv, OInv, poll.phase # "idle", poll' = Idle,
           UNCHANGED <<file, stat, offset, partial>>
    PROVE  (Again' => Again) /\ Noticed'
<1> USE Numbers DEF IInv, OInv
<1>1. Known' = stat /\ Known = poll.cur
  BY DEF Known, Idle
<1>2. Again' => Again
  BY <1>1 DEF Again, Noticed, file
<1>3. stat' # Unknown => stat # Unknown
  BY DEF file
<1>4. cut' = cut /\ poll'.phase = "idle"
  BY DEF Idle, file
<1> QED BY <1>2, <1>3, <1>4 DEF Noticed

LEMMA OpenFailsOrder == IInv /\ OInv /\ OpenFails => OInv'
<1> SUFFICES ASSUME IInv, OInv, OpenFails PROVE OInv'
  OBVIOUS
<1> USE Numbers DEF IInv, OInv
<1>1. /\ UNCHANGED <<file, stat, offset, partial>>
      /\ UNCHANGED <<rows, pending, seen, lapsed>>
      /\ poll.phase = "read" /\ poll' = Idle
  BY DEF OpenFails
<1>2. /\ Ordering'
      /\ \A n \in Lines : /\ Taken(n)' = Taken(n) /\ Marked(n)' = Marked(n)
                          /\ Settled(n)' = Settled(n)
  BY <1>1, SameRows
<1>3. (Again' => Again) /\ Noticed'
  BY <1>1, BrokenOffAgain
<1>4. Past'
  BY <1>1, <1>2 DEF Past, file
<1>5. \A n \in Lines : Awaited(n)' = Awaited(n)
  BY <1>1 DEF Awaited, file
<1>6. Fresh'
  BY <1>1, <1>2, <1>5 DEF Fresh
<1>7. Todo'
  <2>1. poll'.todo = <<>>
    BY <1>1 DEF Idle
  <2> QED BY <2>1 DEF Todo, Contains
<1>8. Twice'
  BY <1>1, <1>3 DEF Twice, file
<1> QED BY <1>2, <1>3, <1>4, <1>6, <1>7, <1>8

LEMMA PollReadOrder == IInv /\ OInv /\ PollRead => OInv'
<1> SUFFICES ASSUME IInv, OInv, PollRead PROVE OInv'
  OBVIOUS
<1> USE Numbers DEF IInv, OInv
<1>1. /\ base' = base /\ end' = end /\ ino' = ino /\ cut' = cut /\ stat' = stat
      /\ UNCHANGED <<rows, pending, seen, lapsed>>
      /\ poll.phase = "read" /\ stat # Unknown
      /\ offset' = offset + Got
      /\ partial' = Split(Text).rest
      /\ poll' = [poll EXCEPT !.phase = "lines", !.todo = Split(Text).lines]
  BY DEF PollRead, Text, OffsetAfter, file, Phases
<1>2. /\ Got \in Nat
      /\ offset <= end - base => offset + Got <= end - base
      /\ offset > end - base => Got = 0
  BY <1>1, GotFacts DEF Phases
<1>3. PICK a \in Nat \ {0}, m \in Nat :
              /\ a + m - 1 <= 2 * MaxLines
              /\ Text \in Seq(Units) /\ Len(Text) = m
              /\ \A i \in 1..m : Text[i] = a + i - 1
              /\ InStep => /\ a + m = base + offset + Got + 1
                           /\ a = IF partial = <<>> THEN base + offset + 1 ELSE base + offset
              /\ CutOff => IF partial = <<>> THEN m = 0 ELSE m = 1 /\ partial = <<a>>
  BY <1>1, TextFacts DEF Phases
<1>4. CutUp(Split(Text), a, a + m)
  <2>1. PICK text \in Seq(Units) : text = Text
    BY <1>3
  <2>2. CutUp(Split(text), a, a + m)
    BY <1>3, <2>1, SplitCutsUp
  <2> QED BY <2>1, <2>2
<1>5. PICK lines : lines = Split(Text).lines
  OBVIOUS
<1>6. /\ partial' = IF m = 0 \/ IsTail(a + m - 1) THEN <<>> ELSE <<a + m - 1>>
      /\ \A n \in Lines : a <= 2*n - 1 /\ 2*n < a + m => Contains(lines, Whole(n))
      /\ Between(lines, a, a + m)
  <2>1. a + m = a <=> m = 0
    BY <1>3
  <2> QED BY <1>1, <1>4, <1>5, <2>1 DEF CutUp
<1>7. poll'.phase = "lines" /\ poll'.cur = poll.cur /\ poll'.todo = lines
  BY <1>1, <1>5 DEF Sorts
<1>8. /\ Ordering'
      /\ \A n \in Lines : /\ Taken(n)' = Taken(n) /\ Marked(n)' = Marked(n)
                          /\ Settled(n)' = Settled(n)
  BY <1>1, SameRows
<1>9. Again' = Again
  BY <1>1, <1>7 DEF Again, Known
<1>10. Past'
  BY <1>1, <1>8 DEF Past
<1>11. ASSUME InStep, NEW n \in Lines, 2*n - 1 >= a
       PROVE  Awaited(n)
  <2>1. CASE partial = <<>>
    BY <1>3, <1>11, <2>1 DEF Awaited, InStep
  <2>2. CASE partial # <<>>
    <3>1. a = base + offset /\ partial = <<base + offset>> /\ offset <= end - base
      BY <1>3, <1>11, <2>2 DEF InStep
    <3>2. 2*n - 1 = a => partial = <<2*n - 1>>
      BY <3>1
    <3> QED BY <1>11, <3>1, <3>2 DEF Awaited
  <2> QED BY <2>1, <2>2
<1>12. ASSUME NEW n \in Lines, NEW x \in Nat, <<2*n - 1>> = <<x>>
       PROVE  2*n - 1 = x
  BY <1>12
<1>13. Fresh'
  <2>1. SUFFICES ASSUME NEW n \in Lines \ Noise, Awaited(n)' PROVE Awaited(n)
    BY <1>1, <1>8 DEF Fresh
  <2>2. CASE InStep
    <3>1. 2*n - 1 >= a
      <4>1. offset' <= end' - base' /\ ~(offset' > end' - base')
        BY <1>1, <1>2, <2>2 DEF InStep
      <4>2. CASE 2*n - 1 > base' + offset'
        <5>1. a <= base + offset + 1
          BY <1>3, <2>2
        <5>2. 2*n - 1 > base + (offset + Got)
          BY <1>1, <4>2
        <5> QED BY <1>2, <5>1, <5>2
      <4>3. CASE partial' = <<2*n - 1>>
        <5>0. <<2*n - 1>> # <<>>
          OBVIOUS
        <5>1. m # 0 /\ <<2*n - 1>> = <<a + m - 1>>
          BY <1>6, <4>3, <5>0, Zenon
        <5>2. 2*n - 1 = a + m - 1
          <6>1. a + m - 1 \in Nat
            OBVIOUS
          <6> QED BY <1>12, <5>1, <6>1
        <5>3. m # 0
          BY <5>1
        <5>4. a + m - 1 >= a
          BY <5>3
        <5> QED BY <5>2, <5>4
      <4> QED BY <2>1, <4>1, <4>2, <4>3, Zenon DEF Awaited
    <3> QED BY <1>11, <2>2, <3>1
  <2>3. CASE CutOff
    <3>1. offset' = offset
      BY <1>1, <1>2, <2>3 DEF CutOff
    <3> QED BY <1>1, <2>1, <2>3, <3>1 DEF Awaited, CutOff
  <2> QED BY <2>2, <2>3 DEF Position
<1>14. \A n \in Lines : Contains(lines, Whole(n)) => InStep /\ 2*n - 1 >= a /\ 2*n < a + m
  <2>1. SUFFICES ASSUME NEW n \in Lines, Contains(lines, Whole(n))
                 PROVE  InStep /\ 2*n - 1 >= a /\ 2*n < a + m
    OBVIOUS
  <2>2. a <= 2*n - 1 /\ 2*n < a + m
    BY <1>6, <2>1 DEF Between, Contains
  <2>3. m > 1
    BY <1>3, <2>2
  <2>4. ~CutOff
    BY <1>3, <2>3
  <2> QED BY <2>2, <2>4 DEF Position
<1>15. Todo'
  <2>1. ASSUME NEW n \in Lines, Contains(lines, Whole(n)) PROVE Behind(n)'
    <3>1. InStep /\ 2*n < a + m
      BY <1>14, <2>1
    <3>2. a + m = base + offset + Got + 1 /\ offset' <= end' - base'
      BY <1>1, <1>2, <1>3, <3>1 DEF InStep
    <3> QED BY <1>1, <1>2, <3>1, <3>2 DEF Behind
  <2>2. ASSUME NEW n \in Lines \ Noise, Contains(lines, Whole(n)) PROVE Settled(n)
    <3>1. Awaited(n)
      BY <1>11, <1>14, <2>2
    <3> QED BY <1>1, <3>1 DEF Fresh
  <2>3. \A i, j \in DOMAIN lines, k, n \in Lines :
          j < i /\ lines[j] = Whole(k) /\ lines[i] = Whole(n) => k < n
    BY <1>6 DEF Between
  <2> QED BY <1>7, <1>8, <2>1, <2>2, <2>3 DEF Todo
<1>16. Twice'
  <2>1. SUFFICES ASSUME Again, 0 < offset', offset' <= end - base,
                        NEW n \in Lines \ Noise, base < 2*n - 1, 2*n - 1 <= base + offset'
                 PROVE  Contains(lines, Whole(n)) \/ partial' = <<2*n - 1>>
    BY <1>1, <1>7, <1>9 DEF Twice
  <2>2. offset <= end - base
    BY <1>1, <1>2, <2>1
  <2>3. offset = 0
    BY <1>1, <2>1, <2>2 DEF Twice
  <2>4. InStep
    BY <2>2 DEF Position, CutOff
  <2>5. partial = <<>>
    BY <2>3, <2>4 DEF InStep
  <2>6. a = base + 1 /\ a + m = base + Got + 1 /\ offset' = Got
    BY <1>1, <1>2, <1>3, <2>3, <2>4, <2>5
  <2>7. CASE 2*n < a + m
    <3>1. a <= 2*n - 1
      BY <2>1, <2>6
    <3> QED BY <1>6, <2>7, <3>1, Zenon
  <2>8. CASE 2*n >= a + m
    <3>1. 2*n - 1 = a + m - 1 /\ m # 0
      BY <1>2, <2>1, <2>6, <2>8
    <3>2. ~IsTail(2*n - 1)
      BY LineOfUnits
    <3>3. ~IsTail(a + m - 1)
      BY <3>1, <3>2
    <3>4. partial' = <<a + m - 1>>
      BY <1>6, <3>1, <3>3
    <3> QED BY <3>1, <3>4
  <2>9. 2*n < a + m \/ 2*n >= a + m
    OBVIOUS
  <2> QED BY <2>7, <2>8, <2>9, Zenon
<1>17. Noticed'
  BY <1>1, <1>7, <1>9 DEF Noticed
<1> QED BY <1>8, <1>10, <1>13, <1>15, <1>16, <1>17

(* The lines behind the first one.                                            *)
LEMMA TodoTail ==
    ASSUME Sorts, Todo, poll.todo # <<>>
    PROVE  /\ \A t : Contains(Tail(poll.todo), t) => Contains(poll.todo, t)
           /\ Contains(poll.todo, Head(poll.todo))
           /\ \A i, j \in DOMAIN Tail(poll.todo), m, n \in Lines :
                 j < i /\ Tail(poll.todo)[j] = Whole(m) /\ Tail(poll.todo)[i] = Whole(n) => m < n
           /\ \A m, n \in Lines :
                 Head(poll.todo) = Whole(m) /\ Contains(Tail(poll.todo), Whole(n)) => m < n
<1>1. PICK todo \in Seq(LineTexts) : todo = poll.todo
  BY DEF Sorts
<1>2. PICK len \in Nat : len = Len(todo) - 1 /\ DOMAIN todo = 1..(len + 1)
  <2>1. todo # <<>> /\ Len(todo) \in Nat \ {0} /\ DOMAIN todo = 1..Len(todo)
    BY <1>1
  <2>2. Len(todo) - 1 \in Nat /\ (Len(todo) - 1) + 1 = Len(todo)
    BY <2>1
  <2> QED BY <2>1, <2>2
<1>3. PICK back : back = Tail(todo)
  OBVIOUS
<1>4. /\ Head(todo) = todo[1] /\ DOMAIN back = 1..len
      /\ \A i \in 1..len : back[i] = todo[i + 1]
  BY <1>1, <1>2, <1>3
<1>5. \A i \in 1..len : i + 1 \in 1..(len + 1) /\ 1 < i + 1
  OBVIOUS
<1>6. 1 \in 1..(len + 1)
  OBVIOUS
<1>7. \A i, j \in DOMAIN todo, m, n \in Lines :
          j < i /\ todo[j] = Whole(m) /\ todo[i] = Whole(n) => m < n
  BY <1>1 DEF Todo
<1>8. \A t : Contains(back, t) => Contains(todo, t)
  BY <1>2, <1>4, <1>5 DEF Contains
<1>9. Contains(todo, Head(todo))
  BY <1>2, <1>4, <1>6 DEF Contains
<1>10. ASSUME NEW i \in DOMAIN back, NEW j \in DOMAIN back, NEW m \in Lines, NEW n \in Lines,
              j < i, back[j] = Whole(m), back[i] = Whole(n)
       PROVE  m < n
  <2>1. i + 1 \in DOMAIN todo /\ j + 1 \in DOMAIN todo
    BY <1>2, <1>4, <1>5
  <2>2. todo[j + 1] = Whole(m) /\ todo[i + 1] = Whole(n)
    BY <1>4, <1>10
  <2>3. j + 1 < i + 1
    BY <1>4, <1>10
  <2> QED BY <1>7, <2>1, <2>2, <2>3
<1>11. ASSUME NEW m \in Lines, NEW n \in Lines, Head(todo) = Whole(m), Contains(back, Whole(n))
       PROVE  m < n
  <2>1. PICK i \in DOMAIN back : back[i] = Whole(n)
    BY <1>11 DEF Contains
  <2>2. i + 1 \in DOMAIN todo /\ 1 \in DOMAIN todo /\ 1 < i + 1
    BY <1>2, <1>4, <1>5, <1>6, <2>1
  <2>3. todo[1] = Whole(m) /\ todo[i + 1] = Whole(n)
    BY <1>4, <1>11, <2>1
  <2> QED BY <1>7, <2>2, <2>3
<1> QED BY <1>1, <1>3, <1>8, <1>9, <1>10, <1>11

LEMMA SkipLineOrder == IInv /\ OInv /\ SkipLine => OInv'
<1> SUFFICES ASSUME IInv, OInv, SkipLine PROVE OInv'
  OBVIOUS
<1> USE Numbers DEF IInv, OInv
<1>1. /\ UNCHANGED <<file, stat, offset, partial>>
      /\ UNCHANGED <<rows, pending, seen, lapsed>>
      /\ poll.phase = "lines" /\ poll.todo # <<>>
      /\ poll' = [poll EXCEPT !.todo = Tail(@)]
      /\ ~Parses(Head(poll.todo)) \/ IsDuplicate(RowOf(Head(poll.todo)))
  BY DEF SkipLine
<1>2. poll'.phase = "lines" /\ poll'.cur = poll.cur /\ poll'.todo = Tail(poll.todo)
  BY <1>1 DEF Sorts
<1>3. /\ Ordering'
      /\ \A n \in Lines : /\ Taken(n)' = Taken(n) /\ Marked(n)' = Marked(n)
                          /\ Settled(n)' = Settled(n)
  BY <1>1, SameRows
<1>4. \A n \in Lines : Awaited(n)' = Awaited(n) /\ Behind(n)' = Behind(n)
  BY <1>1 DEF Awaited, Behind, file
<1>5. Again' = Again
  BY <1>1, <1>2 DEF Again, Known, file
<1>6. Past' /\ Fresh'
  BY <1>1, <1>3, <1>4 DEF Past, Fresh, file
<1>7. Todo'
  <2>1. /\ \A t : Contains(Tail(poll.todo), t) => Contains(poll.todo, t)
        /\ \A i, j \in DOMAIN Tail(poll.todo), m, n \in Lines :
              j < i /\ Tail(poll.todo)[j] = Whole(m) /\ Tail(poll.todo)[i] = Whole(n) => m < n
    BY <1>1, TodoTail
  <2>2. PICK back : back = Tail(poll.todo) /\ poll'.todo = back
    BY <1>2
  <2>3. /\ \A n \in Lines : Contains(back, Whole(n)) => Behind(n)'
        /\ \A n \in Lines \ Noise : Contains(back, Whole(n)) => Settled(n)'
    BY <1>3, <1>4, <2>1, <2>2 DEF Todo
  <2> QED BY <2>1, <2>2, <2>3 DEF Todo
<1>8. Noticed'
  BY <1>1, <1>2, <1>5 DEF Noticed, file
<1>9. Twice'
  <2>1. SUFFICES ASSUME stat # Unknown, Again, 0 < offset, offset <= end - base,
                        NEW n \in Lines \ Noise, base < 2*n - 1, 2*n - 1 <= base + offset,
                        Contains(poll.todo, Whole(n)), ~Contains(Tail(poll.todo), Whole(n))
                 PROVE  Marked(n)
    BY <1>1, <1>2, <1>3, <1>5 DEF Twice, file
  <2>2. Head(poll.todo) = Whole(n)
    BY <1>1, <2>1, TodoFacts
  <2>3. Parses(Whole(n)) /\ RowOf(Whole(n)) = Genuine(n)
    BY WholeParses
  <2> QED BY <1>1, <2>2, <2>3 DEF IsDuplicate, Marked
<1> QED BY <1>3, <1>6, <1>7, <1>8, <1>9

(* A batch that goes on from the rows.                                        *)
LEMMA Lengthened ==
    ASSUME NEW a \in Seq(GenuineRows), NEW b \in Seq(GenuineRows),
           InOrder(a), InOrder(b),
           \A k, n \in Lines :
               Contains(a, Genuine(k)) /\ Contains(b, Genuine(n)) => k < n \/ n \in lapsed
    PROVE  InOrder(a \o b)
<1>1. PICK la \in Nat, lb \in Nat : la = Len(a) /\ lb = Len(b)
                                    /\ DOMAIN a = 1..la /\ DOMAIN b = 1..lb
  OBVIOUS
<1>2. PICK s : s = a \o b
  OBVIOUS
<1>3. /\ DOMAIN s = 1..(la + lb)
      /\ \A i \in 1..(la + lb) : s[i] = IF i <= la THEN a[i] ELSE b[i - la]
  <2>1. /\ a \o b \in Seq(GenuineRows) /\ Len(a \o b) = Len(a) + Len(b)
        /\ \A i \in 1..Len(a) + Len(b) :
              (a \o b)[i] = IF i <= Len(a) THEN a[i] ELSE b[i - Len(a)]
    BY ConcatProperties
  <2> QED BY <1>1, <1>2, <2>1
<1>4. SUFFICES ASSUME NEW i \in 1..(la + lb), NEW j \in 1..(la + lb), i < j
               PROVE  s[i].last < s[j].first \/ s[j].first \in lapsed
  BY <1>2, <1>3 DEF InOrder
<1>5. CASE j <= la
  <2>1. i \in DOMAIN a /\ j \in DOMAIN a /\ s[i] = a[i] /\ s[j] = a[j]
    BY <1>1, <1>3, <1>4, <1>5
  <2> QED BY <1>4, <2>1 DEF InOrder
<1>6. CASE i > la
  <2>1. i - la \in DOMAIN b /\ j - la \in DOMAIN b /\ i - la < j - la
    BY <1>1, <1>4, <1>6
  <2>2. s[i] = b[i - la] /\ s[j] = b[j - la]
    BY <1>3, <1>4, <1>6
  <2> QED BY <2>1, <2>2 DEF InOrder
<1>7. CASE i <= la /\ j > la
  <2>1. i \in DOMAIN a /\ j - la \in DOMAIN b
    BY <1>1, <1>7
  <2>2. s[i] = a[i] /\ s[j] = b[j - la]
    BY <1>3, <1>7
  <2>3. a[i] \in GenuineRows /\ b[j - la] \in GenuineRows
    BY <2>1
  <2>4. PICK k \in Lines, n \in Lines : a[i] = Genuine(k) /\ b[j - la] = Genuine(n)
    BY <2>3 DEF GenuineRows
  <2>5. Contains(a, Genuine(k)) /\ Contains(b, Genuine(n))
    BY <2>1, <2>4 DEF Contains
  <2>6. s[i].last = k /\ s[j].first = n
    BY <2>2, <2>4 DEF Genuine
  <2> QED BY <2>5, <2>6
<1> QED BY <1>5, <1>6, <1>7

(* A flush marks its batch, and a mark does not get lost unnoticed.           *)
LEMMA FlushMarks ==
    ASSUME Sorts, NEW batch \in Seq(GenuineRows), Flush(batch)
    PROVE  /\ \A n \in lapsed : n \in lapsed'
           /\ \A n \in Lines : Marked(n) \/ Contains(batch, Genuine(n)) => Marked(n)'
<1>1. lapsed' = lapsed \cup {r.first : r \in (ToSet(seen) \cup ToSet(batch)) \ ToSet(seen')}
  BY DEF Flush
<1>2. ASSUME NEW n \in Lines, Contains(seen, Genuine(n)) \/ Contains(batch, Genuine(n))
      PROVE  Marked(n)'
  <2>1. Genuine(n) \in ToSet(seen) \cup ToSet(batch) /\ Genuine(n).first = n
    BY <1>2 DEF Contains, ToSet, Genuine
  <2>2. CASE Genuine(n) \in ToSet(seen')
    BY <2>2 DEF Marked, Contains, ToSet
  <2>3. CASE Genuine(n) \notin ToSet(seen')
    BY <1>1, <2>1, <2>3 DEF Marked
  <2> QED BY <2>2, <2>3
<1> QED BY <1>1, <1>2 DEF Marked

(* What a flush does to the order.                                            *)
LEMMA FlushOrders ==
    ASSUME Sorts, NEW batch \in Seq(GenuineRows), Flush(batch),
           InOrder(rows), InOrder(batch),
           \A k, n \in Lines :
               Stored(k) /\ Contains(batch, Genuine(n)) => k < n \/ n \in lapsed
    PROVE  /\ Ordering'
           /\ \A k \in Lines : Taken(k)' => Stored(k) \/ Contains(batch, Genuine(k))
<1>1. PICK a \in Seq(GenuineRows) : a = rows
  BY DEF Sorts
<1>2. InOrder(a \o batch)
  BY <1>1, Lengthened DEF Stored
<1>3. pending' = <<>> /\ (rows' = a \o batch \/ rows' = a)
  BY <1>1 DEF Flush
<1>4. \A n \in lapsed : n \in lapsed'
  BY FlushMarks
<1>5. InOrder(rows)'
  <2>1. InOrder(rows')
    BY <1>1, <1>2, <1>3
  <2> QED BY <1>4, <2>1 DEF InOrder
<1>6. ~ \E r : Contains(pending', r)
  BY <1>3 DEF Contains
<1>7. Ordering'
  <2>1. InOrder(pending)'
    BY <1>3 DEF InOrder
  <2> QED BY <1>5, <1>6, <2>1 DEF Ordering
<1>8. \A r : Contains(a \o batch, r) => Contains(a, r) \/ Contains(batch, r)
  <2>1. PICK la \in Nat, lb \in Nat : la = Len(a) /\ lb = Len(batch)
                                      /\ DOMAIN a = 1..la /\ DOMAIN batch = 1..lb
    OBVIOUS
  <2>2. PICK s : s = a \o batch
    OBVIOUS
  <2>3. /\ DOMAIN s = 1..(la + lb)
        /\ \A i \in 1..(la + lb) : s[i] = IF i <= la THEN a[i] ELSE batch[i - la]
    <3>1. /\ a \o batch \in Seq(GenuineRows) /\ Len(a \o batch) = Len(a) + Len(batch)
          /\ \A i \in 1..Len(a) + Len(batch) :
                (a \o batch)[i] = IF i <= Len(a) THEN a[i] ELSE batch[i - Len(a)]
      BY ConcatProperties
    <3> QED BY <2>1, <2>2, <3>1
  <2>4. \A i \in 1..(la + lb) : i <= la \/ i - la \in 1..lb
    OBVIOUS
  <2>5. \A i \in 1..(la + lb) : i <= la => i \in 1..la
    OBVIOUS
  <2>6. \A r : Contains(s, r) => Contains(a, r) \/ Contains(batch, r)
    BY <2>1, <2>3, <2>4, <2>5 DEF Contains
  <2> QED BY <2>2, <2>6
<1>9. \A k \in Lines : Taken(k)' => Stored(k) \/ Contains(batch, Genuine(k))
  BY <1>1, <1>3, <1>6, <1>8 DEF Taken, Stored
<1> QED BY <1>7, <1>9

LEMMA TakeLineOrder == IInv /\ OInv /\ TakeLine => OInv'
<1> SUFFICES ASSUME IInv, OInv, TakeLine PROVE OInv'
  OBVIOUS
<1> USE Numbers DEF IInv, OInv
<1>1. /\ UNCHANGED <<file, stat, offset, partial>>
      /\ poll.phase = "lines" /\ poll.todo # <<>>
      /\ poll' = [poll EXCEPT !.todo = Tail(@)]
      /\ Parses(Head(poll.todo)) /\ ~IsDuplicate(RowOf(Head(poll.todo)))
  BY DEF TakeLine
<1>2. PICK k \in Lines : /\ Head(poll.todo) = Whole(k) /\ k \notin Noise
                         /\ RowOf(Head(poll.todo)) = Genuine(k)
  BY <1>1, TodoFacts, ParsedWhole
<1>3. poll'.phase = "lines" /\ poll'.cur = poll.cur /\ poll'.todo = Tail(poll.todo)
  BY <1>1 DEF Sorts
<1>4. PICK one \in Seq(GenuineRows) : one = <<Genuine(k)>>
  <2>1. PICK r \in GenuineRows : r = Genuine(k)
    BY DEF GenuineRows
  <2>2. <<r>> \in Seq(GenuineRows)
    OBVIOUS
  <2> QED BY <2>1, <2>2
<1>5. PICK batch \in Seq(GenuineRows) : /\ batch = Append(pending, Genuine(k))
                                        /\ batch = pending \o one
  <2>1. PICK s \in Seq(GenuineRows) : s = pending
    BY DEF Sorts
  <2>2. PICK r \in GenuineRows : r = Genuine(k)
    BY DEF GenuineRows
  <2>3. Append(s, r) = s \o <<r>> /\ Append(s, r) \in Seq(GenuineRows)
    BY AppendIsConcat
  <2> QED BY <1>4, <2>1, <2>2, <2>3
<1>6. IF Len(batch) >= Batch THEN Flush(batch)
      ELSE pending' = batch /\ UNCHANGED <<seen, rows, excuse, lapsed, faults>>
  BY <1>2, <1>5 DEF TakeLine
<1>7. \A n \in Lines : Contains(batch, Genuine(n)) <=> Contains(pending, Genuine(n)) \/ n = k
  <2>1. PICK s \in Seq(GenuineRows) : s = pending
    BY DEF Sorts
  <2>2. PICK len \in Nat : len = Len(s) /\ DOMAIN s = 1..len
    BY <2>1
  <2>3. PICK r \in GenuineRows : r = Genuine(k)
    BY DEF GenuineRows
  <2>4. batch = Append(s, r)
    BY <1>5, <2>1, <2>3
  <2>5. DOMAIN batch = 1..(len + 1) /\ batch[len + 1] = r /\ \A i \in 1..len : batch[i] = s[i]
    BY <2>2, <2>4, AppendProperties
  <2>6. \A i \in 1..(len + 1) : i \in 1..len \/ i = len + 1
    OBVIOUS
  <2>7. \A i \in 1..len : i \in 1..(len + 1)
    OBVIOUS
  <2>8. len + 1 \in 1..(len + 1)
    OBVIOUS
  <2>9. \A q : Contains(batch, q) <=> Contains(s, q) \/ q = r
    <3>1. ASSUME NEW q, Contains(batch, q) PROVE Contains(s, q) \/ q = r
      <4>1. PICK i \in 1..(len + 1) : batch[i] = q
        BY <2>5, <3>1 DEF Contains
      <4> QED BY <2>2, <2>5, <2>6, <4>1 DEF Contains
    <3>2. ASSUME NEW q, Contains(s, q) PROVE Contains(batch, q)
      <4>1. PICK i \in 1..len : s[i] = q
        BY <2>2, <3>2 DEF Contains
      <4> QED BY <2>5, <2>7, <4>1 DEF Contains
    <3>3. Contains(batch, r)
      BY <2>5, <2>8 DEF Contains
    <3> QED BY <3>1, <3>2, <3>3
  <2>10. \A n \in Lines : Genuine(n) = r <=> n = k
    BY <2>3 DEF Genuine
  <2> QED BY <2>1, <2>9, <2>10
<1>8. k \in lapsed \/ \A j \in Lines : Taken(j) => j < k
  <2>1. Contains(poll.todo, Whole(k))
    BY <1>1, <1>2, TodoTail
  <2>2. Settled(k)
    BY <1>2, <2>1 DEF Todo
  <2> QED BY <1>1, <1>2, <2>2 DEF Settled, Marked, IsDuplicate
<1>9. InOrder(batch)
  <2>1. InOrder(one)
    <3>1. DOMAIN one = 1..1
      BY <1>4
    <3> QED BY <3>1 DEF InOrder
  <2>2. \A n \in Lines : Contains(one, Genuine(n)) => n = k
    BY <1>4 DEF Contains, Genuine
  <2>3. \A j, n \in Lines : Contains(pending, Genuine(j)) /\ Contains(one, Genuine(n)) =>
            j < n \/ n \in lapsed
    BY <1>8, <2>2 DEF Taken
  <2>4. PICK s \in Seq(GenuineRows) : s = pending
    BY DEF Sorts
  <2>5. InOrder(s \o one)
    <3>1. InOrder(s)
      BY <2>4 DEF Ordering
    <3> QED BY <2>1, <2>3, <2>4, <3>1, Lengthened
  <2> QED BY <1>5, <2>4, <2>5
<1>10. \A j, n \in Lines : Stored(j) /\ Contains(batch, Genuine(n)) => j < n \/ n \in lapsed
  BY <1>7, <1>8 DEF Ordering, Taken
<1>11. /\ Ordering'
       /\ \A j \in Lines : Taken(j)' => Taken(j) \/ j = k
       /\ \A n \in Lines : Marked(n) => Marked(n)'
       /\ \A n \in Lines : Contains(pending, Genuine(n)) \/ n = k =>
                              Marked(n)' \/ Contains(pending', Genuine(n))
  <2>1. CASE Len(batch) >= Batch
    <3>1. Flush(batch)
      BY <1>6, <2>1
    <3>2. /\ Ordering'
          /\ \A j \in Lines : Taken(j)' => Stored(j) \/ Contains(batch, Genuine(j))
      BY <1>9, <1>10, <3>1, FlushOrders DEF Ordering
    <3>3. \A n \in Lines : Marked(n) \/ Contains(batch, Genuine(n)) => Marked(n)'
      BY <3>1, FlushMarks
    <3> QED BY <1>7, <3>2, <3>3 DEF Taken
  <2>2. CASE ~(Len(batch) >= Batch)
    <3>1. pending' = batch /\ UNCHANGED <<seen, rows, lapsed>>
      BY <1>6, <2>2
    <3>2. Ordering'
      <4>1. InOrder(rows)' /\ InOrder(pending)'
        BY <1>9, <3>1 DEF Ordering, InOrder
      <4>2. \A j \in Lines : Stored(j)' = Stored(j)
        BY <3>1 DEF Stored
      <4> QED BY <1>10, <3>1, <4>1, <4>2 DEF Ordering
    <3>3. \A n \in Lines : Marked(n)' = Marked(n) /\ Stored(n)' = Stored(n)
      BY <3>1 DEF Marked, Stored
    <3> QED BY <1>7, <3>1, <3>2, <3>3 DEF Taken
  <2> QED BY <2>1, <2>2
<1>12. /\ \A n \in Lines : Awaited(n)' = Awaited(n) /\ Behind(n)' = Behind(n)
       /\ Again' = Again
  BY <1>1, <1>3 DEF Awaited, Behind, Again, Known, file
<1>13. Behind(k)
  <2>1. Contains(poll.todo, Whole(k))
    BY <1>1, <1>2, TodoTail
  <2> QED BY <2>1 DEF Todo
<1>14. ASSUME NEW n \in Lines, Settled(n), k < n PROVE Settled(n)'
  BY <1>11, <1>14 DEF Settled
<1>15. Past'
  <2>1. 2*k <= end
    BY <1>13 DEF Behind
  <2> QED BY <1>1, <1>11, <2>1 DEF Past, file
<1>16. Fresh'
  <2>1. SUFFICES ASSUME NEW n \in Lines \ Noise, Awaited(n), stat # Unknown PROVE Settled(n)'
    BY <1>1, <1>12 DEF Fresh
  <2>2. Settled(n)
    BY <2>1 DEF Fresh
  <2>3. k < n
    <3>1. CASE InStep
      <4>1. 2*k <= base + offset
        BY <1>13, <3>1 DEF Behind, InStep
      <4>2. CASE partial = <<2*n - 1>>
        <5>1. <<2*n - 1>> # <<>>
          OBVIOUS
        <5>2. <<2*n - 1>> = <<base + offset>>
          BY <3>1, <4>2, <5>1 DEF InStep
        <5>3. 2*n - 1 = base + offset
          BY <5>2
        <5> QED BY <4>1, <5>3
      <4>3. CASE partial # <<2*n - 1>>
        BY <2>1, <3>1, <4>1, <4>3 DEF Awaited, InStep
      <4> QED BY <4>2, <4>3
    <3>2. CASE CutOff
      BY <1>13, <2>1, <3>2 DEF Behind, Awaited, CutOff
    <3> QED BY <3>1, <3>2 DEF Position
  <2> QED BY <1>14, <2>2, <2>3
<1>17. Todo'
  <2>1. /\ \A t : Contains(Tail(poll.todo), t) => Contains(poll.todo, t)
        /\ \A i, j \in DOMAIN Tail(poll.todo), m, n \in Lines :
              j < i /\ Tail(poll.todo)[j] = Whole(m) /\ Tail(poll.todo)[i] = Whole(n) => m < n
        /\ \A m, n \in Lines :
              Head(poll.todo) = Whole(m) /\ Contains(Tail(poll.todo), Whole(n)) => m < n
    BY <1>1, TodoTail
  <2>2. PICK back : back = Tail(poll.todo) /\ poll'.todo = back
    BY <1>3
  <2>3. \A n \in Lines : Contains(back, Whole(n)) => Behind(n)'
    BY <1>12, <2>1, <2>2 DEF Todo
  <2>4. ASSUME NEW n \in Lines \ Noise, Contains(back, Whole(n)) PROVE Settled(n)'
    <3>1. Settled(n) /\ k < n
      BY <1>2, <2>1, <2>2, <2>4 DEF Todo
    <3> QED BY <1>14, <3>1
  <2> QED BY <2>1, <2>2, <2>3, <2>4 DEF Todo
<1>18. Twice'
  <2>1. SUFFICES ASSUME stat # Unknown, Again, 0 < offset, offset <= end - base,
                        NEW n \in Lines \ Noise, base < 2*n - 1, 2*n - 1 <= base + offset
                 PROVE  \/ Marked(n)' \/ Contains(Tail(poll.todo), Whole(n))
                        \/ Contains(pending', Genuine(n)) \/ partial = <<2*n - 1>>
    BY <1>1, <1>3, <1>12 DEF Twice, file
  <2>2. \/ Marked(n) \/ Contains(poll.todo, Whole(n))
        \/ Contains(pending, Genuine(n)) \/ partial = <<2*n - 1>>
    BY <1>1, <2>1 DEF Twice
  <2>3. Contains(poll.todo, Whole(n)) => n = k \/ Contains(Tail(poll.todo), Whole(n))
    BY <1>1, <1>2, TodoFacts, WholeIsWhole
  <2> QED BY <1>11, <2>2, <2>3
<1>19. Noticed'
  BY <1>1, <1>3, <1>12 DEF Noticed, file
<1> QED BY <1>11, <1>15, <1>16, <1>17, <1>18, <1>19

LEMMA ResolveFailsOrder == IInv /\ OInv /\ ResolveFails => OInv'
<1> SUFFICES ASSUME IInv, OInv, ResolveFails PROVE OInv'
  OBVIOUS
<1> USE Numbers DEF IInv, OInv
<1>1. /\ UNCHANGED <<file, stat, offset, partial>>
      /\ rows' = rows /\ seen' = seen /\ pending' = pending
      /\ lapsed' = lapsed \cup {r.first : r \in ToSet(pending)}
      /\ poll.phase = "lines" /\ poll' = Idle
  BY DEF ResolveFails
<1>2. \A n \in Lines : Contains(pending, Genuine(n)) => n \in lapsed'
  <2>1. \A n \in Lines : Contains(pending, Genuine(n)) => Genuine(n) \in ToSet(pending)
    BY DEF Contains, ToSet
  <2>2. \A n \in Lines : Genuine(n).first = n
    BY DEF Genuine
  <2> QED BY <1>1, <2>1, <2>2
<1>3. /\ \A n \in lapsed : n \in lapsed'
      /\ \A n \in Lines : Stored(n)' = Stored(n) /\ Taken(n)' = Taken(n)
      /\ \A n \in Lines : Marked(n) => Marked(n)'
  BY <1>1 DEF Stored, Taken, Marked
<1>4. \A n \in Lines : Settled(n) => Settled(n)'
  BY <1>3 DEF Settled
<1>5. Ordering'
  <2>1. InOrder(rows)' /\ InOrder(pending)'
    BY <1>1, <1>3 DEF Ordering, InOrder
  <2> QED BY <1>1, <1>3, <2>1 DEF Ordering
<1>6. (Again' => Again) /\ Noticed'
  BY <1>1, BrokenOffAgain
<1>7. \A n \in Lines : Awaited(n)' = Awaited(n)
  BY <1>1 DEF Awaited, file
<1>8. Past' /\ Fresh'
  BY <1>1, <1>3, <1>4, <1>7 DEF Past, Fresh, file
<1>9. Todo'
  <2>1. poll'.todo = <<>>
    BY <1>1 DEF Idle
  <2> QED BY <2>1 DEF Todo, Contains
<1>10. Twice'
  <2>1. SUFFICES ASSUME stat # Unknown, Again, 0 < offset, offset <= end - base,
                        NEW n \in Lines \ Noise, base < 2*n - 1, 2*n - 1 <= base + offset
                 PROVE  Settled(n)'
    BY <1>1, <1>6 DEF Twice, file, Idle
  <2>2. \/ Marked(n) \/ Contains(poll.todo, Whole(n))
        \/ Contains(pending, Genuine(n)) \/ partial = <<2*n - 1>>
    BY <1>1, <2>1 DEF Twice
  <2>3. CASE Marked(n)
    BY <1>3, <2>3 DEF Settled
  <2>4. CASE Contains(poll.todo, Whole(n))
    BY <1>4, <2>4 DEF Todo
  <2>5. CASE Contains(pending, Genuine(n))
    BY <1>2, <2>5 DEF Settled, Marked
  <2>6. CASE partial = <<2*n - 1>>
    <3>1. Awaited(n)
      BY <2>1, <2>6 DEF Awaited
    <3> QED BY <1>4, <2>1, <3>1 DEF Fresh
  <2> QED BY <2>2, <2>3, <2>4, <2>5, <2>6
<1> QED BY <1>5, <1>6, <1>8, <1>9, <1>10

LEMMA PollEndOrder == IInv /\ OInv /\ PollEnd => OInv'
<1> SUFFICES ASSUME IInv, OInv, PollEnd PROVE OInv'
  OBVIOUS
<1> USE Numbers DEF IInv, OInv
<1>1. /\ UNCHANGED <<file, offset, partial>>
      /\ poll.phase = "lines" /\ poll.todo = <<>> /\ stat' = poll.cur /\ poll' = Idle
      /\ Flush(pending)
  BY DEF PollEnd
<1>2. PICK batch \in Seq(GenuineRows) : batch = pending
  BY DEF Sorts
<1>3. /\ Ordering'
      /\ \A k \in Lines : Taken(k)' => Taken(k)
  <2>1. /\ InOrder(rows) /\ InOrder(batch)
        /\ \A k, n \in Lines :
               Stored(k) /\ Contains(batch, Genuine(n)) => k < n \/ n \in lapsed
    BY <1>2 DEF Ordering
  <2>2. /\ Ordering'
        /\ \A k \in Lines : Taken(k)' => Stored(k) \/ Contains(batch, Genuine(k))
    BY <1>1, <1>2, <2>1, FlushOrders
  <2> QED BY <1>2, <2>2 DEF Taken
<1>4. \A n \in Lines : Marked(n) \/ Contains(pending, Genuine(n)) => Marked(n)'
  BY <1>1, <1>2, FlushMarks
<1>5. \A n \in Lines : Settled(n) => Settled(n)'
  BY <1>3, <1>4 DEF Settled
<1>6. Known' = Known /\ poll'.phase = "idle" /\ poll'.todo = <<>>
  BY <1>1 DEF Known, Idle
<1>7. Again' = Again
  BY <1>1, <1>6 DEF Again, file
<1>8. \A n \in Lines : Awaited(n)' = Awaited(n)
  BY <1>1 DEF Awaited, file
<1>9. stat # Unknown
  BY <1>1 DEF Phases
<1>10. Past' /\ Fresh'
  BY <1>1, <1>3, <1>5, <1>8, <1>9 DEF Past, Fresh, file
<1>11. Todo'
  BY <1>6 DEF Todo, Contains
<1>12. Noticed'
  BY <1>1, <1>6, <1>7, <1>9 DEF Noticed, file
<1>13. Twice'
  <2>1. SUFFICES ASSUME Again, 0 < offset, offset <= end - base,
                        NEW n \in Lines \ Noise, base < 2*n - 1, 2*n - 1 <= base + offset
                 PROVE  Settled(n)'
    BY <1>1, <1>6, <1>7 DEF Twice, file
  <2>2. ~Contains(poll.todo, Whole(n))
    BY <1>1 DEF Contains
  <2>3. Marked(n) \/ Contains(pending, Genuine(n)) \/ partial = <<2*n - 1>>
    BY <1>1, <1>9, <2>1, <2>2 DEF Twice
  <2>4. CASE partial = <<2*n - 1>>
    <3>1. Awaited(n)
      BY <2>1, <2>4 DEF Awaited
    <3> QED BY <1>5, <1>9, <3>1 DEF Fresh
  <2> QED BY <1>4, <2>3, <2>4 DEF Settled
<1> QED BY <1>3, <1>10, <1>11, <1>12, <1>13

LEMMA RestartOrder == IInv /\ OInv /\ Restart => OInv'
<1> SUFFICES ASSUME IInv, OInv, Restart PROVE OInv'
  OBVIOUS
<1> USE Numbers DEF IInv, OInv
<1>1. /\ UNCHANGED file /\ rows' = rows /\ lapsed' = lapsed
      /\ stat' = Unknown /\ pending' = <<>> /\ poll' = Idle
  BY DEF Restart
<1>2. poll'.phase = "idle" /\ poll'.todo = <<>>
  BY <1>1 DEF Idle
<1>3. ~ \E r : Contains(pending', r)
  BY <1>1 DEF Contains
<1>4. \A n \in Lines : Stored(n)' = Stored(n) /\ (Taken(n)' => Taken(n))
  BY <1>1, <1>3 DEF Stored, Taken
<1>5. Ordering'
  <2>1. InOrder(rows)' /\ InOrder(pending)'
    BY <1>1 DEF Ordering, InOrder
  <2> QED BY <1>3, <2>1 DEF Ordering
<1>6. Past'
  BY <1>1, <1>4 DEF Past, file
<1>7. Fresh' /\ Twice' /\ Noticed'
  BY <1>1, <1>2 DEF Fresh, Twice, Noticed
<1>8. Todo'
  BY <1>2 DEF Todo, Contains
<1> QED BY <1>5, <1>6, <1>7, <1>8

LEMMA InitOrder == Init => OInv
<1> SUFFICES ASSUME Init PROVE OInv
  OBVIOUS
<1>1. /\ rows = <<>> /\ pending = <<>> /\ poll.todo = <<>> /\ poll.phase = "idle"
      /\ stat = Unknown
  BY DEF Init, Idle
<1>2. \A r : ~Contains(rows, r) /\ ~Contains(pending, r) /\ ~Contains(poll.todo, r)
  BY <1>1 DEF Contains
<1>3. Ordering
  BY <1>1, <1>2 DEF Ordering, InOrder
<1>4. Past /\ Fresh /\ Twice /\ Noticed
  BY <1>1, <1>2 DEF Past, Taken, Stored, Fresh, Twice, Noticed
<1>5. Todo
  BY <1>1, <1>2 DEF Todo
<1> QED BY <1>3, <1>4, <1>5 DEF OInv

LEMMA StepOrder == IInv /\ OInv /\ [Next]_vars => OInv'
<1> SUFFICES ASSUME IInv, OInv, [Next]_vars PROVE OInv'
  OBVIOUS
<1>1. CASE UNCHANGED vars
  <2>1. UNCHANGED <<rows, pending, seen, lapsed, poll, stat, offset, partial, end, base, ino, cut>>
    BY <1>1 DEF vars, file
  <2>2. /\ Ordering'
        /\ \A n \in Lines : /\ Taken(n)' = Taken(n) /\ Marked(n)' = Marked(n)
                            /\ Settled(n)' = Settled(n)
    BY <2>1, SameRows DEF OInv
  <2>3. /\ \A n \in Lines : Awaited(n)' = Awaited(n) /\ Behind(n)' = Behind(n)
        /\ Again' = Again
    BY <2>1 DEF Awaited, Behind, Again, Known
  <2> QED BY <2>1, <2>2, <2>3 DEF OInv, Past, Fresh, Todo, Twice, Noticed
<1>2. CASE Poll
  BY <1>2, BaselineOrder, PollStatOrder, PollReadOrder, OpenFailsOrder, SkipLineOrder,
     TakeLineOrder, ResolveFailsOrder, PollEndOrder DEF Poll
<1> QED BY <1>1, <1>2, XrayLogsOrder, CutOrder, RestartOrder DEF Next

(* The rows of connections come in the order of the log and none twice        *)
(* (isDuplicate, remember, flush), except lines whose fingerprint was pushed  *)
(* out by the cap or never kept, for any chunk, batch, cap, rotations and     *)
(* faults.                                                                    *)
THEOREM StoredOnce == Spec => []StoredInOrder
<1>1. Init => IInv /\ OInv
  BY InitInv, InitOrder
<1>2. (IInv /\ OInv) /\ [Next]_vars => (IInv /\ OInv)'
  BY StepInv, StepOrder
<1>3. OInv => StoredInOrder
  BY DEF OInv, Ordering, InOrder, StoredInOrder
<1> QED BY <1>1, <1>2, <1>3, PTL DEF Spec
=============================================================================
