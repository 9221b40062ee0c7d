----------------------------- MODULE PagesProofs -----------------------------
(* Proved of Pages for every table, search, page size and bound: what a       *)
(* dialog shows is what it is set to, and whoever turns its pages to the last *)
(* one has been shown every row that was there all along.                     *)
EXTENDS Pages, FiniteSetTheorems, TLAPS

Shape(r) == r = [n |-> r.n, kind |-> r.kind, q |-> r.q, offset |-> r.offset,
                 range |-> r.range, served |-> r.served, answer |-> r.answer]

(* A request belongs to a run that has begun; the run that is alive asked for *)
(* what the dialog is set to.                                                 *)
OfRun(r) ==
    /\ Shape(r)
    /\ r.n \in 1..runs
    /\ r.n = current.list => r.kind = "list" /\ <<r.q, r.offset>> = <<q, offset>>
    /\ r.n = current.chart => r.kind = "chart" /\ r.range = range

RunsInv ==
    /\ runs \in Nat
    /\ current = [chart |-> current.chart, list |-> current.list]
    /\ current.list \in 1..runs /\ current.chart \in 1..runs
    /\ current.list # current.chart
    /\ \A r \in wire : OfRun(r)

AskedInv == RunsInv /\ ShownIsAsked

LEMMA InitAsked == Init => AskedInv
<1> SUFFICES ASSUME Init PROVE AskedInv
  OBVIOUS
<1>1. /\ runs = 2 /\ current = [chart |-> 1, list |-> 2]
      /\ wire \subseteq {ChartRequest(1, range), ListRequest(2, NoWord, 0)}
      /\ ListRequest(2, NoWord, 0) \in wire
      /\ q = NoWord /\ offset = 0
  BY DEF Init, Opened
<1>2. OfRun(ListRequest(2, NoWord, 0))
  BY <1>1 DEF OfRun, Shape, ListRequest
<1>3. OfRun(ChartRequest(1, range))
  BY <1>1 DEF OfRun, Shape, ChartRequest
<1>4. RunsInv
  BY <1>1, <1>2, <1>3 DEF RunsInv
<1>5. ShownIsAsked
  BY <1>1 DEF Init, ListRequest, ShownIsAsked
<1> QED
  BY <1>4, <1>5 DEF AskedInv

(* The server's answer leaves a request what it is.                           *)
LEMMA ServeStep ==
    ASSUME AskedInv, NEW r \in wire, Serve(r)
    PROVE  AskedInv'
<1> DEFINE t == [r EXCEPT !.served = TRUE,
                          !.answer = IF r.kind = "list" THEN Answer(r.q, PAGE, r.offset)
                                                        ELSE NoAnswer]
<1> HIDE DEF t
<1>0. PICK s : s = t
  OBVIOUS
<1>1. wire' = (wire \ {r}) \cup {s}
  BY <1>0 DEF Serve, t
<1>2. UNCHANGED <<runs, current, q, offset, conns, loading, failed, range, points>>
  BY DEF Serve, list, chart
<1>3. Shape(r)
  BY DEF AskedInv, RunsInv, OfRun
<1>4. /\ Shape(s)
      /\ s.n = r.n /\ s.kind = r.kind /\ s.q = r.q /\ s.offset = r.offset /\ s.range = r.range
  BY <1>0, <1>3 DEF Shape, t
<1>5. RunsInv'
  BY <1>1, <1>2, <1>4 DEF AskedInv, RunsInv, OfRun, Shape
<1>6. ShownIsAsked'
  BY <1>1, <1>2, <1>4 DEF AskedInv, ShownIsAsked
<1> QED
  BY <1>5, <1>6 DEF AskedInv

(* A new search or page is a new run of the table's effect.                   *)
LEMMA ShowsStep ==
    ASSUME AskedInv, NEW p, NEW at, NEW w, Shows(p, at, w)
    PROVE  AskedInv'
<1>0. PICK s : s = ListRequest(runs + 1, p, at)
  OBVIOUS
<1>1. /\ wire' = wire \cup {s}
      /\ runs' = runs + 1 /\ current' = [current EXCEPT !.list = runs + 1]
      /\ q' = p /\ offset' = at /\ loading' = TRUE
      /\ UNCHANGED <<conns, range, points>>
  BY <1>0 DEF Shows, chart
<1>2. /\ current'.list = runs + 1 /\ current'.chart = current.chart
      /\ current' = [chart |-> current'.chart, list |-> current'.list]
  BY <1>1 DEF AskedInv, RunsInv
<1>3. Shape(s) /\ s.n = runs + 1 /\ s.kind = "list" /\ s.q = p /\ s.offset = at
  BY <1>0 DEF ListRequest, Shape
<1>4. \A r \in wire : OfRun(r)'
  BY <1>1, <1>2 DEF AskedInv, RunsInv, OfRun, Shape
<1>5. OfRun(s)'
  BY <1>1, <1>2, <1>3 DEF AskedInv, RunsInv, OfRun, Shape
<1>6. RunsInv'
  BY <1>1, <1>2, <1>4, <1>5 DEF AskedInv, RunsInv
<1>7. ShownIsAsked'
  BY <1>1, <1>2, <1>3 DEF AskedInv, ShownIsAsked
<1> QED
  BY <1>6, <1>7 DEF AskedInv

(* A new range clears the chart before its answer can come.                   *)
LEMMA PickStep ==
    ASSUME AskedInv, NEW g \in Ranges, PickRange(g)
    PROVE  AskedInv'
<1>1. /\ range' = g /\ points' = NoPoints
      /\ UNCHANGED <<q, offset, conns, loading, failed>>
  BY DEF PickRange, list
<1>2. CASE UNCHANGED <<wire, runs, current>> /\ g = range
  BY <1>1, <1>2 DEF AskedInv, RunsInv, OfRun, Shape, ShownIsAsked
<1>3. CASE g # range
  <2>0. PICK s : s = ChartRequest(runs + 1, g)
    OBVIOUS
  <2>1. /\ wire' = wire \cup {s}
        /\ runs' = runs + 1 /\ current' = [current EXCEPT !.chart = runs + 1]
    BY <1>3, <2>0 DEF PickRange
  <2>2. /\ current'.chart = runs + 1 /\ current'.list = current.list
        /\ current' = [chart |-> current'.chart, list |-> current'.list]
    BY <2>1 DEF AskedInv, RunsInv
  <2>3. Shape(s) /\ s.n = runs + 1 /\ s.kind = "chart" /\ s.range = g
    BY <2>0 DEF ChartRequest, Shape
  <2>4. \A r \in wire : OfRun(r)'
    BY <1>1, <2>1, <2>2 DEF AskedInv, RunsInv, OfRun, Shape
  <2>5. OfRun(s)'
    BY <1>1, <2>1, <2>2, <2>3 DEF AskedInv, RunsInv, OfRun, Shape
  <2>6. RunsInv'
    BY <2>1, <2>2, <2>4, <2>5 DEF AskedInv, RunsInv
  <2>7. ShownIsAsked'
    BY <1>1, <2>1, <2>2 DEF AskedInv, ShownIsAsked
  <2> QED
    BY <2>6, <2>7 DEF AskedInv
<1> QED
  BY <1>2, <1>3 DEF PickRange

(* An answer to a run that has ended is dropped; one to a run that is alive   *)
(* is the answer to what the dialog is set to.                                *)
LEMMA LandStep ==
    ASSUME AskedInv, NEW r \in wire, Land(r)
    PROVE  AskedInv'
<1>1. wire' = wire \ {r} /\ UNCHANGED <<runs, current>>
  BY DEF Land
<1>2. CASE ~ Alive(r)
  <2>1. UNCHANGED <<q, offset, conns, loading, failed, range, points>>
    BY <1>2 DEF Land, list, chart
  <2>2. r.n # current.list
    BY <1>2 DEF Alive
  <2> QED
    BY <1>1, <2>1, <2>2 DEF AskedInv, RunsInv, OfRun, Shape, ShownIsAsked
<1>3. CASE Alive(r)
  <2>1. UNCHANGED <<q, offset, range>>
    BY <1>3 DEF Land, ListLands, ChartLands, list, chart
  <2>2. RunsInv'
    BY <1>1, <2>1 DEF AskedInv, RunsInv, OfRun, Shape
  <2>3. PICK ok \in BOOLEAN \cup {r.served} : ListLands(r, ok) \/ ChartLands(r, ok)
    BY <1>3 DEF Land
  <2>4. CASE ListLands(r, ok)
    <3>1. <<r.q, r.offset>> = <<q, offset>>
      BY <1>3, <2>4 DEF Alive, ListLands, AskedInv, RunsInv, OfRun
    <3>2. /\ loading' = FALSE /\ UNCHANGED <<range, points>>
          /\ failed' = ~ ok
          /\ ok => conns'.q = r.q /\ conns'.offset = r.offset
      BY <2>4 DEF ListLands, chart
    <3> QED
      BY <2>1, <2>2, <3>1, <3>2 DEF AskedInv, ShownIsAsked
  <2>5. CASE ChartLands(r, ok)
    <3>1. r.n # current.list /\ r.range = range
      BY <1>3, <2>5 DEF Alive, ChartLands, AskedInv, RunsInv, OfRun
    <3>2. (points' = r.range \/ points' = points) /\ UNCHANGED <<conns, loading, failed>>
      BY <2>5 DEF ChartLands, list
    <3> QED
      BY <1>1, <2>1, <2>2, <3>1, <3>2 DEF AskedInv, ShownIsAsked
  <2> QED
    BY <2>3, <2>4, <2>5
<1> QED
  BY <1>2, <1>3

LEMMA StepAsked == AskedInv /\ [Next]_vars => AskedInv'
<1> SUFFICES ASSUME AskedInv, [Next]_vars PROVE AskedInv'
  OBVIOUS
<1>1. CASE UNCHANGED <<wire, runs, current, list, chart>>
  BY <1>1 DEF AskedInv, RunsInv, OfRun, Shape, ShownIsAsked, list, chart
<1>2. ASSUME NEW r \in wire, Serve(r) \/ Land(r) PROVE AskedInv'
  BY <1>2, ServeStep, LandStep
<1>3. ASSUME NEW p, NEW at, NEW w, Shows(p, at, w) PROVE AskedInv'
  BY <1>3, ShowsStep
<1>4. ASSUME NEW g \in Ranges, PickRange(g) PROVE AskedInv'
  BY <1>4, PickStep
<1> QED
  BY <1>1, <1>2, <1>3, <1>4
     DEF Next, vars, table, Insert, Sweep, Search, NextPage, PrevPage, GoToPage

(* A page shown as loaded is the page asked for, a chart shown covers the     *)
(* range picked, and "loading" waits for an answer (LinkDetailModal.tsx and   *)
(* AuditModal.tsx, the alive flags), in whatever order answers come.          *)
THEOREM ShownAsAsked == Spec => []ShownIsAsked
<1>1. AskedInv => ShownIsAsked
  BY DEF AskedInv
<1> QED
  BY InitAsked, StepAsked, <1>1, PTL DEF Spec
----------------------------------------------------------------------------
(* The order of the rows.                                                     *)

(* What a query finds: finitely many rows of different ids.                   *)
Unique(S) == \A r, s \in S : r.id = s.id => r = s
Found(S) == S \subseteq Row /\ IsFiniteSet(S) /\ Unique(S)

UpTo(S, r) == {s \in S : s = r \/ Before(s, r)}

LEMMA RowFields ==
    ASSUME NEW r \in Row
    PROVE  r.ts \in Nat /\ r.id \in Nat /\ r.id \in 1..MaxRows
<1>1. r.id \in 1..MaxRows /\ r.ts \in Times
  BY DEF Row
<1>2. Times \subseteq Nat /\ MaxRows \in Nat
  BY PagesAssumption
<1>3. r.ts \in Nat
  BY <1>1, <1>2
<1>4. \A n \in 1..MaxRows : n \in Nat
  BY <1>2
<1>5. r.id \in Nat
  BY <1>1, <1>4
<1> QED BY <1>1, <1>3, <1>5

LEMMA BeforeOrders ==
    ASSUME NEW r \in Row, NEW s \in Row, NEW t \in Row
    PROVE  /\ ~Before(r, r)
           /\ Before(r, s) /\ Before(s, t) => Before(r, t)
           /\ r.id # s.id => Before(r, s) \/ Before(s, r)
           /\ ~(Before(r, s) /\ Before(s, r))
<1>1. /\ r.ts \in Nat /\ r.id \in Nat /\ s.ts \in Nat /\ s.id \in Nat
      /\ t.ts \in Nat /\ t.id \in Nat
  BY RowFields
<1> QED BY <1>1 DEF Before

LEMMA Placed ==
    ASSUME NEW S, Found(S), NEW r \in S
    PROVE  /\ IsFiniteSet(UpTo(S, r)) /\ Place(S, r) = Cardinality(UpTo(S, r))
           /\ Place(S, r) \in 1..Cardinality(S) /\ Cardinality(S) \in Nat
<1>1. UpTo(S, r) \in SUBSET S /\ r \in UpTo(S, r)
  BY DEF UpTo
<1>2. /\ IsFiniteSet(UpTo(S, r)) /\ Cardinality(UpTo(S, r)) <= Cardinality(S)
  BY <1>1, FS_Subset DEF Found
<1>3. Cardinality(UpTo(S, r)) \in Nat /\ Cardinality(S) \in Nat
  BY <1>2, FS_CardinalityType DEF Found
<1>4. Cardinality(UpTo(S, r)) # 0
  BY <1>1, <1>2, FS_EmptySet
<1>5. Place(S, r) = Cardinality(UpTo(S, r))
  BY DEF Place, UpTo
<1> QED BY <1>2, <1>3, <1>4, <1>5

(* A row that is inserted moves the others to the same or to later places.    *)
LEMMA PlaceGrows ==
    ASSUME NEW T, Found(T), NEW S, S \subseteq T, NEW r \in S
    PROVE  Place(S, r) <= Place(T, r)
<1>1. UpTo(S, r) \in SUBSET UpTo(T, r)
  BY DEF UpTo
<1>2. IsFiniteSet(UpTo(T, r))
  BY Placed
<1>3. Cardinality(UpTo(S, r)) <= Cardinality(UpTo(T, r))
  BY <1>1, <1>2, FS_Subset
<1> QED BY <1>3 DEF Place, UpTo

(* What is swept is behind what stays.                                        *)
LEMMA SweepKeepsPlaces ==
    ASSUME NEW S, S \subseteq Row, NEW before \in Nat, NEW r \in S, r.ts >= before
    PROVE  Place({s \in S : s.ts >= before}, r) = Place(S, r)
<1>1. \A s \in S : Before(s, r) => s.ts >= before
  <2>1. \A s \in Row : s.ts \in Nat /\ s.id \in Nat
    BY RowFields
  <2> QED BY <2>1 DEF Before
<1>2. UpTo({s \in S : s.ts >= before}, r) = UpTo(S, r)
  BY <1>1 DEF UpTo
<1> QED BY <1>2 DEF Place, UpTo

LEMMA PlacesDiffer ==
    ASSUME NEW S, Found(S), NEW r \in S, NEW s \in S, Place(S, r) = Place(S, s)
    PROVE  r = s
<1>1. ASSUME NEW a \in S, NEW b \in S, Before(a, b) PROVE Place(S, a) # Place(S, b)
  <2>1. UpTo(S, a) \in SUBSET UpTo(S, b)
    <3>1. \A c \in S : Before(c, a) => Before(c, b)
      BY <1>1, BeforeOrders DEF Found
    <3> QED BY <1>1, <3>1 DEF UpTo
  <2>2. b \in UpTo(S, b) /\ b \notin UpTo(S, a)
    BY <1>1, BeforeOrders DEF Found, UpTo
  <2>3. IsFiniteSet(UpTo(S, b))
    BY Placed
  <2>4. Cardinality(UpTo(S, b)) # Cardinality(UpTo(S, a))
    BY <2>1, <2>2, <2>3, FS_Subset
  <2> QED BY <2>4 DEF Place, UpTo
<1>2. r.id # s.id => Before(r, s) \/ Before(s, r)
  BY BeforeOrders DEF Found
<1> QED BY <1>1, <1>2 DEF Found, Unique

LEMMA RowAtPlace ==
    ASSUME NEW S, Found(S), NEW r \in S
    PROVE  RowAt(S, Place(S, r)) = r
<1>1. \E s \in S : Place(S, s) = Place(S, r)
  OBVIOUS
<1>2. RowAt(S, Place(S, r)) \in S /\ Place(S, RowAt(S, Place(S, r))) = Place(S, r)
  BY <1>1 DEF RowAt
<1> QED BY <1>2, PlacesDiffer

(* No place is empty.                                                         *)
LEMMA PlacesFilled ==
    ASSUME NEW S, Found(S), NEW i \in 1..Cardinality(S)
    PROVE  RowAt(S, i) \in S
<1> DEFINE f == [r \in S |-> Place(S, r)]
<1>1. IsFiniteSet(S) /\ Cardinality(S) \in Nat
  BY FS_CardinalityType DEF Found
<1>2. IsFiniteSet(1..Cardinality(S)) /\ Cardinality(1..Cardinality(S)) = Cardinality(S)
  <2>1. PICK n \in Nat : n = Cardinality(S)
    BY <1>1
  <2>2. IsFiniteSet(1..n) /\ Cardinality(1..n) = IF 1 > n THEN 0 ELSE n - 1 + 1
    BY FS_Interval
  <2> QED BY <2>1, <2>2
<1>3. f \in [S -> 1..Cardinality(S)]
  BY Placed
<1>4. f \in Injection(S, 1..Cardinality(S))
  <2>1. \A r, s \in S : f[r] = f[s] => r = s
    BY PlacesDiffer
  <2> HIDE DEF f
  <2> QED BY <1>3, <2>1 DEF Injection, IsInjective
<1> HIDE DEF f
<1>5. f \in Surjection(S, 1..Cardinality(S))
  BY <1>1, <1>2, <1>4, FS_Injection
<1>6. PICK r \in S : f[r] = i
  BY <1>5 DEF Surjection
<1>7. Place(S, r) = i
  BY <1>6 DEF f
<1> QED BY <1>7, RowAtPlace
----------------------------------------------------------------------------
(* The table, and what a request is answered.                                 *)

(* Rows written so far: one that is inserted later is none of them.           *)
Logged == {r \in Row : r.id <= lastId}

TableInv ==
    /\ view \in {"connections", "audit"}
    /\ lastId \in 0..MaxRows
    /\ rows \subseteq Logged
    /\ Found(rows)
    /\ Cardinality(rows) <= lastId

Offsets == 0..(MaxRows + PAGE)
AnswerType == [rows : Seq(Row), total : 0..MaxRows, all : SUBSET Row]

PageOf(a) == {a.rows[i] : i \in 1..Len(a.rows)}
Typed(a) ==
    /\ a \in AnswerType
    /\ Len(a.rows) <= PAGE /\ Len(a.rows) <= a.total

LEMMA Bounds ==
    /\ PAGE \in Nat /\ PAGE \in 1..200 /\ MaxRows \in Nat
    /\ MaxRows + PAGE <= MAX_SAFE_INTEGER /\ MAX_SAFE_INTEGER \in Nat
BY PagesAssumption

LEMMA NoAnswerTyped == Typed(NoAnswer)
BY Bounds DEF Typed, AnswerType, NoAnswer

LEMMA WhereFinds ==
    ASSUME TableInv, NEW p \in Searches
    PROVE  /\ Found(Where(p)) /\ Where(p) \subseteq rows
           /\ Cardinality(Where(p)) \in 0..MaxRows
<1>1. Where(p) \in SUBSET rows
  BY DEF Where
<1>2. IsFiniteSet(Where(p)) /\ Cardinality(Where(p)) <= Cardinality(rows)
  BY <1>1, FS_Subset DEF TableInv, Found
<1>3. Cardinality(Where(p)) \in Nat /\ Cardinality(rows) \in Nat
  BY <1>2, FS_CardinalityType DEF TableInv, Found
<1>4. Found(Where(p))
  BY <1>1, <1>2 DEF TableInv, Found, Unique
<1>5. Cardinality(Where(p)) <= MaxRows
  BY <1>2, <1>3, Bounds DEF TableInv
<1> QED BY <1>1, <1>3, <1>4, <1>5, Bounds

(* A page is what it should be: the rows from one place on, as many as the    *)
(* page is long.                                                              *)
LEMMA AnswerIs ==
    ASSUME TableInv, NEW p \in Searches, NEW at \in Offsets
    PROVE  /\ Typed(Answer(p, PAGE, at))
           /\ Answer(p, PAGE, at).all = Where(p)
           /\ \A r \in Where(p) :
                 /\ at < Place(Where(p), r) /\ Place(Where(p), r) <= at + PAGE
                        => r \in PageOf(Answer(p, PAGE, at))
                 /\ at + PAGE < Place(Where(p), r)
                        => at + PAGE < Answer(p, PAGE, at).total
<1> PICK found : found = Where(p)
  OBVIOUS
<1> PICK n : n = Cardinality(found)
  OBVIOUS
<1> DEFINE last == IF at + PAGE > n THEN n ELSE at + PAGE
           page == [i \in 1..(last - at) |-> RowAt(found, at + i)]
<1>1. Found(found) /\ n \in 0..MaxRows /\ n \in Nat
  BY WhereFinds, Bounds
<1>2. at \in Nat /\ at <= MAX_SAFE_INTEGER /\ at + PAGE \in Nat /\ last \in Nat
  BY <1>1, Bounds DEF Offsets
<1>3. ClampInt(at, 0, MAX_SAFE_INTEGER) = at
  BY <1>2, Bounds DEF ClampInt
<1>4. ClampInt(PAGE, 1, 200) = PAGE
  BY Bounds DEF ClampInt
<1>5. ClampInt(LastRow(at + 1, PAGE), 0, n) = last
  <2>1. LastRow(at + 1, PAGE) = at + PAGE
    BY <1>2, Bounds DEF LastRow
  <2> QED BY <1>1, <1>2, <2>1 DEF ClampInt
<1>6. Answer(p, PAGE, at) = [rows |-> page, total |-> n, all |-> found]
  <2>1. Answer(p, PAGE, at) =
           [rows |-> [i \in 1..(last - (at + 1) + 1) |-> RowAt(found, (at + 1) + i - 1)],
            total |-> n, all |-> found]
    BY <1>3, <1>4, <1>5 DEF Answer
  <2>2. last - (at + 1) + 1 = last - at
    BY <1>2
  <2>3. \A i \in 1..(last - at) : (at + 1) + i - 1 = at + i
    BY <1>2
  <2>4. [i \in 1..(last - at) |-> RowAt(found, (at + 1) + i - 1)] = page
    BY <2>3
  <2> HIDE DEF last, page
  <2> QED BY <2>1, <2>2, <2>4
<1> PICK a : a = Answer(p, PAGE, at)
  OBVIOUS
<1>7. a.rows = page /\ a.total = n /\ a.all = found
  BY <1>6
<1> DEFINE len == IF last > at THEN last - at ELSE 0
<1>8. len \in Nat /\ len <= PAGE /\ len <= n /\ 1..(last - at) = 1..len
  BY <1>1, <1>2, Bounds
<1>9. page \in [1..len -> Row]
  <2>1. ASSUME NEW i \in 1..(last - at) PROVE RowAt(found, at + i) \in Row
    <3>1. at + i \in 1..n
      BY <1>1, <1>2
    <3>2. PICK j \in 1..Cardinality(found) : j = at + i
      BY <3>1
    <3>3. RowAt(found, j) \in found
      BY <1>1, PlacesFilled
    <3> QED BY <1>1, <3>2, <3>3 DEF Found
  <2> HIDE DEF last
  <2> QED BY <1>8, <2>1
<1>10. page \in Seq(Row) /\ Len(page) = len
  <2> HIDE DEF page, len
  <2> QED BY <1>8, <1>9
<1>11. Typed(a)
  <2>1. found \in SUBSET Row
    BY <1>1 DEF Found
  <2> HIDE DEF page, len
  <2> QED BY <1>1, <1>6, <1>8, <1>10, <2>1 DEF Typed, AnswerType
<1>12. ASSUME NEW r \in found, at < Place(found, r), Place(found, r) <= at + PAGE
       PROVE  r \in PageOf(a)
  <2>1. Place(found, r) \in 1..n
    BY <1>1, Placed
  <2>2. PICK k \in 1..n : k = Place(found, r)
    BY <2>1
  <2>3. k - at \in 1..(last - at) /\ at + (k - at) = k
    BY <1>1, <1>2, <1>12, <2>2
  <2>4. PICK i \in 1..(last - at) : i = k - at
    BY <2>3
  <2>5. page[i] = RowAt(found, k)
    BY <2>3, <2>4
  <2>6. RowAt(found, k) = r
    BY <1>1, <2>2, RowAtPlace
  <2>7. i \in 1..Len(page)
    BY <1>8, <1>10, <2>4
  <2> HIDE DEF page, last, len
  <2> QED BY <1>7, <2>5, <2>6, <2>7 DEF PageOf
<1>13. ASSUME NEW r \in found, at + PAGE < Place(found, r) PROVE at + PAGE < a.total
  <2>1. Place(found, r) \in 1..n
    BY <1>1, Placed
  <2> QED BY <1>1, <1>2, <1>7, <1>13, <2>1
<1> HIDE DEF page, last, len
<1> QED BY <1>7, <1>11, <1>12, <1>13
----------------------------------------------------------------------------
(* The pager counts pages as the offsets do.                                  *)

LEMMA Quotient ==
    ASSUME NEW x \in Nat, NEW d \in Nat \ {0}
    PROVE  x \div d \in Nat /\ (x \div d) * d <= x /\ x < (x \div d) * d + d
OBVIOUS

LEMMA Wider ==
    ASSUME NEW a \in Nat, NEW b \in Nat, NEW d \in Nat \ {0}, a <= b
    PROVE  a * d <= b * d
OBVIOUS

LEMMA PagerCounts ==
    ASSUME conns.total \in Nat, offset \in Nat
    PROVE  /\ TotalPages \in Nat
           /\ CurPage < TotalPages => offset < conns.total
           /\ offset + PAGE < conns.total => CurPage < TotalPages
           /\ \A p \in 1..TotalPages : (p - 1) * PAGE \in 0..conns.total
<1> PICK total \in Nat, at \in Nat, d \in Nat \ {0} :
       total = conns.total /\ at = offset /\ d = PAGE
  BY Bounds
<1> PICK a : a = at \div d
  OBVIOUS
<1>1. a \in Nat /\ a * d <= at /\ at < a * d + d
  BY Quotient
<1>2. CurPage = a + 1
  BY DEF CurPage
<1>3. CASE total = 0
  BY <1>2, <1>1, <1>3 DEF TotalPages
<1>4. CASE total # 0
  <2> PICK b : b = (total + d - 1) \div d
    OBVIOUS
  <2>1. b \in Nat /\ b * d <= total + d - 1 /\ total + d - 1 < b * d + d
    <3>1. total + d - 1 \in Nat
      OBVIOUS
    <3> QED BY <3>1, Quotient
  <2>2. TotalPages = b
    BY <1>4 DEF TotalPages, CeilDiv
  <2>3. ASSUME a + 1 < b PROVE at < total
    <3>1. (a + 2) * d <= b * d
      BY <1>1, <2>1, <2>3, Wider
    <3>2. (a + 2) * d = a * d + d + d /\ a * d \in Nat /\ b * d \in Nat
      BY <1>1, <2>1
    <3> QED BY <1>1, <2>1, <3>1, <3>2
  <2>4. ASSUME at + d < total, ~(a + 1 < b) PROVE FALSE
    <3>1. b * d <= (a + 1) * d
      BY <1>1, <2>1, <2>4, Wider
    <3>2. (a + 1) * d = a * d + d /\ a * d \in Nat /\ b * d \in Nat
      BY <1>1, <2>1
    <3> QED BY <1>1, <2>1, <2>4, <3>1, <3>2
  <2>5. ASSUME NEW p \in 1..b PROVE (p - 1) * d \in 0..total
    <3>1. p * d <= b * d
      BY <2>1, Wider
    <3>2. (p - 1) * d = p * d - d /\ (p - 1) * d \in Nat /\ p * d \in Nat /\ b * d \in Nat
      BY <2>1
    <3> QED BY <2>1, <3>1, <3>2
  <2> QED BY <1>2, <2>1, <2>2, <2>3, <2>4, <2>5
<1> QED BY <1>3, <1>4
----------------------------------------------------------------------------
(* The invariant of a walk: a row that was there all the while and has not    *)
(* been shown is behind the pages shown, wherever the request for the next    *)
(* page is on its way.                                                        *)

Kinds ==
    /\ runs \in 2..MaxRuns
    /\ q \in Searches /\ offset \in Offsets
    /\ loading \in BOOLEAN /\ failed \in BOOLEAN
    /\ range \in Ranges /\ points \in Ranges \cup {NoPoints}
    /\ conns.rows \in Seq(Row) /\ Len(conns.rows) <= PAGE /\ Len(conns.rows) <= conns.total
    /\ conns.total \in 0..MaxRows
    /\ walk \in [on : BOOLEAN, base : SUBSET Logged, seen : SUBSET Row]

WireInv ==
    \A m \in wire :
        /\ m.q \in Searches /\ m.offset \in Offsets /\ m.served \in BOOLEAN
        /\ Typed(m.answer) /\ m.answer.all \subseteq Logged
        /\ \A o \in wire : o.n = m.n => o = m

(* Row r is behind the page that answers m, and the answer says that there is *)
(* more.                                                                      *)
Beyond(m, r) ==
    /\ m.offset + PAGE < m.answer.total
    /\ r \in Where(m.q) => m.offset + PAGE < Place(Where(m.q), r)

(* The answer to m shows the rows of S, or they are behind it.                *)
Tells(m, S) ==
    \A r \in S \cap m.answer.all : r \in PageOf(m.answer) \/ Beyond(m, r)

FirstInv ==
    \A m \in wire :
        m.kind = "list" /\ m.served /\ m.offset = 0 => Tells(m, m.answer.all)

Missing == walk.base \ walk.seen
Ahead(r) == r \in Where(q) => offset < Place(Where(q), r)

WalkInv ==
    walk.on =>
        /\ ~ failed
        /\ ~ loading =>
              \A r \in Missing :
                  /\ offset + PAGE < conns.total
                  /\ r \in Where(q) => offset + PAGE < Place(Where(q), r)
        /\ loading =>
              /\ offset # 0
              /\ \A m \in wire :
                    m.n = current.list => IF m.served THEN Tells(m, Missing)
                                          ELSE \A r \in Missing : Ahead(r)

Landed == ~ loading => \A m \in wire : m.n # current.list

IInv ==
    /\ AskedInv
    /\ TableInv
    /\ Kinds
    /\ WireInv
    /\ FirstInv
    /\ Landed
    /\ WalkInv

LEMMA FirstRequests ==
    ASSUME NEW n, NEW g
    PROVE  /\ ListRequest(n, NoWord, 0).n = n /\ ChartRequest(n, g).n = n
           /\ \A m \in {ListRequest(n, NoWord, 0), ChartRequest(n, g)} :
                 /\ m.q \in Searches /\ m.offset \in Offsets
                 /\ m.served = FALSE /\ m.answer = NoAnswer
BY Bounds DEF ListRequest, ChartRequest, Searches, Offsets

LEMMA InitInv == Init => IInv
<1> SUFFICES ASSUME Init PROVE IInv
  OBVIOUS
<1>1. AskedInv
  BY InitAsked
<1>2. TableInv
  <2>1. IsFiniteSet({}) /\ Cardinality({}) = 0
    BY FS_EmptySet
  <2> QED BY <2>1, Bounds DEF Init, TableInv, Found, Unique
<1>3. /\ runs = 2 /\ current = [chart |-> 1, list |-> 2]
      /\ wire \subseteq {ChartRequest(1, range), ListRequest(2, NoWord, 0)}
  BY DEF Init, Opened
<1>4. Kinds
  <2>1. runs \in 2..MaxRuns
    BY <1>3, PagesAssumption
  <2>2. q \in Searches /\ offset \in Offsets /\ range \in Ranges
    BY Bounds DEF Init, Searches, Offsets
  <2>3. /\ conns.rows \in Seq(Row) /\ Len(conns.rows) = 0 /\ conns.total = 0
    BY DEF Init, NoConns
  <2>4. walk \in [on : BOOLEAN, base : SUBSET Logged, seen : SUBSET Row]
    BY DEF Init, NoWalk
  <2>5. loading = TRUE /\ failed = FALSE /\ points = NoPoints
    BY DEF Init
  <2>6. 0 <= PAGE /\ 0 \in 0..MaxRows
    BY Bounds
  <2>7. loading \in BOOLEAN /\ failed \in BOOLEAN /\ points \in Ranges \cup {NoPoints}
    BY <2>5
  <2>8. /\ Len(conns.rows) <= PAGE /\ Len(conns.rows) <= conns.total
        /\ conns.total \in 0..MaxRows
    BY <2>3, <2>6
  <2> QED BY <2>1, <2>2, <2>3, <2>4, <2>7, <2>8 DEF Kinds
<1> PICK c : c = ChartRequest(1, range)
  OBVIOUS
<1> PICK l : l = ListRequest(2, NoWord, 0)
  OBVIOUS
<1>10. /\ wire \subseteq {c, l} /\ c.n = 1 /\ l.n = 2
      /\ \A m \in {c, l} : /\ m.q \in Searches /\ m.offset \in Offsets
                          /\ m.served = FALSE /\ m.answer = NoAnswer
  <2>1. /\ c.n = 1 /\ c.q \in Searches /\ c.offset \in Offsets
        /\ c.served = FALSE /\ c.answer = NoAnswer
    BY FirstRequests
  <2>2. /\ l.n = 2 /\ l.q \in Searches /\ l.offset \in Offsets
        /\ l.served = FALSE /\ l.answer = NoAnswer
    BY FirstRequests
  <2> QED BY <1>3, <2>1, <2>2
<1>5. \A m \in wire : /\ m.q \in Searches /\ m.offset \in Offsets
                      /\ m.served = FALSE /\ m.answer = NoAnswer
  BY <1>10
<1>6. \A m, o \in wire : o.n = m.n => o = m
  BY <1>10
<1>7. WireInv
  <2>1. NoAnswer.all = {}
    BY DEF NoAnswer
  <2> QED BY <1>5, <1>6, <2>1, NoAnswerTyped DEF WireInv
<1>8. FirstInv
  BY <1>5 DEF FirstInv
<1>9. Landed /\ WalkInv
  BY DEF Init, NoWalk, Landed, WalkInv
<1> QED BY <1>1, <1>2, <1>4, <1>7, <1>8, <1>9 DEF IInv

----------------------------------------------------------------------------
(* The table moves under the dialog.                                          *)

(* What a step of the table may do to the rows that were there: take some     *)
(* away, and put others before them.                                          *)
Moves ==
    /\ Logged \subseteq Logged'
    /\ \A p \in Searches : \A r \in Logged :
          r \in Where(p)' => r \in Where(p) /\ Place(Where(p), r) <= Place(Where(p), r)'
    /\ \A p \in Searches : \A r \in Where(p) : Place(Where(p), r) \in Nat
    /\ \A p \in Searches : \A r \in Where(p)' : Place(Where(p), r)' \in Nat

LEMMA TableStep ==
    ASSUME IInv, TableInv', Moves, UNCHANGED <<wire, runs, current, list, chart>>
    PROVE  IInv'
<1>1. UNCHANGED <<q, offset, conns, loading, failed, walk, range, points>>
  BY DEF list, chart
<1>2. AskedInv'
  BY <1>1 DEF IInv, AskedInv, RunsInv, OfRun, Shape, ShownIsAsked
<1>3. Kinds'
  <2>1. walk' \in [on : BOOLEAN, base : SUBSET Logged', seen : SUBSET Row]
    BY <1>1 DEF IInv, Kinds, Moves
  <2> QED BY <1>1, <2>1 DEF IInv, Kinds
<1>4. WireInv'
  BY DEF IInv, WireInv, Typed, Moves
<1>5. offset + PAGE \in Nat /\ offset \in Nat /\ q \in Searches
  BY Bounds DEF IInv, Kinds, Offsets
<1>6. ASSUME NEW k \in Nat, NEW p \in Searches, NEW r \in Logged,
             r \in Where(p) => k < Place(Where(p), r)
      PROVE  r \in Where(p)' => k < Place(Where(p), r)'
  BY <1>6 DEF Moves
<1>7. ASSUME NEW m \in wire, NEW r \in Logged, Beyond(m, r) PROVE Beyond(m, r)'
  <2>1. m.q \in Searches /\ m.offset + PAGE \in Nat
    BY Bounds DEF IInv, WireInv, Offsets
  <2> QED BY <1>6, <1>7, <2>1 DEF Beyond
<1>8. ASSUME NEW m \in wire, NEW S, Tells(m, S) PROVE Tells(m, S)'
  <2>1. m.answer.all \subseteq Logged
    BY DEF IInv, WireInv
  <2> QED BY <1>7, <1>8, <2>1 DEF Tells
<1>9. FirstInv'
  BY <1>8 DEF IInv, FirstInv
<1>10. Landed'
  BY <1>1 DEF IInv, Landed
<1>11. Missing' = Missing /\ Missing \subseteq Logged
  BY <1>1 DEF Missing, IInv, Kinds
<1>12. ASSUME NEW r \in Missing, Ahead(r) PROVE Ahead(r)'
  BY <1>1, <1>5, <1>6, <1>11, <1>12 DEF Ahead
<1>13. WalkInv'
  <2> SUFFICES ASSUME walk.on PROVE WalkInv'
    BY <1>1 DEF WalkInv
  <2>1. ~ failed'
    BY <1>1 DEF IInv, WalkInv
  <2>2. ASSUME ~ loading, NEW r \in Missing
        PROVE  /\ offset + PAGE < conns.total
               /\ r \in Where(q)' => offset + PAGE < Place(Where(q), r)'
    BY <1>1, <1>5, <1>6, <1>11, <2>2 DEF IInv, WalkInv
  <2>3. ASSUME loading, NEW m \in wire, m.n = current.list
        PROVE  IF m.served THEN Tells(m, Missing)' ELSE \A r \in Missing : Ahead(r)'
    BY <1>8, <1>11, <1>12, <2>3 DEF IInv, WalkInv
  <2> QED BY <1>1, <1>11, <2>1, <2>2, <2>3 DEF IInv, WalkInv
<1> QED BY <1>2, <1>3, <1>4, <1>9, <1>10, <1>13 DEF IInv
(* An insertion is a new row, which moves the others back or not at all.      *)
LEMMA InsertStep == IInv /\ Insert => IInv'
<1> SUFFICES ASSUME IInv, Insert PROVE IInv'
  OBVIOUS
<1>1. PICK host \in Hosts, ts \in Times : rows' = rows \cup {Written(host, ts)}
  BY DEF Insert
<1> PICK x : x = Written(host, ts)
  OBVIOUS
<1>2. /\ rows' = rows \cup {x} /\ lastId' = lastId + 1 /\ lastId < MaxRows
      /\ view' = view /\ UNCHANGED <<wire, runs, current, list, chart>>
  BY <1>1 DEF Insert
<1>3. TableInv
  BY DEF IInv
<1>4. lastId \in Nat /\ lastId + 1 \in 1..MaxRows
  BY <1>2, <1>3, Bounds DEF TableInv
<1>5. x \in Row /\ x.id = lastId + 1
  BY <1>4 DEF Written, Row
<1>6. \A r \in Logged : r.id # x.id /\ r.id <= lastId'
  <2>1. \A r \in Row : r.id \in Nat
    BY RowFields
  <2> QED BY <1>2, <1>4, <1>5, <2>1 DEF Logged
<1>7. Logged \subseteq Logged' /\ x \in Logged'
  BY <1>2, <1>4, <1>5, <1>6 DEF Logged
<1>8. Found(rows')
  <2>1. IsFiniteSet(rows')
    BY <1>2, <1>3, FS_AddElement DEF TableInv, Found
  <2> QED BY <1>2, <1>3, <1>5, <1>6, <2>1 DEF TableInv, Found, Unique
<1>9. Cardinality(rows') <= lastId'
  <2>1. x \notin rows
    BY <1>3, <1>6 DEF TableInv
  <2>2. Cardinality(rows \cup {x}) = Cardinality(rows) + 1 /\ Cardinality(rows) \in Nat
    BY <1>3, <2>1, FS_AddElement, FS_CardinalityType DEF TableInv, Found
  <2> QED BY <1>2, <1>3, <1>4, <2>2 DEF TableInv
<1>10. TableInv'
  <2>1. rows' \subseteq Logged' /\ lastId' \in 0..MaxRows /\ view' \in {"connections", "audit"}
    BY <1>2, <1>3, <1>4, <1>7 DEF TableInv
  <2> QED BY <1>8, <1>9, <2>1 DEF TableInv
<1>11. ASSUME NEW p \in Searches
       PROVE  /\ \A r \in Logged :
                    r \in Where(p)' =>
                        r \in Where(p) /\ Place(Where(p), r) <= Place(Where(p), r)'
              /\ \A r \in Where(p) : Place(Where(p), r) \in Nat
              /\ \A r \in Where(p)' : Place(Where(p), r)' \in Nat
  <2> PICK S : S = Where(p)
    OBVIOUS
  <2> PICK T : T = Where(p)'
    OBVIOUS
  <2>1. S \subseteq T /\ T \subseteq S \cup {x}
    BY <1>2 DEF Where
  <2>2. Found(S)
    BY <1>3, WhereFinds
  <2>3. Found(T)
    <3>1. T \in SUBSET rows'
      BY DEF Where
    <3>2. IsFiniteSet(T)
      BY <1>8, <3>1, FS_Subset DEF Found
    <3> QED BY <1>8, <3>1, <3>2 DEF Found, Unique
  <2>4. \A r \in T : Place(T, r) \in Nat /\ Place(Where(p), r)' = Place(T, r)
    BY <2>3, Placed DEF Place, Before
  <2>5. \A r \in S : Place(S, r) \in Nat /\ Place(S, r) <= Place(T, r)
    BY <2>1, <2>2, <2>3, Placed, PlaceGrows
  <2>6. \A r \in Logged : r \in T => r \in S
    BY <1>6, <2>1
  <2> QED BY <2>4, <2>5, <2>6
<1>12. Moves
  BY <1>7, <1>11 DEF Moves
<1> QED BY <1>2, <1>10, <1>12, TableStep

(* A sweep takes rows from the end.                                           *)
LEMMA SweepStep == IInv /\ Sweep => IInv'
<1> SUFFICES ASSUME IInv, Sweep PROVE IInv'
  OBVIOUS
<1>1. PICK before \in Times : rows' = {r \in rows : r.ts >= before}
  BY DEF Sweep
<1>2. /\ lastId' = lastId /\ view' = view
      /\ UNCHANGED <<wire, runs, current, list, chart>>
  BY DEF Sweep
<1>3. TableInv /\ before \in Nat
  BY PagesAssumption DEF IInv
<1>4. Logged' = Logged
  BY <1>2 DEF Logged
<1>5. rows' \in SUBSET rows
  BY <1>1
<1>6. Found(rows') /\ Cardinality(rows') <= lastId'
  <2>1. IsFiniteSet(rows') /\ Cardinality(rows') <= Cardinality(rows)
    BY <1>3, <1>5, FS_Subset DEF TableInv, Found
  <2>2. Cardinality(rows') \in Nat /\ Cardinality(rows) \in Nat
    BY <1>3, <2>1, FS_CardinalityType DEF TableInv, Found
  <2>3. Cardinality(rows') <= lastId'
    BY <1>2, <1>3, <2>1, <2>2 DEF TableInv
  <2> QED BY <1>3, <1>5, <2>1, <2>3 DEF TableInv, Found, Unique
<1>7. TableInv'
  <2>1. rows' \subseteq Logged' /\ lastId' \in 0..MaxRows /\ view' \in {"connections", "audit"}
    BY <1>2, <1>3, <1>4, <1>5 DEF TableInv
  <2> QED BY <1>6, <2>1 DEF TableInv
<1>8. ASSUME NEW p \in Searches
      PROVE  /\ \A r \in Logged :
                   r \in Where(p)' =>
                       r \in Where(p) /\ Place(Where(p), r) <= Place(Where(p), r)'
             /\ \A r \in Where(p) : Place(Where(p), r) \in Nat
             /\ \A r \in Where(p)' : Place(Where(p), r)' \in Nat
  <2> PICK S : S = Where(p)
    OBVIOUS
  <2> PICK T : T = Where(p)'
    OBVIOUS
  <2>1. T = {r \in S : r.ts >= before}
    BY <1>1 DEF Where
  <2>2. Found(S)
    BY <1>3, WhereFinds
  <2>3. \A r \in S : Place(S, r) \in Nat
    BY <2>2, Placed
  <2>4. \A r \in T : r \in S /\ Place(T, r) = Place(S, r)
    BY <1>3, <2>1, <2>2, SweepKeepsPlaces DEF Found
  <2>5. \A r \in T : Place(Where(p), r)' = Place(T, r)
    BY DEF Place, Before
  <2> QED BY <2>3, <2>4, <2>5
<1>9. Moves
  BY <1>4, <1>8 DEF Moves
<1> QED BY <1>2, <1>7, <1>9, TableStep

----------------------------------------------------------------------------
(* The answer: the page, and what is behind it.                               *)

LEMMA ServedStep ==
    ASSUME IInv, NEW r \in wire, Serve(r)
    PROVE  IInv'
<1> PICK a : a = IF r.kind = "list" THEN Answer(r.q, PAGE, r.offset) ELSE NoAnswer
  OBVIOUS
<1> PICK s : s = [r EXCEPT !.served = TRUE, !.answer = a]
  OBVIOUS
<1>1. /\ wire' = (wire \ {r}) \cup {s} /\ r.served = FALSE
  BY DEF Serve, IInv, WireInv
<1>2. UNCHANGED <<view, rows, lastId, runs, current, q, offset, conns, loading, failed,
                  walk, range, points>>
  BY DEF Serve, table, list, chart
<1>3. Shape(r) /\ OfRun(r) /\ r.q \in Searches /\ r.offset \in Offsets
  BY DEF IInv, AskedInv, RunsInv, OfRun, WireInv
<1>4. /\ s.n = r.n /\ s.kind = r.kind /\ s.q = r.q /\ s.offset = r.offset
      /\ s.range = r.range /\ s.served = TRUE /\ s.answer = a
  BY <1>3 DEF Shape
<1>5. AskedInv'
  BY ServeStep DEF IInv
<1>6. TableInv' /\ Kinds' /\ Logged' = Logged
  BY <1>2 DEF IInv, TableInv, Kinds, Logged
<1>7. \A p : Where(p)' = Where(p)
  BY <1>2 DEF Where
<1>8. Typed(a) /\ a.all \subseteq Logged
  <2>1. CASE r.kind = "list"
    <3>1. Typed(Answer(r.q, PAGE, r.offset)) /\ Answer(r.q, PAGE, r.offset).all = Where(r.q)
      BY <1>3, AnswerIs DEF IInv
    <3>2. Where(r.q) \subseteq rows /\ rows \subseteq Logged
      BY <1>3, WhereFinds DEF IInv, TableInv
    <3> QED BY <2>1, <3>1, <3>2
  <2>2. CASE r.kind # "list"
    BY <2>2, NoAnswerTyped DEF NoAnswer
  <2> QED BY <2>1, <2>2
<1>9. WireInv'
  <2>1. \A m \in wire : m # r => m.n # r.n
    BY DEF IInv, WireInv
  <2>2. \A m \in wire \ {r} : /\ m.q \in Searches /\ m.offset \in Offsets
                              /\ m.served \in BOOLEAN
                              /\ Typed(m.answer) /\ m.answer.all \subseteq Logged
    BY DEF IInv, WireInv
  <2>3. \A m, o \in wire \ {r} : o.n = m.n => o = m
    BY DEF IInv, WireInv
  <2>4. \A m \in wire' : /\ m.q \in Searches /\ m.offset \in Offsets
                         /\ m.served \in BOOLEAN
                         /\ Typed(m.answer) /\ m.answer.all \subseteq Logged
    <3> QED BY <1>1, <1>3, <1>4, <1>8, <2>2
  <2>5. ASSUME NEW m \in wire', NEW o \in wire', o.n = m.n PROVE o = m
    <3>1. m \in wire \ {r} \/ m = s
      BY <1>1
    <3>2. o \in wire \ {r} \/ o = s
      BY <1>1
    <3>3. \A x \in wire \ {r} : x.n # s.n
      BY <1>4, <2>1
    <3> QED BY <2>3, <2>5, <3>1, <3>2, <3>3
  <2> QED BY <1>6, <2>4, <2>5 DEF WireInv, Typed
<1>10. ASSUME NEW m, NEW S, Tells(m, S) PROVE Tells(m, S)'
  BY <1>7, <1>10 DEF Tells, Beyond, Place, Before
<1>11. ASSUME r.kind = "list", NEW S,
              \A x \in S : x \in Where(r.q) => r.offset < Place(Where(r.q), x)
       PROVE  Tells(s, S)'
  <2>1. a = Answer(r.q, PAGE, r.offset)
    BY <1>11
  <2>2. /\ a.all = Where(r.q)
        /\ \A x \in Where(r.q) :
              /\ r.offset < Place(Where(r.q), x) /\ Place(Where(r.q), x) <= r.offset + PAGE
                     => x \in PageOf(a)
              /\ r.offset + PAGE < Place(Where(r.q), x) => r.offset + PAGE < a.total
    BY <1>3, <2>1, AnswerIs DEF IInv
  <2>3. \A x \in Where(r.q) : Place(Where(r.q), x) \in Nat
    BY <1>3, WhereFinds, Placed DEF IInv
  <2>4. r.offset + PAGE \in Nat
    BY <1>3, Bounds DEF Offsets
  <2>5. \A x \in S \cap a.all :
           \/ x \in PageOf(a)
           \/ /\ r.offset + PAGE < a.total
              /\ r.offset + PAGE < Place(Where(r.q), x)
    BY <1>11, <2>2, <2>3, <2>4
  <2>6. Tells(s, S)
    BY <1>4, <2>5 DEF Tells, Beyond
  <2> QED BY <1>10, <2>6
<1>12. FirstInv'
  <2> SUFFICES ASSUME NEW m \in wire', m.kind = "list", m.served, m.offset = 0
               PROVE  Tells(m, m.answer.all)'
    BY DEF FirstInv
  <2>1. CASE m \in wire
    BY <1>10, <2>1 DEF IInv, FirstInv
  <2>2. CASE m = s
    <3>1. r.kind = "list" /\ r.offset = 0
      BY <1>4, <2>2
    <3>2. \A x \in Where(r.q) : r.offset < Place(Where(r.q), x)
      <4>1. \A x \in Where(r.q) : Place(Where(r.q), x) \in 1..Cardinality(Where(r.q))
        BY <1>3, WhereFinds, Placed DEF IInv
      <4> QED BY <3>1, <4>1
    <3>3. a.all = Where(r.q)
      BY <1>3, <3>1, AnswerIs DEF IInv
    <3>4. Tells(s, a.all)'
      BY <1>11, <3>1, <3>2, <3>3
    <3> QED BY <1>4, <2>2, <3>4
  <2> QED BY <1>1, <2>1, <2>2
<1>13. Landed'
  BY <1>1, <1>2, <1>4 DEF IInv, Landed
<1>14. Missing' = Missing
  BY <1>2 DEF Missing
<1>15. WalkInv'
  <2> SUFFICES ASSUME walk.on PROVE WalkInv'
    BY <1>2 DEF WalkInv
  <2>1. ~ failed'
    BY <1>2 DEF IInv, WalkInv
  <2>2. ASSUME ~ loading, NEW x \in Missing
        PROVE  /\ offset + PAGE < conns.total
               /\ x \in Where(q)' => offset + PAGE < Place(Where(q), x)'
    BY <1>2, <1>7, <2>2 DEF IInv, WalkInv, Place, Before
  <2>3. ASSUME loading, NEW m \in wire', m.n = current.list
        PROVE  IF m.served THEN Tells(m, Missing)' ELSE \A x \in Missing : Ahead(x)'
    <3>1. CASE m \in wire
      <4>1. IF m.served THEN Tells(m, Missing) ELSE \A x \in Missing : Ahead(x)
        BY <2>3, <3>1 DEF IInv, WalkInv
      <4>2. \A x : Ahead(x) => Ahead(x)'
        BY <1>2, <1>7 DEF Ahead, Place, Before
      <4> QED BY <1>10, <1>14, <4>1, <4>2
    <3>2. CASE m = s
      <4>1. r.n = current.list /\ ~ r.served
        BY <1>1, <1>4, <2>3, <3>2
      <4>2. r.kind = "list" /\ r.q = q /\ r.offset = offset
        BY <1>3, <4>1 DEF OfRun
      <4>3. \A x \in Missing : Ahead(x)
        BY <2>3, <4>1 DEF IInv, WalkInv
      <4>4. Tells(s, Missing)'
        BY <1>11, <1>14, <4>2, <4>3 DEF Ahead
      <4> QED BY <1>4, <3>2, <4>4
    <3> QED BY <1>1, <3>1, <3>2
  <2>4. loading => offset # 0
    BY DEF IInv, WalkInv
  <2> QED BY <1>2, <1>14, <2>1, <2>2, <2>3, <2>4 DEF WalkInv
<1> QED BY <1>5, <1>6, <1>9, <1>12, <1>13, <1>15 DEF IInv
----------------------------------------------------------------------------
(* What the dialog asks for.                                                  *)

(* A request that joins the others.                                           *)
LEMMA RequestJoins ==
    ASSUME IInv, NEW s, wire' = wire \cup {s}, runs' = runs + 1,
           s.n = runs + 1, s.q \in Searches, s.offset \in Offsets,
           s.served = FALSE, s.answer = NoAnswer,
           UNCHANGED <<view, rows, lastId>>
    PROVE  /\ TableInv' /\ WireInv' /\ FirstInv' /\ Logged' = Logged
           /\ \A m \in wire : m.n \in 1..runs
<1>1. \A m \in wire : m.n \in 1..runs
  BY DEF IInv, AskedInv, RunsInv, OfRun
<1>2. TableInv' /\ Logged' = Logged
  BY DEF IInv, TableInv, Logged
<1>3. Typed(s.answer) /\ s.answer.all \subseteq Logged
  BY NoAnswerTyped DEF NoAnswer
<1>4. \A m \in wire' : /\ m.q \in Searches /\ m.offset \in Offsets
                       /\ m.served \in BOOLEAN
                       /\ Typed(m.answer) /\ m.answer.all \subseteq Logged
  BY <1>3 DEF IInv, WireInv
<1>5. ASSUME NEW m \in wire', NEW o \in wire', o.n = m.n PROVE o = m
  <2>1. runs \in Nat
    BY PagesAssumption DEF IInv, Kinds
  <2>2. \A x \in wire : x.n # s.n
    BY <1>1, <2>1
  <2> QED BY <1>5, <2>2 DEF IInv, WireInv
<1>6. WireInv'
  BY <1>2, <1>4, <1>5 DEF WireInv, Typed
<1>7. ASSUME NEW m \in wire, NEW S, Tells(m, S) PROVE Tells(m, S)'
  BY <1>7 DEF Tells, Beyond, Where, Place, Before
<1>8. FirstInv'
  <2> SUFFICES ASSUME NEW m \in wire', m.kind = "list", m.served, m.offset = 0
               PROVE  Tells(m, m.answer.all)'
    BY DEF FirstInv
  <2>1. m \in wire
    OBVIOUS
  <2> QED BY <1>7, <2>1 DEF IInv, FirstInv
<1> QED BY <1>1, <1>2, <1>6, <1>8

(* A new search, or another page: no walk, or the walk goes on with the page  *)
(* behind the one that is shown.                                              *)
LEMMA AskStep ==
    ASSUME IInv, NEW p \in Searches, NEW at \in Offsets, NEW w, Shows(p, at, w),
           \/ w = NoWalk
           \/ w = walk /\ p = q /\ at = offset + PAGE /\ loading = FALSE
    PROVE  IInv'
<1> PICK s : s = ListRequest(runs + 1, p, at)
  OBVIOUS
<1>1. /\ wire' = wire \cup {s} /\ runs' = runs + 1 /\ runs < MaxRuns
      /\ current' = [current EXCEPT !.list = runs + 1]
      /\ q' = p /\ offset' = at /\ loading' = TRUE /\ failed' = FALSE /\ walk' = w
      /\ UNCHANGED <<view, rows, lastId, conns, range, points>>
  BY DEF Shows, table, chart
<1>2. /\ s.n = runs + 1 /\ s.q = p /\ s.offset = at /\ s.served = FALSE
      /\ s.answer = NoAnswer
  BY DEF ListRequest
<1>3. /\ TableInv' /\ WireInv' /\ FirstInv' /\ Logged' = Logged
      /\ \A m \in wire : m.n \in 1..runs
  BY <1>1, <1>2, RequestJoins
<1>4. AskedInv'
  BY ShowsStep DEF IInv
<1>5. runs \in Nat /\ runs + 1 \in 2..MaxRuns
  BY <1>1, PagesAssumption DEF IInv, Kinds
<1>6. NoWalk \in [on : BOOLEAN, base : SUBSET Logged, seen : SUBSET Row]
  BY DEF NoWalk
<1>7. walk' \in [on : BOOLEAN, base : SUBSET Logged', seen : SUBSET Row]
  BY <1>1, <1>3, <1>6 DEF IInv, Kinds
<1>8. Kinds'
  <2>1. runs' \in 2..MaxRuns /\ loading' \in BOOLEAN /\ failed' \in BOOLEAN
    BY <1>1, <1>5
  <2> QED BY <1>1, <1>7, <2>1 DEF IInv, Kinds
<1>9. Landed'
  BY <1>1 DEF Landed
<1>10. WalkInv'
  <2> SUFFICES ASSUME w.on PROVE WalkInv'
    BY <1>1 DEF WalkInv
  <2>1. w = walk /\ p = q /\ at = offset + PAGE /\ ~ loading
    BY DEF NoWalk
  <2>2. Missing' = Missing /\ Where(q)' = Where(q)
    BY <1>1, <2>1 DEF Missing, Where
  <2>3. at # 0
    BY <2>1, Bounds DEF IInv, Kinds, Offsets
  <2>4. \A r \in Missing : r \in Where(q) => offset + PAGE < Place(Where(q), r)
    BY <1>1, <2>1 DEF IInv, WalkInv
  <2>5. \A r \in Missing : Ahead(r)'
    BY <1>1, <2>1, <2>2, <2>4 DEF Ahead, Place, Before
  <2>6. \A m \in wire' : m.n = current'.list => m = s
    <3>1. current'.list = runs + 1
      BY <1>1 DEF IInv, AskedInv, RunsInv
    <3> QED BY <1>1, <1>3, <1>5, <3>1
  <2> QED BY <1>1, <1>2, <2>2, <2>3, <2>5, <2>6 DEF WalkInv
<1> QED BY <1>3, <1>4, <1>8, <1>9, <1>10 DEF IInv

LEMMA SearchStep ==
    ASSUME IInv, NEW p \in Searches, Search(p)
    PROVE  IInv'
<1>1. 0 \in Offsets /\ Shows(p, 0, NoWalk)
  BY Bounds DEF Search, Offsets
<1> QED BY <1>1, AskStep

LEMMA PagerStep ==
    ASSUME IInv, NextPage \/ PrevPage \/ \E p \in 1..MaxRows : GoToPage(p)
    PROVE  IInv'
<1>1. /\ q \in Searches /\ offset \in Offsets /\ offset \in Nat
      /\ conns.total \in Nat /\ conns.total <= MaxRows
  BY Bounds DEF IInv, Kinds, Offsets
<1>2. CASE NextPage
  <2>1. offset < conns.total
    BY <1>1, <1>2, PagerCounts DEF NextPage
  <2>2. offset + PAGE \in Offsets
    BY <1>1, <2>1, Bounds DEF Offsets
  <2>3. Shows(q, offset + PAGE, walk) /\ loading = FALSE
    BY <1>2 DEF NextPage, NextOffset, PagerShown, IInv, Kinds
  <2> QED BY <1>1, <2>2, <2>3, AskStep
<1>3. CASE PrevPage
  <2> PICK at : at = IF offset > PAGE THEN offset - PAGE ELSE 0
    OBVIOUS
  <2>1. at \in Offsets
    BY <1>1, Bounds DEF Offsets
  <2>2. Shows(q, at, NoWalk)
    BY <1>3 DEF PrevPage
  <2> QED BY <1>1, <2>1, <2>2, AskStep
<1>4. ASSUME NEW p \in 1..MaxRows, GoToPage(p) PROVE IInv'
  <2>1. p \in 1..TotalPages
    BY <1>4 DEF GoToPage, PageButtons
  <2>2. (p - 1) * PAGE \in 0..conns.total
    BY <1>1, <2>1, PagerCounts
  <2>3. PICK at : at = (p - 1) * PAGE
    OBVIOUS
  <2>4. at \in Offsets
    BY <1>1, <2>2, <2>3, Bounds DEF Offsets
  <2>5. Shows(q, at, NoWalk)
    BY <1>4, <2>3 DEF GoToPage
  <2> QED BY <1>1, <2>4, <2>5, AskStep
<1> QED BY <1>2, <1>3, <1>4

LEMMA RangeStep ==
    ASSUME IInv, NEW g \in Ranges, PickRange(g)
    PROVE  IInv'
<1>1. AskedInv'
  BY PickStep DEF IInv
<1>2. /\ range' = g /\ points' = NoPoints
      /\ UNCHANGED <<view, rows, lastId, q, offset, conns, loading, failed, walk>>
  BY DEF PickRange, table, list
<1>3. /\ Logged' = Logged /\ Missing' = Missing
      /\ \A r : Ahead(r) => Ahead(r)'
      /\ \A r \in Missing :
            (r \in Where(q) => offset + PAGE < Place(Where(q), r)) =>
               (r \in Where(q)' => offset + PAGE < Place(Where(q), r)')
  BY <1>2 DEF Logged, Missing, Ahead, Where, Place, Before
<1>4. ASSUME NEW m, NEW S, Tells(m, S) PROVE Tells(m, S)'
  BY <1>2, <1>4 DEF Tells, Beyond, Where, Place, Before
<1>5. CASE UNCHANGED <<wire, runs, current>>
  <2>1. TableInv' /\ Kinds' /\ WireInv' /\ Landed'
    BY <1>2, <1>3, <1>5 DEF IInv, TableInv, Kinds, WireInv, Typed, Landed
  <2>2. FirstInv'
    BY <1>4, <1>5 DEF IInv, FirstInv
  <2>3. WalkInv'
    BY <1>2, <1>3, <1>4, <1>5 DEF IInv, WalkInv
  <2> QED BY <1>1, <2>1, <2>2, <2>3 DEF IInv
<1>6. CASE g # range
  <2> PICK s : s = ChartRequest(runs + 1, g)
    OBVIOUS
  <2>1. /\ wire' = wire \cup {s} /\ runs' = runs + 1 /\ runs < MaxRuns
        /\ current' = [current EXCEPT !.chart = runs + 1]
    BY <1>6 DEF PickRange
  <2>2. /\ s.n = runs + 1 /\ s.q \in Searches /\ s.offset \in Offsets
        /\ s.served = FALSE /\ s.answer = NoAnswer
    BY FirstRequests, Bounds DEF ChartRequest, Searches, Offsets
  <2>3. /\ TableInv' /\ WireInv' /\ FirstInv'
        /\ \A m \in wire : m.n \in 1..runs
    BY <1>2, <2>1, <2>2, RequestJoins
  <2>4. runs \in Nat /\ runs + 1 \in 2..MaxRuns
    BY <2>1, PagesAssumption DEF IInv, Kinds
  <2>5. Kinds'
    BY <1>2, <1>3, <2>1, <2>4 DEF IInv, Kinds
  <2>6. /\ current'.list = current.list
        /\ \A m \in wire' : m.n = current.list => m \in wire
    <3>1. current.list \in 1..runs /\ current'.list = current.list
      BY <2>1 DEF IInv, AskedInv, RunsInv
    <3> QED BY <2>1, <2>2, <2>4, <3>1
  <2>7. Landed'
    BY <1>2, <2>6 DEF IInv, Landed
  <2>8. WalkInv'
    BY <1>2, <1>3, <1>4, <2>6 DEF IInv, WalkInv
  <2> QED BY <1>1, <2>3, <2>5, <2>7, <2>8 DEF IInv
<1> QED BY <1>5, <1>6 DEF PickRange
----------------------------------------------------------------------------
(* An answer lands.                                                           *)

LEMMA AnswerLands ==
    ASSUME IInv, NEW r \in wire, Land(r)
    PROVE  IInv'
<1>1. /\ wire' = wire \ {r} /\ UNCHANGED <<view, rows, lastId, runs, current>>
  BY DEF Land, table
<1>2. AskedInv'
  BY LandStep DEF IInv
<1>3. /\ Logged' = Logged
      /\ \A p : Where(p)' = Where(p)
      /\ TableInv'
  BY <1>1 DEF IInv, TableInv, Logged, Where
<1>4. ASSUME NEW m, NEW S, Tells(m, S) PROVE Tells(m, S)'
  BY <1>3, <1>4 DEF Tells, Beyond, Place, Before
<1>5. WireInv' /\ FirstInv'
  <2>1. WireInv'
    BY <1>1, <1>3 DEF IInv, WireInv, Typed
  <2> QED BY <1>1, <1>4, <2>1 DEF IInv, FirstInv
<1>6. ASSUME UNCHANGED <<q, offset, conns, loading, failed, walk>>,
             range' \in Ranges, points' \in Ranges \cup {NoPoints}
      PROVE  IInv'
  <2>1. Kinds' /\ Landed'
    BY <1>1, <1>3, <1>6 DEF IInv, Kinds, Landed
  <2>2. /\ Missing' = Missing
        /\ \A x : Ahead(x) => Ahead(x)'
        /\ \A x : Place(Where(q), x)' = Place(Where(q), x)
    BY <1>3, <1>6 DEF Missing, Ahead, Place, Before
  <2>3. WalkInv'
    BY <1>1, <1>3, <1>4, <1>6, <2>2 DEF IInv, WalkInv
  <2> QED BY <1>2, <1>3, <1>5, <2>1, <2>3 DEF IInv
<1>7. CASE ~ Alive(r)
  <2>1. UNCHANGED <<q, offset, conns, loading, failed, walk, range, points>>
    BY <1>7 DEF Land, list, chart
  <2> QED BY <1>6, <2>1 DEF IInv, Kinds
<1>8. CASE Alive(r)
  <2>1. PICK ok \in {FALSE, r.served} : ListLands(r, ok) \/ ChartLands(r, ok)
    BY <1>8 DEF Land
  <2>2. /\ r.q \in Searches /\ r.offset \in Offsets /\ r.served \in BOOLEAN
        /\ Typed(r.answer) /\ r.answer.all \subseteq Logged
        /\ OfRun(r)
    BY DEF IInv, WireInv, AskedInv, RunsInv
  <2>3. CASE ChartLands(r, ok)
    <3>1. range' \in Ranges /\ points' \in Ranges \cup {NoPoints}
      <4>1. r.range = range
        BY <1>8, <2>2, <2>3 DEF Alive, ChartLands, OfRun
      <4> QED BY <2>3, <4>1 DEF ChartLands, IInv, Kinds
    <3>2. UNCHANGED <<q, offset, conns, loading, failed, walk>>
      BY <2>3 DEF ChartLands, list
    <3> QED BY <1>6, <3>1, <3>2
  <2>4. CASE ListLands(r, ok)
    <3>1. /\ r.kind = "list" /\ r.n = current.list /\ r.q = q /\ r.offset = offset
      BY <1>8, <2>2, <2>4 DEF Alive, ListLands, OfRun
    <3>2. /\ loading' = FALSE /\ failed' = ~ ok
          /\ UNCHANGED <<q, offset, range, points>>
      BY <2>4 DEF ListLands, chart
    <3>3. Landed'
      BY <1>1, <3>1 DEF IInv, WireInv, Landed
    <3>4. CASE ok = FALSE
      <4>1. walk' = NoWalk /\ conns' = conns
        BY <2>4, <3>4 DEF ListLands
      <4>2. Kinds'
        <5>1. walk' \in [on : BOOLEAN, base : SUBSET Logged', seen : SUBSET Row]
          BY <4>1 DEF NoWalk
        <5>2. failed' \in BOOLEAN /\ loading' \in BOOLEAN
          BY <3>2, <3>4
        <5> QED BY <1>1, <3>2, <4>1, <5>1, <5>2 DEF IInv, Kinds
      <4>3. WalkInv'
        BY <4>1 DEF WalkInv, NoWalk
      <4> QED BY <1>2, <1>3, <1>5, <3>3, <4>2, <4>3 DEF IInv
    <3>5. CASE ok = TRUE
      <4>1. /\ r.served
            /\ conns' = [q |-> r.q, offset |-> r.offset,
                         rows |-> r.answer.rows, total |-> r.answer.total]
            /\ walk' = Walked(r)
        BY <2>1, <2>4, <3>5 DEF ListLands
      <4> PICK page : page = PageOf(r.answer)
        OBVIOUS
      <4>2. page \subseteq Row
        <5>1. r.answer.rows \in Seq(Row)
          BY <2>2 DEF Typed, AnswerType
        <5> QED BY <5>1 DEF PageOf
      <4>3. walk' = IF offset = 0
                    THEN [on |-> TRUE, base |-> r.answer.all, seen |-> page]
                    ELSE [walk EXCEPT !.base = walk.base \cap r.answer.all,
                                      !.seen = walk.seen \cup page]
        BY <3>1, <4>1 DEF Walked, PageOf
      <4>4. walk' \in [on : BOOLEAN, base : SUBSET Logged', seen : SUBSET Row]
        <5>1. r.answer.all \in SUBSET Logged
          BY <2>2
        <5> QED BY <1>3, <4>2, <4>3, <5>1 DEF IInv, Kinds
      <4>5. Kinds'
        <5>1. /\ conns'.rows = r.answer.rows /\ conns'.total = r.answer.total
          BY <4>1
        <5>2. /\ conns'.rows \in Seq(Row) /\ Len(conns'.rows) <= PAGE
              /\ Len(conns'.rows) <= conns'.total /\ conns'.total \in 0..MaxRows
          BY <2>2, <5>1 DEF Typed, AnswerType
        <5>3. failed' \in BOOLEAN /\ loading' \in BOOLEAN
          BY <3>2, <3>5
        <5> QED BY <1>1, <3>2, <4>4, <5>2, <5>3 DEF IInv, Kinds
      <4>6. ASSUME walk'.on, NEW x \in Missing' PROVE Beyond(r, x)
        <5>1. CASE offset = 0
          <6>1. x \in r.answer.all /\ x \notin page
            BY <4>3, <4>6, <5>1 DEF Missing
          <6>2. Tells(r, r.answer.all)
            BY <3>1, <4>1, <5>1 DEF IInv, FirstInv
          <6> QED BY <6>1, <6>2 DEF Tells
        <5>2. CASE offset # 0
          <6>1. walk' = [walk EXCEPT !.base = walk.base \cap r.answer.all,
                                     !.seen = walk.seen \cup page]
            BY <4>3, <5>2
          <6>2. /\ walk'.on = walk.on /\ walk'.base = walk.base \cap r.answer.all
                /\ walk'.seen = walk.seen \cup page
            BY <6>1 DEF IInv, Kinds
          <6>3. x \in Missing /\ x \in r.answer.all /\ x \notin page
            BY <4>6, <6>2 DEF Missing
          <6>4. loading
            BY <3>1 DEF IInv, Landed
          <6>5. Tells(r, Missing)
            BY <3>1, <4>1, <4>6, <6>2, <6>4 DEF IInv, WalkInv
          <6> QED BY <6>3, <6>5 DEF Tells
        <5> QED BY <5>1, <5>2
      <4>7. WalkInv'
        <5> SUFFICES ASSUME walk'.on PROVE WalkInv'
          BY DEF WalkInv
        <5>1. ASSUME NEW x \in Missing'
              PROVE  /\ offset' + PAGE < conns'.total
                     /\ x \in Where(q)' => offset' + PAGE < Place(Where(q), x)'
          <6>1. Beyond(r, x)
            BY <4>6
          <6>2. Where(q)' = Where(r.q) /\ Place(Where(q), x)' = Place(Where(r.q), x)
            BY <1>3, <3>1, <3>2 DEF Place, Before
          <6>3. conns'.total = r.answer.total /\ offset' = r.offset
            BY <3>1, <3>2, <4>1
          <6> QED BY <6>1, <6>2, <6>3 DEF Beyond
        <5>2. failed' = FALSE /\ loading' = FALSE
          BY <3>2, <3>5
        <5> QED BY <5>1, <5>2 DEF WalkInv
      <4> QED BY <1>2, <1>3, <1>5, <3>3, <4>5, <4>7 DEF IInv
    <3> QED BY <2>1, <2>2, <3>4, <3>5
  <2> QED BY <2>1, <2>3, <2>4
<1> QED BY <1>7, <1>8

----------------------------------------------------------------------------
LEMMA StepInv == IInv /\ [Next]_vars => IInv'
<1> SUFFICES ASSUME IInv, [Next]_vars PROVE IInv'
  OBVIOUS
<1>1. CASE UNCHANGED vars
  <2>1. UNCHANGED <<view, rows, lastId, wire, runs, current, q, offset, conns,
                    loading, failed, walk, range, points>>
    BY <1>1 DEF vars, table, list, chart
  <2>2. TableInv' /\ Kinds' /\ Logged' = Logged
    BY <2>1 DEF IInv, TableInv, Kinds, Logged
  <2>3. /\ Missing' = Missing /\ \A p : Where(p)' = Where(p)
        /\ \A S : \A x : Place(S, x)' = Place(S, x)
    BY <2>1 DEF Missing, Where, Place, Before
  <2>4. AskedInv'
    BY <1>1, StepAsked DEF IInv
  <2>5. WireInv' /\ Landed'
    BY <2>1, <2>2 DEF IInv, WireInv, Typed, Landed
  <2>6. \A m, S : Tells(m, S) => Tells(m, S)'
    BY <2>3 DEF Tells, Beyond
  <2>7. FirstInv'
    BY <2>1, <2>6 DEF IInv, FirstInv
  <2>8. WalkInv'
    BY <2>1, <2>3, <2>6 DEF IInv, WalkInv, Ahead
  <2> QED BY <2>2, <2>4, <2>5, <2>7, <2>8 DEF IInv
<1>2. ASSUME NEW r \in wire, Serve(r) \/ Land(r) PROVE IInv'
  BY <1>2, ServedStep, AnswerLands
<1>3. ASSUME NEW p \in Searches, Search(p) PROVE IInv'
  BY <1>3, SearchStep
<1>4. CASE NextPage \/ PrevPage \/ \E p \in 1..MaxRows : GoToPage(p)
  BY <1>4, PagerStep
<1>5. ASSUME NEW g \in Ranges, PickRange(g) PROVE IInv'
  BY <1>5, RangeStep
<1> QED
  BY <1>1, <1>2, <1>3, <1>4, <1>5, InsertStep, SweepStep DEF Next

LEMMA Invariant == Spec => []IInv
BY InitInv, StepInv, PTL DEF Spec

(* The types, and that a page shows at most PAGE rows, all among those that   *)
(* are counted (listConnections, listAudit and their LIMIT).                  *)
THEOREM TypeCorrect == Spec => []TypeOK
<1>1. IInv => TypeOK
  <2> SUFFICES ASSUME IInv PROVE TypeOK
    OBVIOUS
  <2>1. rows \subseteq Row
    BY DEF IInv, TableInv, Found
  <2>2. offset \in Nat
    BY Bounds DEF IInv, Kinds, Offsets
  <2>3. loading \in BOOLEAN /\ failed \in BOOLEAN /\ walk.on \in BOOLEAN
    BY DEF IInv, Kinds
  <2> QED BY <2>1, <2>2, <2>3 DEF IInv, TableInv, Kinds, TypeOK
<1> QED
  BY <1>1, Invariant, PTL

(* Whoever goes from the first page to the last with "next" has been shown    *)
(* every row that was there all the while, whatever was inserted or swept     *)
(* meanwhile (ORDER BY ts DESC, id DESC with LIMIT and OFFSET).               *)
THEOREM WalksMissNothing == Spec => []WalkMissesNothing
<1>1. IInv => WalkMissesNothing
  <2> SUFFICES ASSUME IInv, walk.on, ~ loading, CurPage >= TotalPages,
                      NEW r \in Missing
               PROVE  FALSE
    BY DEF WalkMissesNothing, Missing
  <2>1. conns.total \in Nat /\ offset \in Nat
    BY Bounds DEF IInv, Kinds, Offsets
  <2>2. offset + PAGE < conns.total
    BY DEF IInv, WalkInv
  <2>3. CurPage < TotalPages
    BY <2>1, <2>2, PagerCounts
  <2>4. CurPage \in Nat /\ TotalPages \in Nat
    <3>1. offset \div PAGE \in Nat
      BY <2>1, Bounds, Quotient
    <3> QED BY <2>1, <3>1, PagerCounts DEF CurPage
  <2> QED BY <2>3, <2>4
<1> QED
  BY <1>1, Invariant, PTL
=============================================================================
