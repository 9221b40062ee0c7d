------------------------------- MODULE Pages -------------------------------
(* Browsing a table that others write to: the dialog with a link's            *)
(* connections and traffic (frontend LinkDetailModal.tsx) and the one with    *)
(* the audit log (AuditModal.tsx), over GET /api/links/:id/connections,       *)
(* GET /api/links/:id/traffic and GET /api/audit, and the queries of          *)
(* db/monitoringRepo.ts, which count an offset from the newest row, while     *)
(* rows are being inserted and the oldest ones swept away.                    *)
EXTENDS Integers, FiniteSets, Sequences

CONSTANTS
    Hosts,     \* what a connection goes to
    Words,     \* what can be searched for
    Matches,   \* the hosts that begin with each word
    NoWord,    \* the empty search, which every row matches
    Ranges,    \* the chart's ranges; the dialog opens with one of them
    NoPoints,  \* the chart while it has no answer
    PAGE,
    MAX_SAFE_INTEGER,
    Times,     \* the timestamps a row may carry
    MaxRows,   \* bound on the rows ever written
    MaxRuns    \* bound on the effects run, and so on the requests sent

ASSUME PagesAssumption ==
    /\ PAGE \in 1..200
    /\ Times \subseteq Nat
    /\ MAX_SAFE_INTEGER \in Nat /\ MaxRows \in Nat /\ MaxRows + PAGE <= MAX_SAFE_INTEGER
    /\ MaxRuns \in Nat \ {0, 1}
    /\ NoWord \notin Words /\ NoPoints \notin Ranges
    /\ Matches \in [Words -> SUBSET Hosts]

VARIABLES
    view,      \* which dialog is open: connections or audit
    rows,      \* the table: connections of the link, or audit_log
    lastId,    \* the id of the row written last
    wire,      \* requests whose answer has not landed
    runs,      \* effects run so far; a request carries the number of its own
    q, offset, \* the dialog's search and offset
    current,   \* the runs that are alive: of the table's effect, of the chart's
    conns,     \* conns and connTotal, with the search and offset they answer
    loading, failed,   \* connLoading and connErr; loading and err in AuditModal
    range, points,     \* the chart's range, and the range of the points shown
    walk       \* history: a walk from the first page on, by "next" only

table == <<view, rows, lastId>>
list == <<q, offset, conns, loading, failed, walk>>
chart == <<range, points>>
vars == <<table, wire, runs, current, list, chart>>

Row == [id : 1..MaxRows, ts : Times, host : Hosts]
Searches == Words \cup {NoWord}
NoAnswer == [rows |-> <<>>, total |-> 0, all |-> {}]
NoConns == [q |-> NoWord, offset |-> -1, rows |-> <<>>, total |-> 0]
NoWalk == [on |-> FALSE, base |-> {}, seen |-> {}]

----------------------------------------------------------------------------
(* The table.  The tailer writes what it reads, so timestamps repeat and may  *)
(* go back; the sweep of the connections takes everything before a moment,    *)
(* and nothing is ever taken from the audit log.                              *)
Written(host, ts) == [id |-> lastId + 1, ts |-> ts, host |-> host]

Insert ==
    /\ lastId < MaxRows
    /\ \E host \in Hosts, ts \in Times : rows' = rows \cup {Written(host, ts)}
    /\ lastId' = lastId + 1
    /\ UNCHANGED <<view, wire, runs, current, list, chart>>

Sweep ==
    /\ view = "connections"
    /\ \E before \in Times :
            /\ \E r \in rows : r.ts < before
            /\ rows' = {r \in rows : r.ts >= before}
    /\ UNCHANGED <<view, lastId, wire, runs, current, list, chart>>

(* ORDER BY ts DESC, id DESC.  Mutant: oldest first.                          *)
OldestFirst(r, s) == r.ts < s.ts \/ (r.ts = s.ts /\ r.id < s.id)
Before(r, s) == r.ts > s.ts \/ (r.ts = s.ts /\ r.id > s.id)

(* connWhere: host LIKE 'prefix%'.                                            *)
Where(p) == IF p = NoWord THEN rows ELSE {r \in rows : r.host \in Matches[p]}

ClampInt(n, low, high) == IF n < low THEN low ELSE IF n > high THEN high ELSE n

(* The place of a row in that order, and the row at a place.                  *)
Place(S, r) == Cardinality({s \in S : s = r \/ Before(s, r)})
RowAt(S, i) == CHOOSE r \in S : Place(S, r) = i

(* LIMIT.  Mutant: one row too many.                                          *)
OneTooMany(first, limit) == first + limit
LastRow(first, limit) == first + limit - 1

(* listConnections, listAudit: the page and the count in one answer.          *)
Answer(p, limit, from) ==
    LET found == Where(p)
        first == ClampInt(from, 0, MAX_SAFE_INTEGER) + 1
        last == ClampInt(LastRow(first, ClampInt(limit, 1, 200)), 0, Cardinality(found))
    IN [rows |-> [i \in 1..(last - first + 1) |-> RowAt(found, first + i - 1)],
        total |-> Cardinality(found), all |-> found]

Serve(r) ==
    /\ ~ r.served
    /\ wire' = (wire \ {r}) \cup
               {[r EXCEPT !.served = TRUE,
                          !.answer = IF r.kind = "list" THEN Answer(r.q, PAGE, r.offset)
                                                        ELSE NoAnswer]}
    /\ UNCHANGED <<table, runs, current, list, chart>>

----------------------------------------------------------------------------
(* The effects.  Running one again ends the run before it.                    *)
ListRequest(n, p, at) == [n |-> n, kind |-> "list", q |-> p, offset |-> at, range |-> NoPoints,
                          served |-> FALSE, answer |-> NoAnswer]
ChartRequest(n, g) == [n |-> n, kind |-> "chart", q |-> NoWord, offset |-> 0, range |-> g,
                       served |-> FALSE, answer |-> NoAnswer]

Shows(p, at, w) ==
    /\ <<p, at>> # <<q, offset>>
    /\ runs < MaxRuns
    /\ runs' = runs + 1
    /\ current' = [current EXCEPT !.list = runs + 1]
    /\ wire' = wire \cup {ListRequest(runs + 1, p, at)}
    /\ q' = p
    /\ offset' = at
    /\ loading' = TRUE
    /\ failed' = FALSE
    /\ walk' = w
    /\ UNCHANGED <<table, conns, chart>>

(* The search box: Enter, its button, or clearing it.                         *)
Search(p) == view = "connections" /\ Shows(p, 0, NoWalk)

(* The pager, which is there below a page that has rows.                      *)
PagerShown == ~ loading /\ ~ failed /\ conns.rows # <<>>
CeilDiv(a, b) == (a + b - 1) \div b
TotalPages == IF conns.total = 0 THEN 1 ELSE CeilDiv(conns.total, PAGE)
CurPage == (offset \div PAGE) + 1

NextOffset == offset + PAGE

NextPage == PagerShown /\ CurPage < TotalPages /\ Shows(q, NextOffset, walk)
PrevPage == PagerShown /\ offset > 0
            /\ Shows(q, IF offset > PAGE THEN offset - PAGE ELSE 0, NoWalk)

PageButtons == {p \in 1..TotalPages : p >= CurPage - 2 /\ p <= CurPage + 2}
GoToPage(p) == /\ PagerShown /\ view = "connections"
               /\ p \in PageButtons
               /\ Shows(q, (p - 1) * PAGE, NoWalk)

(* The chips of the chart.  The one that is on already clears the chart and   *)
(* asks for nothing.                                                          *)
PickRange(g) ==
    /\ view = "connections"
    /\ range' = g
    /\ points' = NoPoints
    /\ \/ g = range /\ UNCHANGED <<wire, runs, current>>
       \/ /\ g # range
          /\ runs < MaxRuns
          /\ runs' = runs + 1
          /\ current' = [current EXCEPT !.chart = runs + 1]
          /\ wire' = wire \cup {ChartRequest(runs + 1, g)}
    /\ UNCHANGED <<table, list>>

----------------------------------------------------------------------------
(* Answers.  Mutant: an answer is taken whichever run asked for it.           *)
AliveAlways(r) == TRUE
Alive(r) == r.n \in {current.list, current.chart}

(* A walk begins with the first page and goes on with each page after it.     *)
Walked(r) ==
    LET page == {r.answer.rows[i] : i \in 1..Len(r.answer.rows)}
    IN IF r.offset = 0 THEN [on |-> TRUE, base |-> r.answer.all, seen |-> page]
       ELSE [walk EXCEPT !.base = @ \cap r.answer.all, !.seen = @ \cup page]

ListLands(r, ok) ==
    /\ r.kind = "list"
    /\ loading' = FALSE       \* finally(): also when the request failed
    /\ failed' = ~ ok
    /\ IF ok THEN /\ conns' = [q |-> r.q, offset |-> r.offset,
                               rows |-> r.answer.rows, total |-> r.answer.total]
                  /\ walk' = Walked(r)
             ELSE walk' = NoWalk /\ UNCHANGED conns
    /\ UNCHANGED <<q, offset, chart>>

ChartLands(r, ok) ==
    /\ r.kind = "chart"
    /\ points' = IF ok THEN r.range ELSE points
    /\ UNCHANGED <<range, list>>

(* fetch() settles with the answer or with a network error.                   *)
Land(r) ==
    /\ wire' = wire \ {r}
    /\ IF Alive(r)
       THEN \E ok \in {FALSE, r.served} : ListLands(r, ok) \/ ChartLands(r, ok)
       ELSE UNCHANGED <<list, chart>>
    /\ UNCHANGED <<table, runs, current>>

----------------------------------------------------------------------------
Opened(first) ==
    /\ wire = IF view = "audit" THEN {ListRequest(2, NoWord, 0)}
              ELSE {ChartRequest(1, first), ListRequest(2, NoWord, 0)}
    /\ runs = 2
    /\ current = [chart |-> 1, list |-> 2]

Init ==
    /\ view \in {"connections", "audit"}
    /\ rows = {}
    /\ lastId = 0
    /\ q = NoWord
    /\ offset = 0
    /\ conns = NoConns
    /\ loading = TRUE
    /\ failed = FALSE
    /\ range \in Ranges
    /\ points = NoPoints
    /\ walk = NoWalk
    /\ Opened(range)

Next ==
    \/ Insert
    \/ Sweep
    \/ \E r \in wire : Serve(r) \/ Land(r)
    \/ \E p \in Searches : Search(p)
    \/ NextPage
    \/ PrevPage
    \/ \E p \in 1..MaxRows : GoToPage(p)
    \/ \E g \in Ranges : PickRange(g)

Spec == Init /\ [][Next]_vars

----------------------------------------------------------------------------
(* The types of the variables; every page shown has at most PAGE rows, all of *)
(* them among those counted.                                                  *)
TypeOK ==
    /\ view \in {"connections", "audit"}
    /\ rows \subseteq Row
    /\ lastId \in 0..MaxRows
    /\ runs \in 2..MaxRuns
    /\ q \in Searches /\ offset \in Nat
    /\ {loading, failed, walk.on} \subseteq BOOLEAN
    /\ conns.rows \in Seq(Row) /\ Len(conns.rows) <= PAGE /\ Len(conns.rows) <= conns.total
    /\ range \in Ranges /\ points \in Ranges \cup {NoPoints}

(* A page that is shown as loaded is the page of the search and offset the    *)
(* dialog is set to, and a chart that is shown covers the range picked,       *)
(* however the answers to earlier settings come in (the alive flags of the    *)
(* effects); and a dialog that says "loading" waits for that answer.          *)
ShownIsAsked ==
    /\ ~ loading /\ ~ failed => <<conns.q, conns.offset>> = <<q, offset>>
    /\ points # NoPoints => points = range
    /\ loading => \E r \in wire : r.n = current.list

(* Going from the first page to the last with "next" shows every row that was *)
(* there all the while: what is inserted meanwhile moves rows to later pages, *)
(* and what is swept is taken from the end (ORDER BY ts DESC, id DESC).       *)
WalkMissesNothing ==
    walk.on /\ ~ loading /\ CurPage >= TotalPages => walk.base \subseteq walk.seen
=============================================================================
