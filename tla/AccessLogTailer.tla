-------------------------- MODULE AccessLogTailer --------------------------
(* The access log collector (lib/accessLogTailer.ts): a poll reads what xray  *)
(* appended to its log since the last one, cuts it into lines and writes the  *)
(* parsed ones to the connections table in batches.  logrotate may truncate   *)
(* or replace the file at any moment, between the stat and the read of one    *)
(* poll as well.                                                              *)
(*                                                                            *)
(* The log is a stream of units, two per line: unit 2n-1 is the first half of *)
(* line n, unit 2n its second half with the newline.  The file holds the      *)
(* units base+1 .. end.  Lines have distinct fingerprints.                    *)
EXTENDS Naturals, Sequences, SequencesExt

CONSTANTS
    MaxLines,    \* bound on the lines xray writes
    Noise,       \* lines that parseAccessLine rejects
    Chunk,       \* units per read (1 MiB in the code)
    Batch,       \* BATCH_SIZE
    SeenCap,     \* seenCap
    Cuts,        \* kinds of rotation that occur: "truncate", "rename"
    MaxCuts,     \* bound on rotations
    FaultKinds,  \* what may fail: "open", "resolve", "sink", "restart"
    MaxFaults    \* bound on faults

ASSUME TailerBounds ==
    /\ MaxLines \in Nat
    /\ Noise \subseteq 1..MaxLines
    /\ Chunk \in Nat \ {0}
    /\ Batch \in Nat \ {0}
    /\ SeenCap \in Nat \ {0}
    /\ MaxCuts \in Nat
    /\ MaxFaults \in Nat

VARIABLES
    end,      \* units written so far
    base,     \* units that are not in the file any more
    ino,      \* inode of the file
    cut,      \* history: the file was cut and no poll has looked since
    stat,     \* AccessLogTailer.stat: inode and size, or Unknown
    offset,   \* AccessLogTailer.offset, in units
    partial,  \* AccessLogTailer.partial
    pending,  \* AccessLogTailer.pending
    seen,     \* keys of AccessLogTailer.seen, oldest first
    poll,     \* the poll under way: its phase, its stat, its complete lines
    rows,     \* the connections table
    excuse,   \* history: why a line never reaches the table
    lapsed,   \* history: lines that were taken and whose fingerprint is not kept
    cuts,     \* rotations so far
    faults    \* faults so far

file == <<end, base, ino, cut>>
vars == <<file, stat, offset, partial, pending, seen, poll, rows, excuse,
          lapsed, cuts, faults>>

Units == 1..(2 * MaxLines)
Lines == 1..MaxLines
LineOf(u) == (u + 1) \div 2
IsTail(u) == u % 2 = 0

Unknown == [ino |-> 0, size |-> 0]   \* inodes count from 1
Current == [ino |-> ino, size |-> end - base]
Idle == [phase |-> "idle", cur |-> Unknown, todo |-> <<>>]

(* A row names the lines its text begins and ends with.                       *)
Row == [first : Lines, last : Lines]
Genuine(n) == [first |-> n, last |-> n]

----------------------------------------------------------------------------
(* What has become of a line.                                                 *)

Stored(n) == Contains(rows, Genuine(n))
InHand(n) == Contains(pending, Genuine(n)) \/ Contains(poll.todo, <<2*n - 1, 2*n>>)

(* Lines of which something is in the log and that are neither stored nor in  *)
(* the hands of the poll.                                                     *)
Unread == {n \in Lines : 2*n - 1 <= end /\ ~Stored(n) /\ ~InHand(n)}

Excused(S, why) ==
    excuse' = [n \in Lines |-> IF n \in S /\ excuse[n] = "none" THEN why
                               ELSE excuse[n]]

Fault(kind) == kind \in FaultKinds /\ faults < MaxFaults /\ faults' = faults + 1

(* A poll that ends in an exception after its read keeps the offset it moved  *)
(* and not the stat it made; the next poll compares with the older stat.      *)
StatStale == poll.phase = "idle" /\ stat # Unknown /\ offset > stat.size

(* Bound: no truncation falls between such a poll and the next one.  The      *)
(* code cannot notice it then and loses lines (see the README).               *)
Noticeable == ~(cut /\ StatStale /\ ino = stat.ino)

----------------------------------------------------------------------------
(* The log.                                                                   *)

(* Bound on the rate of the log: a file that was cut stays shorter than what  *)
(* had been consumed of it until the next poll (one that outgrew it would be  *)
(* taken for the old file, which the code cannot tell either).                *)
XrayLogs ==
    /\ end < 2 * MaxLines
    /\ ~cut \/ offset = 0 \/ end + 1 - base < offset
    /\ end' = end + 1
    /\ UNCHANGED <<base, ino, cut, stat, offset, partial, pending, seen, poll,
                   rows, excuse, lapsed, cuts, faults>>

Cut(kind) ==
    /\ kind \in Cuts
    /\ cuts < MaxCuts
    /\ cuts' = cuts + 1
    /\ base' = end
    /\ cut' = TRUE
    /\ ino' = IF kind = "rename" THEN ino + 1 ELSE ino
    /\ Excused(Unread, "cut")
    /\ UNCHANGED <<end, stat, offset, partial, pending, seen, poll, rows, lapsed,
                   faults>>
    /\ Noticeable'

----------------------------------------------------------------------------
(* flush.                                                                     *)

(* The keys after one more row.  Mutant: the cap is one too high.             *)
RememberedOneMore(s, r) == LET t == Append(RemoveFirst(s, r), r) IN
                           IF Len(t) > SeenCap + 1 THEN Tail(t) ELSE t
Remembered(s, r) == LET t == Append(RemoveFirst(s, r), r) IN
                    IF Len(t) > SeenCap THEN Tail(t) ELSE t

RememberedAll(batch) ==
    LET after[i \in 0..Len(batch)] ==
            IF i = 0 THEN seen ELSE Remembered(after[i - 1], batch[i]) IN
    after[Len(batch)]

(* Whether the sink takes the batch or throws, the batch is remembered and    *)
(* gone.  What the cap pushes out has lapsed.                                 *)
Flush(batch) ==
    /\ pending' = <<>>
    /\ seen' = RememberedAll(batch)
    /\ lapsed' = lapsed \cup
          {r.first : r \in (ToSet(seen) \cup ToSet(batch)) \ ToSet(seen')}
    /\ \/ rows' = rows \o batch /\ UNCHANGED <<excuse, faults>>
       \/ /\ batch # <<>>
          /\ Fault("sink")
          /\ Excused({r.first : r \in ToSet(batch)}, "fault")
          /\ UNCHANGED rows

----------------------------------------------------------------------------
(* poll.                                                                      *)

(* The first poll of the process takes the end of the file for its offset.    *)
Baseline ==
    /\ poll.phase = "idle"
    /\ stat = Unknown
    /\ stat' = Current
    /\ offset' = end - base
    /\ cut' = FALSE
    /\ Excused(Unread, "history")
    /\ UNCHANGED <<end, base, ino, partial, pending, seen, poll, rows, lapsed, cuts,
                   faults>>

(* The file is not the one of the last poll, or shorter than it was.  Mutants:*)
(* a truncation is not noticed; the half line of the old file stays.          *)
ReplacedByRename == ino # stat.ino
Replaced == ino # stat.ino \/ Current.size < stat.size

PartialKept == UNCHANGED partial
PartialDropped == partial' = IF Replaced THEN <<>> ELSE partial

PollStat ==
    /\ poll.phase = "idle"
    /\ stat # Unknown
    /\ stat' = IF Replaced THEN Current ELSE stat
    /\ offset' = IF Replaced THEN 0 ELSE offset
    /\ PartialDropped
    /\ poll' = [phase |-> IF Current.size > offset' THEN "read" ELSE "lines",
                cur |-> Current, todo |-> <<>>]
    /\ cut' = FALSE
    /\ UNCHANGED <<end, base, ino, pending, seen, rows, excuse, lapsed, cuts, faults>>

(* What readSync delivers from the file that is there now.  `want` comes from *)
(* the stat.  Mutant: the offset moves to the end of the file, whatever was   *)
(* read.                                                                      *)
Smaller(a, b) == IF a < b THEN a ELSE b
Want == Smaller(poll.cur.size - offset, Chunk)
Got == IF Current.size > offset THEN Smaller(Want, Current.size - offset) ELSE 0
OffsetToEnd == poll.cur.size
OffsetAfter == offset + Got

(* split('\n'): the complete lines of a text, and the half line behind them.  *)
Fed(cutUp, unit) ==
    LET line == Append(cutUp.rest, unit) IN
    IF IsTail(unit) THEN [lines |-> Append(cutUp.lines, line), rest |-> <<>>]
    ELSE [lines |-> cutUp.lines, rest |-> line]

Split(text) ==
    LET upTo[i \in 0..Len(text)] ==
            IF i = 0 THEN [lines |-> <<>>, rest |-> <<>>]
            ELSE Fed(upTo[i - 1], text[i]) IN
    upTo[Len(text)]

PollRead ==
    LET text == partial \o [i \in 1..Got |-> base + offset + i] IN
    /\ poll.phase = "read"
    /\ offset' = OffsetAfter
    /\ partial' = Split(text).rest
    /\ poll' = [poll EXCEPT !.phase = "lines", !.todo = Split(text).lines]
    /\ UNCHANGED <<file, stat, pending, seen, rows, excuse, lapsed, cuts, faults>>

(* The file is away or unreadable: the next poll tries again.                 *)
OpenFails ==
    /\ poll.phase = "read"
    /\ Fault("open")
    /\ poll' = Idle
    /\ UNCHANGED <<file, stat, offset, partial, pending, seen, rows, excuse, lapsed,
                   cuts>>
    /\ Noticeable'

(* parseAccessLine accepts a text that begins like a line, unless it is one   *)
(* of the noise.                                                              *)
Parses(text) == ~IsTail(text[1]) /\ LineOf(text[1]) \notin Noise
RowOf(text) == [first |-> LineOf(text[1]), last |-> LineOf(text[Len(text)])]

(* Mutant: nothing is a duplicate.                                            *)
NoDuplicate(r) == FALSE
IsDuplicate(r) == Contains(seen, r)

SkipLine ==
    LET text == Head(poll.todo) IN
    /\ poll.phase = "lines"
    /\ poll.todo # <<>>
    /\ ~Parses(text) \/ IsDuplicate(RowOf(text))
    /\ poll' = [poll EXCEPT !.todo = Tail(@)]
    /\ UNCHANGED <<file, stat, offset, partial, pending, seen, rows, excuse,
                   lapsed, cuts, faults>>

TakeLine ==
    LET text == Head(poll.todo)
        batch == Append(pending, RowOf(text)) IN
    /\ poll.phase = "lines"
    /\ poll.todo # <<>>
    /\ Parses(text) /\ ~IsDuplicate(RowOf(text))
    /\ poll' = [poll EXCEPT !.todo = Tail(@)]
    /\ IF Len(batch) >= Batch
       THEN Flush(batch)
       ELSE pending' = batch /\ UNCHANGED <<seen, rows, excuse, lapsed, faults>>
    /\ UNCHANGED <<file, stat, offset, partial, cuts>>

(* resolveLinkId throws: the poll ends, the rest of the chunk is not looked   *)
(* at again, the stat of this poll is not kept.  The rows taken so far wait   *)
(* in `pending` without being remembered.                                     *)
ResolveFails ==
    /\ poll.phase = "lines"
    /\ poll.todo # <<>>
    /\ Parses(Head(poll.todo))
    /\ Fault("resolve")
    /\ Excused({LineOf(text[1]) : text \in ToSet(poll.todo)}, "fault")
    /\ lapsed' = lapsed \cup {r.first : r \in ToSet(pending)}
    /\ poll' = Idle
    /\ UNCHANGED <<file, stat, offset, partial, pending, seen, rows, cuts>>
    /\ Noticeable'

PollEnd ==
    /\ poll.phase = "lines"
    /\ poll.todo = <<>>
    /\ stat' = poll.cur
    /\ Flush(pending)
    /\ poll' = Idle
    /\ UNCHANGED <<file, offset, partial, cuts>>

(* The control plane dies and comes back; the rows it held are lost.          *)
Restart ==
    /\ Fault("restart")
    /\ stat' = Unknown
    /\ offset' = 0
    /\ partial' = <<>>
    /\ pending' = <<>>
    /\ seen' = <<>>
    /\ poll' = Idle
    /\ UNCHANGED <<file, rows, excuse, lapsed, cuts>>

----------------------------------------------------------------------------
Init ==
    /\ end = 0
    /\ base = 0
    /\ ino = 1
    /\ cut = FALSE
    /\ stat = Unknown
    /\ offset = 0
    /\ partial = <<>>
    /\ pending = <<>>
    /\ seen = <<>>
    /\ poll = Idle
    /\ rows = <<>>
    /\ excuse = [n \in Lines |-> "none"]
    /\ lapsed = {}
    /\ cuts = 0
    /\ faults = 0

Poll ==
    \/ Baseline \/ PollStat \/ PollRead \/ OpenFails
    \/ SkipLine \/ TakeLine \/ ResolveFails \/ PollEnd

Next ==
    \/ XrayLogs
    \/ \E kind \in Cuts : Cut(kind)
    \/ Poll
    \/ Restart

Spec == Init /\ [][Next]_vars

(* The 2 s timer keeps firing and a poll is synchronous.                      *)
Fairness == WF_vars(Poll)

FairSpec == Spec /\ Fairness

----------------------------------------------------------------------------
StatType == [ino : 0..(MaxCuts + 1), size : 0..(2 * MaxLines)]

TypeOK ==
    /\ end \in 0..(2 * MaxLines)
    /\ base \in 0..end
    /\ ino \in 1..(MaxCuts + 1)
    /\ cut \in BOOLEAN
    /\ stat \in StatType
    /\ offset \in 0..(2 * MaxLines)
    /\ ToSet(partial) \subseteq Units
    /\ ToSet(pending) \subseteq Row /\ Len(pending) < Batch
    /\ ToSet(seen) \subseteq Row /\ Len(seen) <= SeenCap
    /\ poll.phase \in {"idle", "read", "lines"}
    /\ poll.cur \in StatType
    /\ \A text \in ToSet(poll.todo) : text # <<>> /\ ToSet(text) \subseteq Units
    /\ ToSet(rows) \subseteq Row
    /\ excuse \in [Lines -> {"none", "history", "cut", "fault"}]
    /\ lapsed \subseteq Lines
    /\ cuts \in 0..MaxCuts
    /\ faults \in 0..MaxFaults

(* Every row of connections is one line of the log, never the beginning of    *)
(* one line glued to the end of another, across chunk borders, truncations    *)
(* and replacements of the file.                                              *)
RowsGenuine == \A r \in ToSet(rows) : r.first = r.last

(* The rows come in the order of the log and no line is stored twice, though  *)
(* a file that is cut between stat and read is read twice.  The exception are *)
(* lines without a fingerprint: those in `pending` when resolveLinkId ended   *)
(* a poll, and those the cap has pushed out since.  Read again, they are      *)
(* taken again.  A restart is no exception, though it clears the fingerprints.*)
StoredInOrder ==
    \A i, j \in DOMAIN rows :
        i < j => rows[i].last < rows[j].first \/ rows[j].first \in lapsed

(* The stat the next poll will compare with, and where the next read will     *)
(* begin, counted in units of the log.                                        *)
Known == IF poll.phase = "idle" THEN stat ELSE poll.cur
Horizon == IF ino # Known.ino \/ Current.size < Known.size THEN base ELSE base + offset

(* Line n is yet to be read: both halves are ahead, or the second one is and  *)
(* the first waits in `partial`.                                              *)
Ahead(n) == \/ 2*n - 1 > Horizon
            \/ 2*n > Horizon /\ partial = <<2*n - 1>>

(* A line that has been in the log since the baseline is stored, in the hands *)
(* of the poll or still ahead of it, unless a rotation or a failure took it:  *)
(* neither the chunk limit nor half lines nor rotations seen in time lose any.*)
NothingForgotten ==
    stat # Unknown =>
        \A n \in Lines \ Noise :
            2*n <= end => \/ Stored(n) \/ InHand(n) \/ Ahead(n)
                          \/ excuse[n] # "none"

(* A complete line ends up in connections, unless it is excused.              *)
Drains ==
    \A n \in Lines \ Noise :
        2*n <= end ~> Stored(n) \/ excuse[n] # "none"
=============================================================================
