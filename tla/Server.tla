------------------------------- MODULE Server -------------------------------
(* The control plane as a process (index.ts, services/scheduler.ts): it opens *)
(* the database (Schema), listens, starts the scheduler, which first awaits a *)
(* pull of the traffic and only then sets its timers, probes the regions      *)
(* (RegionProbe), and on a signal stops the timers, closes the server and     *)
(* exits, by force after 3 s.  What the other timers do is in LinkControl,    *)
(* TrafficLedger, ClashSubs and Pages.                                        *)
EXTENDS Naturals, Sequences, FiniteSets

CONSTANTS
    Probes, MaxRounds, MaxTime,   \* see RegionProbe
    Rows,                         \* see Schema
    Intervals,   \* the timers whose interval is not 0
    MaxStarts    \* bound on the starts of the process

Timers == {"expire", "ledger", "connCleanup", "sampleCleanup", "regionProbe", "reconcile"}

ASSUME ServerAssumption ==
    /\ Intervals \subseteq Timers
    /\ {"expire", "ledger", "connCleanup", "sampleCleanup"} \subseteq Intervals
    /\ MaxRounds \in Nat \ {0}
    /\ MaxTime \in Nat
    /\ MaxStarts \in Nat

VARIABLES
    now, rounds, flight,           \* see RegionProbe
    db, undo, stage, pc, modern,   \* see Schema
    phase,    \* opening, up, closing or down
    warm,     \* Scheduler.start: "no", "pending" while it awaits the pull, "done"
    timers,   \* the timers that are set
    tailing,  \* the timer of the tailer is set
    early,    \* history: stop() came while start() was waiting
    starts    \* starts so far

P == INSTANCE RegionProbe
S == INSTANCE Schema

probe == <<rounds, flight>>
schema == <<db, undo, stage, pc, modern>>
life == <<phase, warm, timers, tailing, early, starts>>
vars == <<now, probe, schema, life>>

----------------------------------------------------------------------------
(* initSchema, then app.listen; its callback starts scheduler and tailer.     *)
Opening ==
    /\ phase = "opening"
    /\ S!Statement
    /\ UNCHANGED <<now, probe, life>>

Listening ==
    /\ phase = "opening"
    /\ S!Opened
    /\ phase' = "up"
    /\ warm' = "pending"
    /\ tailing' = TRUE
    /\ UNCHANGED <<now, probe, schema, timers, early, starts>>

(* The first pull has answered or thrown; start() catches what it throws and  *)
(* goes on.  Mutant: it is not caught.                                        *)
GoesOnUncaught(answered) ==
    IF answered THEN timers' = Intervals /\ P!RunRound ELSE UNCHANGED <<timers, probe>>
GoesOn(answered) == timers' = Intervals /\ P!RunRound

(* The rest of start(): it is not asked whether stop() came meanwhile.        *)
WarmUp ==
    /\ warm = "pending"
    /\ warm' = "done"
    /\ \E answered \in BOOLEAN : GoesOn(answered)
    /\ UNCHANGED <<now, schema, phase, tailing, early, starts>>

ProbeTimer ==
    /\ "regionProbe" \in timers
    /\ P!RunRound
    /\ UNCHANGED <<now, schema, life>>

Probing ==
    /\ \E r \in flight : P!RoundEnds(r) \/ \E p \in Probes : P!ProbeOne(r, p)
    /\ UNCHANGED <<schema, life>>

----------------------------------------------------------------------------
(* The timers that stop() clears.  Mutant: the one added last is forgotten.   *)
ClearedButOne == Timers \ {"reconcile"}
ClearedByStop == Timers

(* SIGINT or SIGTERM, also a second one.                                      *)
Shutdown ==
    /\ phase \in {"up", "closing"}
    /\ phase' = "closing"
    /\ timers' = timers \ ClearedByStop
    /\ tailing' = FALSE
    /\ early' = (early \/ warm = "pending")
    /\ UNCHANGED <<now, probe, schema, warm, starts>>

Gone == /\ phase' = "down"
        /\ warm' = "no"
        /\ timers' = {}
        /\ tailing' = FALSE
        /\ early' = FALSE
        /\ P!Forgotten
        /\ S!Killed
        /\ UNCHANGED <<now, starts>>

(* The last connection has closed, or 3 s have passed: after any time.        *)
Exit == phase = "closing" /\ Gone

Crash == phase # "down" /\ starts < MaxStarts /\ Gone

Boot ==
    /\ phase = "down"
    /\ starts < MaxStarts
    /\ starts' = starts + 1
    /\ phase' = "opening"
    /\ UNCHANGED <<now, probe, schema, warm, timers, tailing, early>>

Tick ==
    /\ now < MaxTime
    /\ now' = now + 1
    /\ UNCHANGED <<probe, schema, life>>

----------------------------------------------------------------------------
Init ==
    /\ now = 0
    /\ rounds = <<>>
    /\ flight = {}
    /\ S!SchemaInit
    /\ phase = "down"
    /\ warm = "no"
    /\ timers = {}
    /\ tailing = FALSE
    /\ early = FALSE
    /\ starts = 0

Next ==
    \/ Boot \/ Opening \/ Listening
    \/ WarmUp
    \/ ProbeTimer \/ Probing
    \/ Shutdown \/ Exit \/ Crash
    \/ Tick

Spec == Init /\ [][Next]_vars

(* The pull ends, for it is bounded by timeouts and retries; the probe timer fires again   *)
(* and again; a probe settles at the latest by its timeout; time passes.      *)
(* Starts, signals, exits and crashes owe nobody anything.                    *)
Fairness ==
    /\ WF_vars(WarmUp)
    /\ WF_vars(ProbeTimer) /\ WF_vars(Probing)
    /\ WF_vars(Tick)

FairSpec == Spec /\ Fairness

----------------------------------------------------------------------------
TypeOK ==
    /\ now \in 0..MaxTime
    /\ \A i \in DOMAIN rounds : rounds[i] \in P!Round /\ P!Settled(rounds[i])
    /\ Len(rounds) <= MaxRounds
    /\ flight \subseteq P!Round
    /\ db.tables \subseteq S!Tables
    /\ db.cols \subseteq {"core", "speed", "alias"}
    /\ phase \in {"opening", "up", "closing", "down"}
    /\ warm \in {"no", "pending", "done"}
    /\ timers \subseteq Intervals
    /\ starts \in 0..MaxStarts

(* The history is newest first, so what the page shows as the latest state of *)
(* the regions is never older than what it showed before.                     *)
NewestFirst == \A i, j \in DOMAIN rounds : i < j => rounds[i].ts >= rounds[j].ts

(* A process that stays up goes on probing: in the end the snapshot is of the *)
(* last moment of the clock, however slow or broken the endpoints were.       *)
SnapshotCatchesUp ==
    "regionProbe" \in Intervals => (<>[](phase = "up") => <>[](P!UpdatedAt = MaxTime))

(* After stop() no timer is set and no round begins, unless stop() came while *)
(* start() was still waiting for its first pull.                              *)
QuietAfterStop ==
    [][phase = "closing" /\ ~early =>
          timers = {} /\ ~tailing /\ Cardinality(flight') <= Cardinality(flight)]_vars

(* Whatever version the database is of and wherever a start is killed, no     *)
(* link is lost,                                                              *)
RowsKept == [][S!Committed.rows \subseteq S!Committed'.rows]_vars

(* and a server that listens has all tables and columns its statements need.  *)
SchemaReady == phase \in {"up", "closing"} => S!Complete
=============================================================================
