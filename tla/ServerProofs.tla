---------------------------- MODULE ServerProofs ----------------------------
(* Proved of Server for every set of endpoints, links and timers and for     *)
(* every bound: no start loses a link, a server that listens has its schema,  *)
(* and the history of the probes is newest first.  The first two rest on      *)
(* SchemaInv, which says what the statements run so far have established and  *)
(* what an open transaction would restore; the third on ProbeInv, which says  *)
(* that at most one round is in flight and that it is newer than the history. *)
EXTENDS Server, FiniteSetTheorems, TLAPS

Columns == {"core", "speed", "alias"}
Db == [tables : SUBSET S!Tables, cols : SUBSET Columns, rows : SUBSET Rows, spare : SUBSET Rows]

(* What holds of the database d before statement n.                           *)
Passed(d, n) ==
    /\ "links" \in d.tables => "core" \in d.cols
    /\ n > 1 => "links" \in d.tables
    /\ n > 2 => "speed" \notin d.cols
    /\ n > 3 => "alias" \in d.cols
    /\ n > 4 => "traffic_samples" \in d.tables
    /\ n > 5 => "connections" \in d.tables
    /\ n > 6 => "audit_log" \in d.tables
    /\ n > 7 => "clash_subs" \in d.tables
    /\ n > 8 => "users" \in d.tables
    /\ n > 9 => "sessions" \in d.tables

(* The transaction of dropSpeedColumn can be undone, and loses no row.        *)
InTransaction ==
    /\ pc = 2
    /\ Len(undo) = 1 /\ undo = <<undo[1]>> /\ undo[1] \in Db
    /\ Passed(undo[1], 1)
    /\ undo[1].rows \subseteq IF stage = "renamed" THEN db.rows ELSE db.spare
    /\ stage = "renamed" => /\ "links" \in db.tables
                            /\ "core" \in db.cols
                            /\ "speed" \notin db.cols

SchemaInv ==
    /\ db \in Db
    /\ pc \in 1..10
    /\ stage \in {"none", "copied", "dropped", "renamed"}
    /\ stage = "none" => undo = <<>> /\ Passed(db, pc)
    /\ stage # "none" => InTransaction

SchemaKept == SchemaInv /\ S!Committed.rows \subseteq S!Committed'.rows /\ SchemaInv'

----------------------------------------------------------------------------
(* Which number each statement has.                                           *)
LEMMA Statements ==
    ASSUME pc \in 1..10
    PROVE  /\ S!AtStatement("links") <=> pc = 1
           /\ S!AtStatement("dropSpeed") <=> pc = 2
           /\ S!AtStatement("addAlias") <=> pc = 3
           /\ S!AtStatement("traffic_samples") <=> pc = 4
           /\ S!AtStatement("connections") <=> pc = 5
           /\ S!AtStatement("audit_log") <=> pc = 6
           /\ S!AtStatement("clash_subs") <=> pc = 7
           /\ S!AtStatement("users") <=> pc = 8
           /\ S!AtStatement("sessions") <=> pc = 9
           /\ S!Opened <=> pc = 10
<1>1. Len(S!Script) = 9
  BY DEF S!Script
<1>2. /\ S!Script[1] = "links" /\ S!Script[2] = "dropSpeed" /\ S!Script[3] = "addAlias"
      /\ S!Script[4] = "traffic_samples" /\ S!Script[5] = "connections"
      /\ S!Script[6] = "audit_log" /\ S!Script[7] = "clash_subs"
      /\ S!Script[8] = "users" /\ S!Script[9] = "sessions"
  BY DEF S!Script
<1> QED
  BY <1>1, <1>2 DEF S!AtStatement, S!Opened

(* What a killed process finds again is a database of some version.           *)
LEMMA CommittedIsOld ==
    ASSUME SchemaInv
    PROVE  S!Committed \in Db /\ Passed(S!Committed, 1)
<1>1. CASE stage = "none"
  BY <1>1 DEF SchemaInv, S!Committed, Passed
<1>2. CASE stage # "none"
  <2>1. undo # <<>> /\ undo[1] \in Db /\ Passed(undo[1], 1)
    BY <1>2 DEF SchemaInv, InTransaction
  <2> QED
    BY <2>1 DEF S!Committed
<1> QED
  BY <1>1, <1>2

(* CREATE TABLE IF NOT EXISTS.                                                *)
LEMMA CreateTableKeeps ==
    ASSUME SchemaInv, NEW t \in S!Tables, S!CreateTable(t)
    PROVE  SchemaKept
<1>1. pc \in 1..10
  BY DEF SchemaInv
<1>2. pc \in {1, 4, 5, 6, 7, 8, 9} /\ pc' = pc + 1 /\ t = S!Script[pc]
  BY <1>1, Statements DEF S!CreateTable, S!Goes, S!Tables, S!AtStatement
<1>3. stage = "none" /\ stage' = "none" /\ undo = <<>> /\ undo' = <<>> /\ Passed(db, pc)
  BY <1>2 DEF SchemaInv, InTransaction, S!CreateTable
<1>4. db \in Db /\ db' \in Db /\ db'.rows = db.rows /\ db'.tables = db.tables \cup {t}
  BY DEF SchemaInv, S!CreateTable, Db, Columns
<1>5. /\ t # "links" \/ t \in db.tables => db'.cols = db.cols
      /\ t = "links" /\ t \notin db.tables => db'.cols = {"core", "alias"}
  BY DEF SchemaInv, S!CreateTable, Db
<1>6. Passed(db', pc')
  <2>1. \/ (pc = 1 /\ t = "links")       \/ (pc = 4 /\ t = "traffic_samples")
        \/ (pc = 5 /\ t = "connections") \/ (pc = 6 /\ t = "audit_log")
        \/ (pc = 7 /\ t = "clash_subs")  \/ (pc = 8 /\ t = "users")
        \/ (pc = 9 /\ t = "sessions")
    BY <1>2 DEF S!Script
  <2> QED
    BY <2>1, <1>2, <1>3, <1>4, <1>5 DEF Passed
<1>7. S!Committed = db /\ S!Committed' = db'
  BY <1>3 DEF S!Committed
<1> QED
  BY <1>2, <1>3, <1>4, <1>6, <1>7 DEF SchemaKept, SchemaInv

LEMMA AddAliasKeeps ==
    ASSUME SchemaInv, S!AddAliasColumn
    PROVE  SchemaKept
<1>1. pc = 3 /\ pc' = 4
  BY Statements DEF SchemaInv, S!AddAliasColumn, S!Goes
<1>2. stage = "none" /\ stage' = "none" /\ undo = <<>> /\ undo' = <<>> /\ Passed(db, pc)
  BY <1>1 DEF SchemaInv, InTransaction, S!AddAliasColumn
<1>3. /\ db' \in Db /\ db'.rows = db.rows /\ db'.tables = db.tables
      /\ db'.cols = db.cols \cup {"alias"}
  BY DEF SchemaInv, S!AddAliasColumn, Db, Columns
<1>4. Passed(db', pc')
  BY <1>1, <1>2, <1>3 DEF Passed
<1>5. S!Committed = db /\ S!Committed' = db'
  BY <1>2 DEF S!Committed
<1> QED
  BY <1>1, <1>2, <1>3, <1>4, <1>5 DEF SchemaKept, SchemaInv

LEMMA NothingToDropKeeps ==
    ASSUME SchemaInv, S!NothingToDrop
    PROVE  SchemaKept
<1>1. pc = 2 /\ pc' = 3
  BY Statements DEF SchemaInv, S!NothingToDrop, S!Goes
<1>2. /\ stage = "none" /\ stage' = "none" /\ undo = <<>> /\ undo' = <<>> /\ db' = db
      /\ Passed(db, pc) /\ "speed" \notin db.cols
  BY DEF SchemaInv, S!NothingToDrop, S!HasSpeedColumn
<1>3. Passed(db', pc')
  BY <1>1, <1>2 DEF Passed
<1>4. S!Committed = db /\ S!Committed' = db'
  BY <1>2 DEF S!Committed
<1> QED
  BY <1>1, <1>2, <1>3, <1>4 DEF SchemaKept, SchemaInv

(* BEGIN, and the statement after it.                                         *)
LEMMA TransactionBegins ==
    ASSUME SchemaInv, S!DropColumn \/ S!RebuildCopies
    PROVE  SchemaKept
<1>1. pc = 2 /\ pc' = 2
  BY Statements DEF SchemaInv, S!DropColumn, S!RebuildCopies
<1>2. stage = "none" /\ undo = <<>> /\ undo' = <<db>> /\ Passed(db, pc) /\ db \in Db
  BY DEF SchemaInv, S!DropColumn, S!RebuildCopies, S!Saved
<1>3. Len(undo') = 1 /\ undo'[1] = db /\ undo' # <<>>
  BY <1>2
<1>4. S!Committed = db /\ S!Committed' = db
  BY <1>2, <1>3 DEF S!Committed
<1>5. Passed(db, 1)
  BY <1>2 DEF Passed
<1>6. CASE S!DropColumn
  <2>1. /\ db' \in Db /\ db'.rows = db.rows /\ db'.tables = db.tables
        /\ db'.cols = db.cols \ {"speed"} /\ stage' = "renamed"
    BY <1>2, <1>6 DEF S!DropColumn, Db
  <2>2. "links" \in db.tables /\ "core" \in db.cols
    BY <1>1, <1>2 DEF Passed
  <2>3. InTransaction'
    BY <1>1, <1>2, <1>3, <1>5, <2>1, <2>2 DEF InTransaction
  <2> QED
    BY <1>1, <1>4, <2>1, <2>3 DEF SchemaKept, SchemaInv
<1>7. CASE S!RebuildCopies
  <2>1. db' \in Db /\ db'.spare = db.rows /\ stage' = "copied"
    BY <1>2, <1>7 DEF S!RebuildCopies, Db
  <2>2. InTransaction'
    BY <1>1, <1>2, <1>3, <1>5, <2>1 DEF InTransaction
  <2> QED
    BY <1>1, <1>4, <2>1, <2>2 DEF SchemaKept, SchemaInv
<1> QED
  BY <1>6, <1>7

LEMMA TransactionGoesOn ==
    ASSUME SchemaInv, S!RebuildDrops \/ S!RebuildRenames
    PROVE  SchemaKept
<1>1. /\ stage # "none" /\ stage' # "none" /\ stage # "renamed" /\ undo' = undo /\ pc' = pc
      /\ InTransaction /\ db \in Db /\ pc = 2
  BY DEF SchemaInv, InTransaction, S!RebuildDrops, S!RebuildRenames
<1>2. undo # <<>>
  BY <1>1 DEF InTransaction
<1>3. S!Committed = undo[1] /\ S!Committed' = undo[1]
  BY <1>1, <1>2 DEF S!Committed
<1>4. CASE S!RebuildDrops
  <2>1. db' \in Db /\ db'.spare = db.spare /\ stage' = "dropped"
    BY <1>1, <1>4 DEF S!RebuildDrops, Db
  <2>2. InTransaction'
    BY <1>1, <2>1 DEF InTransaction
  <2> QED
    BY <1>1, <1>3, <2>1, <2>2 DEF SchemaKept, SchemaInv
<1>5. CASE S!RebuildRenames
  <2>1. /\ db' \in Db /\ db'.rows = db.spare /\ stage' = "renamed"
        /\ "links" \in db'.tables /\ db'.cols = {"core"}
    BY <1>1, <1>5 DEF S!RebuildRenames, Db, S!Tables, Columns
  <2>2. InTransaction'
    BY <1>1, <2>1 DEF InTransaction
  <2> QED
    BY <1>1, <1>3, <2>1, <2>2 DEF SchemaKept, SchemaInv
<1> QED
  BY <1>4, <1>5

LEMMA CommitKeeps ==
    ASSUME SchemaInv, S!Commit
    PROVE  SchemaKept
<1>1. /\ stage = "renamed" /\ stage' = "none" /\ undo' = <<>> /\ db' = db
      /\ InTransaction /\ db \in Db /\ pc = 2 /\ pc' = 3
  BY DEF SchemaInv, InTransaction, S!Commit, S!Goes
<1>2. undo # <<>> /\ undo[1].rows \subseteq db.rows
  BY <1>1 DEF InTransaction
<1>3. S!Committed = undo[1] /\ S!Committed' = db
  BY <1>1, <1>2 DEF S!Committed
<1>4. Passed(db', pc')
  BY <1>1 DEF InTransaction, Passed
<1> QED
  BY <1>1, <1>2, <1>3, <1>4 DEF SchemaKept, SchemaInv

LEMMA StatementKeeps ==
    ASSUME SchemaInv, S!Statement
    PROVE  SchemaKept
BY CreateTableKeeps, AddAliasKeeps, NothingToDropKeeps, TransactionBegins, TransactionGoesOn,
   CommitKeeps DEF S!Statement

(* The process dies: what was committed stays, an open transaction is undone. *)
LEMMA KilledKeeps ==
    ASSUME SchemaInv, S!Killed
    PROVE  SchemaKept
<1>1. S!Committed \in Db /\ Passed(S!Committed, 1)
  BY CommittedIsOld
<1>2. db' = S!Committed /\ undo' = <<>> /\ stage' = "none" /\ pc' = 1
  BY DEF S!Killed
<1>3. S!Committed' = db'
  BY <1>2 DEF S!Committed
<1> QED
  BY <1>1, <1>2, <1>3 DEF SchemaKept, SchemaInv

----------------------------------------------------------------------------
(* The whole process.                                                         *)
LifeInv ==
    /\ phase \in {"opening", "up", "closing", "down"}
    /\ phase \in {"up", "closing"} => pc = 10

StoreInv == SchemaInv /\ LifeInv

LEMMA StoreInit == Init => StoreInv
<1> SUFFICES ASSUME Init PROVE StoreInv
  OBVIOUS
<1>1. db \in S!Earlier /\ undo = <<>> /\ stage = "none" /\ pc = 1 /\ phase = "down"
  BY DEF Init, S!SchemaInit
<1>2. db \in Db /\ Passed(db, 1)
  BY <1>1 DEF S!Earlier, Db, S!Tables, Columns, Passed
<1> QED
  BY <1>1, <1>2 DEF StoreInv, SchemaInv, LifeInv

LEMMA StoreStep ==
    ASSUME StoreInv, [Next]_vars
    PROVE  StoreInv' /\ S!Committed.rows \subseteq S!Committed'.rows
<1> USE DEF StoreInv
<1>1. CASE UNCHANGED schema
  <2>1. UNCHANGED <<db, undo, stage, pc>>
    BY <1>1 DEF schema
  <2>2. SchemaInv' /\ S!Committed' = S!Committed
    BY <2>1 DEF SchemaInv, InTransaction, S!Committed
  <2>3. LifeInv'
    <3>1. CASE phase' \in {"up", "closing"}
      <4>1. \/ phase' = phase \/ Listening \/ Shutdown
        BY <3>1 DEF Next, vars, life, Opening, WarmUp, ProbeTimer, Probing,
                    Exit, Crash, Gone, Boot, Tick
      <4>2. CASE phase' = phase
        BY <2>1, <4>2 DEF LifeInv
      <4>3. CASE Listening
        BY <2>1, <3>1, <4>3, Statements DEF Listening, SchemaInv, LifeInv
      <4>4. CASE Shutdown
        BY <2>1, <3>1, <4>4 DEF Shutdown, LifeInv
      <4> QED
        BY <4>1, <4>2, <4>3, <4>4
    <3>2. CASE phase' \notin {"up", "closing"}
      BY <3>2 DEF LifeInv, Next, vars, life, Opening, Listening, WarmUp,
                  ProbeTimer, Probing, Shutdown, Exit, Crash, Gone, Boot, Tick
    <3> QED
      BY <3>1, <3>2
  <2> QED
    BY <2>2, <2>3
<1>2. CASE Opening
  <2>1. phase = "opening" /\ phase' = phase /\ SchemaKept
    BY <1>2, StatementKeeps DEF Opening, life
  <2> QED
    BY <2>1 DEF LifeInv, SchemaKept
<1>3. CASE Gone
  <2>1. phase' = "down" /\ SchemaKept
    BY <1>3, KilledKeeps DEF Gone
  <2> QED
    BY <2>1 DEF LifeInv, SchemaKept
<1>4. \/ UNCHANGED schema \/ Opening \/ Gone
  BY DEF Next, vars, Listening, WarmUp, ProbeTimer, Probing, Shutdown, Exit, Crash, Boot, Tick
<1> QED
  BY <1>1, <1>2, <1>3, <1>4

(* Whatever version the database was of and wherever a start was killed, no   *)
(* step loses a link (db/init.ts).                                            *)
THEOREM NoRowLost == Spec => RowsKept
<1>1. StoreInv /\ [Next]_vars => StoreInv'
  BY StoreStep
<1>2. StoreInv /\ [Next]_vars => [S!Committed.rows \subseteq S!Committed'.rows]_vars
  BY StoreStep
<1> QED
  BY StoreInit, <1>1, <1>2, PTL DEF Spec, RowsKept

(* A server that listens has every table and column (index.ts, db/init.ts).   *)
THEOREM ListensWithSchema == Spec => []SchemaReady
<1>1. StoreInv /\ [Next]_vars => StoreInv'
  BY StoreStep
<1>2. StoreInv => SchemaReady
  <2> SUFFICES ASSUME StoreInv, phase \in {"up", "closing"} PROVE S!Complete
    BY DEF SchemaReady
  <2>1. pc = 10 /\ stage = "none" /\ db \in Db /\ Passed(db, 10)
    BY DEF StoreInv, LifeInv, SchemaInv, InTransaction
  <2>2. db.tables = S!Tables
    BY <2>1 DEF Db, S!Tables, Passed
  <2>3. db.cols = {"core", "alias"}
    BY <2>1 DEF Db, Columns, Passed
  <2> QED
    BY <2>2, <2>3 DEF S!Complete
<1> QED
  BY StoreInit, <1>1, <1>2, PTL DEF Spec

----------------------------------------------------------------------------
(* At most one round is in flight, and it began after every round that ended. *)
ProbeInv ==
    /\ now \in 0..MaxTime
    /\ rounds \in Seq(P!Round) /\ Len(rounds) <= MaxRounds
    /\ \A i \in 1..Len(rounds) : P!Settled(rounds[i]) /\ rounds[i].ts <= now
    /\ flight \subseteq P!Round /\ \A r, s \in flight : r = s
    /\ \A r \in flight : r.ts <= now /\ \A i \in 1..Len(rounds) : rounds[i].ts <= r.ts
    /\ \A i, j \in 1..Len(rounds) : i < j => rounds[i].ts >= rounds[j].ts

LEMMA ProbeInit == Init => ProbeInv
BY ServerAssumption DEF Init, ProbeInv, ServerAssumption

(* A round that is asked for while one is in flight is that one.              *)
LEMMA RunRoundKeeps ==
    ASSUME ProbeInv, P!RunRound, UNCHANGED now
    PROVE  ProbeInv'
<1>1. CASE flight # {}
  <2>1. UNCHANGED <<now, rounds, flight>>
    BY <1>1 DEF P!RunRound, P!Shared
  <2> QED
    BY <2>1 DEF ProbeInv
<1>2. CASE flight = {}
  <2>1. flight' = {P!Begun} /\ rounds' = rounds
    BY <1>2 DEF P!RunRound, P!Shared
  <2>2. P!Begun \in P!Round /\ P!Begun.ts = now
    BY DEF P!Begun, P!Round, P!Outcomes, ProbeInv
  <2> QED
    BY <2>1, <2>2 DEF ProbeInv
<1> QED
  BY <1>1, <1>2

LEMMA ProbeOneKeeps ==
    ASSUME ProbeInv, NEW r \in flight, NEW p \in Probes, P!ProbeOne(r, p)
    PROVE  ProbeInv'
<1>1. PICK o \in {"ok", "failed"} : flight' = (flight \ {r}) \cup {[r EXCEPT !.results[p] = o]}
  BY DEF P!ProbeOne
<1> DEFINE s == [r EXCEPT !.results[p] = o]
<1>2. r \in P!Round /\ flight = {r} /\ now' = now /\ rounds' = rounds
  BY DEF P!ProbeOne, ProbeInv
<1>3. s \in P!Round /\ s.ts = r.ts
  BY <1>1, <1>2 DEF P!Round, P!Outcomes
<1> HIDE DEF s
<1>4. flight' = {s}
  BY <1>1, <1>2 DEF s
<1> QED
  BY <1>2, <1>3, <1>4 DEF ProbeInv

(* A settled round goes in front of the history, which keeps its length.      *)
LEMMA RoundEndsKeeps ==
    ASSUME ProbeInv, NEW r \in flight, P!RoundEnds(r)
    PROVE  ProbeInv'
<1> DEFINE all == <<r>> \o rounds
<1>1. /\ r \in P!Round /\ r.ts <= now /\ flight = {r} /\ flight' = {} /\ now' = now
      /\ rounds' = P!Keep(all) /\ P!Settled(r)
  BY DEF P!RoundEnds, P!Cleared, ProbeInv
<1>2. all \in Seq(P!Round) /\ Len(all) = Len(rounds) + 1
  BY <1>1 DEF ProbeInv
<1>3. \A i \in 1..Len(all) : all[i] = IF i = 1 THEN r ELSE rounds[i - 1]
  BY <1>1 DEF ProbeInv
<1> HIDE DEF all
<1> DEFINE n == IF Len(all) > MaxRounds THEN MaxRounds ELSE Len(all)
<1>4. n \in Nat /\ n <= Len(all) /\ n <= MaxRounds /\ rounds' = SubSeq(all, 1, n)
  BY <1>1, <1>2, ServerAssumption DEF P!Keep, ServerAssumption, ProbeInv
<1> HIDE DEF n
<1>5. rounds' \in Seq(P!Round) /\ Len(rounds') = n
  BY <1>2, <1>4
<1>6. \A i \in 1..n : rounds'[i] = IF i = 1 THEN r ELSE rounds[i - 1]
  BY <1>2, <1>3, <1>4
<1>7. \A i \in 1..n : /\ P!Settled(rounds'[i])
                      /\ rounds'[i].ts <= now
  BY <1>1, <1>2, <1>4, <1>6 DEF ProbeInv
<1>8. \A i \in 1..Len(rounds) : rounds[i] \in P!Round
  BY DEF ProbeInv
<1>9. \A i, j \in 1..n : i < j => rounds'[i].ts >= rounds'[j].ts
  <2> SUFFICES ASSUME NEW i \in 1..n, NEW j \in 1..n, i < j
               PROVE  rounds'[i].ts >= rounds'[j].ts
    OBVIOUS
  <2>1. rounds'[j] = rounds[j - 1] /\ j - 1 \in 1..Len(rounds)
    BY <1>2, <1>4, <1>6 DEF ProbeInv
  <2>2. CASE i = 1
    BY <2>1, <2>2, <1>1, <1>6, <1>8 DEF ProbeInv, P!Round
  <2>3. CASE i # 1
    <3>1. rounds'[i] = rounds[i - 1] /\ i - 1 \in 1..Len(rounds) /\ i - 1 < j - 1
      BY <2>3, <1>2, <1>4, <1>6 DEF ProbeInv
    <3> QED
      BY <2>1, <3>1 DEF ProbeInv
  <2> QED
    BY <2>2, <2>3
<1>10. now' \in 0..MaxTime /\ now' = now
  BY <1>1 DEF ProbeInv
<1> QED
  BY <1>1, <1>4, <1>5, <1>7, <1>9, <1>10 DEF ProbeInv

LEMMA ProbeStep ==
    ASSUME ProbeInv, [Next]_vars
    PROVE  ProbeInv'
<1>1. CASE UNCHANGED <<now, probe>>
  BY <1>1 DEF ProbeInv, probe
<1>2. CASE UNCHANGED now /\ P!RunRound
  BY <1>2, RunRoundKeeps
<1>3. CASE Probing
  <2>1. PICK r \in flight : P!RoundEnds(r) \/ \E p \in Probes : P!ProbeOne(r, p)
    BY <1>3 DEF Probing
  <2> QED
    BY <2>1, RoundEndsKeeps, ProbeOneKeeps
<1>4. CASE UNCHANGED now /\ P!Forgotten
  <2>1. rounds' = <<>> /\ flight' = {} /\ now' = now
    BY <1>4 DEF P!Forgotten
  <2> QED
    BY <2>1, ServerAssumption DEF ProbeInv, ServerAssumption
<1>5. CASE Tick
  <2>1. now' = now + 1 /\ now' \in 0..MaxTime /\ rounds' = rounds /\ flight' = flight
    BY <1>5, ServerAssumption DEF Tick, probe, ProbeInv, ServerAssumption
  <2>2. \A r \in flight : r.ts \in Nat
    BY DEF ProbeInv, P!Round
  <2>3. \A i \in 1..Len(rounds) : rounds[i].ts \in Nat
    <3>1. \A i \in 1..Len(rounds) : rounds[i] \in P!Round
      BY DEF ProbeInv
    <3> QED
      BY <3>1 DEF P!Round
  <2>4. now \in Nat
    BY DEF ProbeInv
  <2> QED
    BY <2>1, <2>2, <2>3, <2>4 DEF ProbeInv
<1>6. \/ UNCHANGED <<now, probe>>
      \/ UNCHANGED now /\ P!RunRound
      \/ Probing
      \/ UNCHANGED now /\ P!Forgotten
      \/ Tick
  BY DEF Next, vars, probe, Boot, Opening, Listening, WarmUp, GoesOn, ProbeTimer, Shutdown, Exit, Crash, Gone
<1> QED
  BY <1>1, <1>2, <1>3, <1>4, <1>5, <1>6

(* However often a round is asked for, the history is newest first            *)
(* (services/regionProbe.ts, runRound and doTick).                            *)
THEOREM HistoryNewestFirst == Spec => []NewestFirst
<1>1. ProbeInv /\ [Next]_vars => ProbeInv'
  BY ProbeStep
<1>2. ProbeInv => NewestFirst
  BY DEF ProbeInv, NewestFirst
<1> QED
  BY ProbeInit, <1>1, <1>2, PTL DEF Spec

----------------------------------------------------------------------------
(* What is left of TypeOK: the variables of the process itself.               *)
ProcessTypes ==
    /\ warm \in {"no", "pending", "done"}
    /\ timers \subseteq Intervals
    /\ starts \in 0..MaxStarts

LEMMA ProcessStep ==
    ASSUME ProcessTypes, [Next]_vars
    PROVE  ProcessTypes'
<1>1. CASE UNCHANGED life
  BY <1>1 DEF ProcessTypes, life
<1>2. CASE Boot
  BY <1>2, ServerAssumption DEF Boot, ProcessTypes, ServerAssumption
<1>3. CASE Listening \/ WarmUp \/ Shutdown \/ Gone
  BY <1>3 DEF Listening, WarmUp, GoesOn, Shutdown, Gone, ProcessTypes
<1> QED
  BY <1>1, <1>2, <1>3 DEF Next, vars, Opening, ProbeTimer, Probing, Exit, Crash, Tick

(* The types of the variables, which bound the history of the probes by       *)
(* maxRounds and the timers by the intervals that are not 0.                  *)
THEOREM Typed == Spec => []TypeOK
<1>1. StoreInv /\ ProbeInv /\ ProcessTypes /\ [Next]_vars
        => StoreInv' /\ ProbeInv' /\ ProcessTypes'
  BY StoreStep, ProbeStep, ProcessStep
<1>2. Init => ProcessTypes
  BY ServerAssumption DEF Init, ProcessTypes, ServerAssumption
<1>3. StoreInv /\ ProbeInv /\ ProcessTypes => TypeOK
  <2> SUFFICES ASSUME StoreInv, ProbeInv, ProcessTypes PROVE TypeOK
    OBVIOUS
  <2>1. \A i \in DOMAIN rounds : rounds[i] \in P!Round /\ P!Settled(rounds[i])
    BY DEF ProbeInv
  <2>2. db.tables \subseteq S!Tables /\ db.cols \subseteq {"core", "speed", "alias"}
    BY DEF StoreInv, SchemaInv, Db, Columns
  <2> QED
    BY <2>1, <2>2 DEF TypeOK, StoreInv, LifeInv, ProbeInv, ProcessTypes
<1> QED
  BY StoreInit, ProbeInit, <1>1, <1>2, <1>3, PTL DEF Spec

----------------------------------------------------------------------------
(* What a stop() that found start() finished has left behind.                 *)
QuietInv ==
    phase = "closing" /\ ~early => timers = {} /\ ~tailing /\ warm # "pending"

LEMMA QuietStep ==
    ASSUME QuietInv, ProcessTypes, [Next]_vars
    PROVE  QuietInv'
<1> SUFFICES ASSUME phase' = "closing", ~early'
             PROVE  timers' = {} /\ ~tailing' /\ warm' # "pending"
  BY DEF QuietInv
<1>1. CASE Shutdown
  <2>1. timers' = {} /\ ~tailing'
    BY <1>1, ServerAssumption DEF Shutdown, ClearedByStop, ProcessTypes, ServerAssumption
  <2>2. warm' # "pending"
    BY <1>1 DEF Shutdown
  <2> QED
    BY <2>1, <2>2
<1>2. CASE UNCHANGED life
  BY <1>2 DEF QuietInv, life
<1>3. CASE WarmUp
  BY <1>3 DEF WarmUp, QuietInv
<1>4. CASE Boot \/ Listening \/ Gone
  BY <1>4 DEF Boot, Listening, Gone
<1> QED
  BY <1>1, <1>2, <1>3, <1>4
     DEF Next, vars, Opening, ProbeTimer, Probing, Exit, Crash, Tick

LEMMA NoNewRound ==
    ASSUME QuietInv, ProbeInv, [Next]_vars, phase = "closing", ~early
    PROVE  Cardinality(flight') <= Cardinality(flight)
<1>1. timers = {} /\ warm # "pending"
  BY DEF QuietInv
<1>2. flight' = flight \/ flight' = {} \/ Probing
  <2>1. ~ ProbeTimer
    BY <1>1 DEF ProbeTimer
  <2>2. ~ WarmUp
    BY <1>1 DEF WarmUp
  <2>3. Exit \/ Crash => flight' = {}
    BY DEF Exit, Crash, Gone, P!Forgotten
  <2>4. Boot \/ Opening \/ Listening \/ Shutdown \/ Tick \/ UNCHANGED vars => flight' = flight
    BY DEF Boot, Opening, Listening, Shutdown, Tick, vars, probe
  <2> QED
    BY <2>1, <2>2, <2>3, <2>4 DEF Next
<1>3. flight = {} \/ \E r : flight = {r}
  <2>1. \A r, s \in flight : r = s
    BY DEF ProbeInv
  <2> SUFFICES ASSUME flight # {} PROVE \E r : flight = {r}
    OBVIOUS
  <2>2. PICK r : r \in flight
    OBVIOUS
  <2>3. flight = {r}
    BY <2>1, <2>2
  <2> QED
    BY <2>3
<1>4. Cardinality({}) = 0 /\ \A r : Cardinality({r}) = 1
  BY FS_EmptySet, FS_Singleton
<1>5. CASE Probing
  <2>1. PICK r \in flight : P!RoundEnds(r) \/ \E p \in Probes : P!ProbeOne(r, p)
    BY <1>5 DEF Probing
  <2>2. flight = {r}
    BY DEF ProbeInv
  <2>3. flight' = {} \/ \E s : flight' = {s}
    BY <2>1, <2>2 DEF P!RoundEnds, P!Cleared, P!ProbeOne
  <2>4. Cardinality(flight) = 1
    BY <2>2, <1>4
  <2>5. Cardinality(flight') = 0 \/ Cardinality(flight') = 1
    BY <2>3, <1>4
  <2> QED
    BY <2>4, <2>5
<1>6. Cardinality(flight) = 0 \/ Cardinality(flight) = 1
  BY <1>3, <1>4
<1>7. CASE flight' = flight \/ flight' = {}
  BY <1>4, <1>6, <1>7
<1> QED
  BY <1>2, <1>5, <1>7

(* After stop() nothing is set and no round begins (services/scheduler.ts).   *)
THEOREM StopIsQuiet == Spec => QuietAfterStop
<1> DEFINE Inv == QuietInv /\ ProbeInv /\ ProcessTypes
<1>1. Init => Inv
  BY ProbeInit, ServerAssumption DEF Init, QuietInv, ProcessTypes, ServerAssumption
<1>2. Inv /\ [Next]_vars => Inv'
  BY QuietStep, ProbeStep, ProcessStep
<1>3. Inv /\ [Next]_vars
        => [phase = "closing" /\ ~early =>
              timers = {} /\ ~tailing /\ Cardinality(flight') <= Cardinality(flight)]_vars
  BY NoNewRound DEF QuietInv
<1> QED
  BY <1>1, <1>2, <1>3, PTL DEF Spec, QuietAfterStop
=============================================================================
