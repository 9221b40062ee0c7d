------------------------------- MODULE Schema -------------------------------
(* Opening the ledger database (db/init.ts): initSchema runs its statements   *)
(* one by one, each committed by itself, over a database of any earlier       *)
(* version, and may be killed between any two of them.  Only the removal of   *)
(* the column speed_mbps is a transaction; an SQLite without DROP COLUMN      *)
(* rebuilds the table in it.  Indexes are left out.                           *)
EXTENDS Naturals, Sequences

CONSTANT Rows       \* the links in a database of an earlier version

VARIABLES db,       \* tables; columns and rows of links; rows of links_new
          undo,     \* what a killed process leaves to be restored: <<>> or <<db>>
          stage,    \* how far the transaction of dropSpeedColumn is
          pc,       \* next statement of initSchema
          modern    \* SQLite has ALTER TABLE DROP COLUMN

(* Mutant: the columns are repaired in the other order.                       *)
ScriptSwapped == <<"links", "addAlias", "dropSpeed", "traffic_samples", "connections",
                   "audit_log", "clash_subs", "users", "sessions">>
Script == <<"links", "dropSpeed", "addAlias", "traffic_samples", "connections",
            "audit_log", "clash_subs", "users", "sessions">>
Tables == {"links", "traffic_samples", "connections", "audit_log", "clash_subs",
           "users", "sessions"}

(* No database; v0.1, with the speed column; later ones without or with alias.*)
Earlier == {[tables |-> {}, cols |-> {}, rows |-> {}, spare |-> {}]} \cup
           [tables : {{"links"}}, cols : {{"core", "speed"}, {"core"}, {"core", "alias"}},
            rows : {Rows}, spare : {{}}]

Opened == pc > Len(Script)
AtStatement(s) == pc <= Len(Script) /\ Script[pc] = s
Goes == pc' = pc + 1

CreateTable(t) ==
    /\ AtStatement(t)
    /\ db' = IF t \in db.tables THEN db
             ELSE IF t = "links"
                  THEN [db EXCEPT !.tables = @ \cup {t}, !.cols = {"core", "alias"}]
                  ELSE [db EXCEPT !.tables = @ \cup {t}]
    /\ Goes
    /\ UNCHANGED <<undo, stage, modern>>

AddAliasColumn ==
    /\ AtStatement("addAlias")
    /\ db' = [db EXCEPT !.cols = @ \cup {"alias"}]
    /\ Goes
    /\ UNCHANGED <<undo, stage, modern>>

HasSpeedColumn == "speed" \in db.cols

NothingToDrop ==
    /\ AtStatement("dropSpeed")
    /\ ~HasSpeedColumn /\ stage = "none"
    /\ Goes
    /\ UNCHANGED <<db, undo, stage, modern>>

(* What BEGIN saves.  Mutant: the statements run without db.transaction.      *)
SavedNot == <<>>
Saved == <<db>>

DropColumn ==
    /\ AtStatement("dropSpeed")
    /\ HasSpeedColumn /\ modern /\ stage = "none"
    /\ undo' = Saved
    /\ db' = [db EXCEPT !.cols = @ \ {"speed"}]
    /\ stage' = "renamed"
    /\ UNCHANGED <<pc, modern>>

RebuildCopies ==
    /\ AtStatement("dropSpeed")
    /\ HasSpeedColumn /\ ~modern /\ stage = "none"
    /\ undo' = Saved
    /\ db' = [db EXCEPT !.spare = db.rows]
    /\ stage' = "copied"
    /\ UNCHANGED <<pc, modern>>

RebuildDrops ==
    /\ stage = "copied"
    /\ db' = [db EXCEPT !.tables = @ \ {"links"}, !.cols = {}, !.rows = {}]
    /\ stage' = "dropped"
    /\ UNCHANGED <<undo, pc, modern>>

RebuildRenames ==
    /\ stage = "dropped"
    /\ db' = [db EXCEPT !.tables = @ \cup {"links"}, !.cols = {"core"},
                        !.rows = db.spare, !.spare = {}]
    /\ stage' = "renamed"
    /\ UNCHANGED <<undo, pc, modern>>

Commit ==
    /\ stage = "renamed"
    /\ undo' = <<>>
    /\ stage' = "none"
    /\ Goes
    /\ UNCHANGED <<db, modern>>

Statement ==
    \/ \E t \in Tables : CreateTable(t)
    \/ AddAliasColumn
    \/ NothingToDrop \/ DropColumn
    \/ RebuildCopies \/ RebuildDrops \/ RebuildRenames \/ Commit

(* The process is gone: SQLite rolls an open transaction back.                *)
Committed == IF undo = <<>> THEN db ELSE undo[1]

Killed == /\ db' = Committed
          /\ undo' = <<>>
          /\ stage' = "none"
          /\ pc' = 1
          /\ UNCHANGED modern

SchemaInit == /\ db \in Earlier
              /\ undo = <<>>
              /\ stage = "none"
              /\ pc = 1
              /\ modern \in BOOLEAN

Complete == db.tables = Tables /\ db.cols = {"core", "alias"}
=============================================================================
