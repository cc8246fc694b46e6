----------------------------- MODULE Migration -----------------------------
(***************************************************************************)
(* `hookwise migrate`: the import of the TypeScript release's analytics.db *)
(* and cost-state.json (internal/migration/migration.go) into the database *)
(* analytics.Open opens, next to dispatches that record live sessions in   *)
(* it. Several migrations may run at once, any statement may fail (a bad   *)
(* timestamp, a lock held for longer than busy_timeout, a full disk), and  *)
(* any process may be killed between two statements.                       *)
(*                                                                         *)
(* The old database is ~/.hookwise/analytics.db, which is also the default *)
(* path of the new one: inPlace says that no analytics.db_path or state    *)
(* directory sets them apart. A row is a model value; what matters of it   *)
(* is how often the target holds it. A dry run writes nothing (Open and    *)
(* every statement are skipped), so it is a stuttering step here.          *)
(***************************************************************************)
EXTENDS Naturals, Sequences

CONSTANTS
  Migrators,   \* processes that run `hookwise migrate`
  Sessions,    \* rows of the old sessions table, by their id
  StillOpen,   \* those of them that have no ended_at
  Events,      \* rows of the old events table
  Authorship,  \* rows of the old authorship_ledger
  NoRow,       \* no session between its two statements
  MaxPasses    \* bound: import passes begun

ASSUME ConstantsAssumption ==
  /\ StillOpen \subseteq Sessions
  /\ Sessions \cap (Events \cup Authorship) = {}
  /\ Events \cap Authorship = {}
  /\ NoRow \notin Sessions \cup Events \cup Authorship
  /\ MaxPasses \in Nat \ {0}

VARIABLES
  oldDB,     \* is there an old analytics.db?
  oldCosts,  \* is there an old cost-state.json?
  inPlace,   \* are the old database and the target the same file?
  schema,    \* has the target been opened, and has it its schema_meta?
  marker,    \* is ts_migration_done set in it?
  sessions,  \* the target's sessions: see SessionStates
  copies,    \* how often the target holds each row of the two logs
  ledger,    \* cost_state: "none", "old" or "live"
  pc,        \* where each migration is
  detected,  \* did DetectTypeScript return the old database, per migration?
  table,     \* index into Tables of the table being read, per migration
  todo,      \* rows its SELECT has still to return, with their copies
  between,   \* session started but not yet ended, per migration
  errors,    \* has the migration recorded an error?
  passes,    \* import passes begun
  exits,     \* history: {"clean"} once a migration has exited without error
  mishaps    \* history: see Mishap

source == <<oldDB, oldCosts, inPlace>>
target == <<schema, marker, sessions, copies, ledger>>
local  == <<detected, table, todo, between>>
vars   == <<source, target, local, pc, errors, passes, exits, mishaps>>

Logs == Events \cup Authorship
Rows == Sessions \cup Logs
NoRows == [r \in Rows |-> 0]
Tables == <<Sessions, Events, Authorship>>
Importing == {"query", "rows", "ending", "costs", "mark"}
Labels == {"idle", "open", "marker", "validate"} \cup Importing

\* "failed": an error was recorded. "killed": a migration died on the way.
\* "unmarked": a pass could not set the marker. "unread": one could not read
\* it. "overlap": one began while another was importing.
Mishap == {"failed", "killed", "unmarked", "unread", "overlap"}

\* "started" and "old": inserted by a migration, ended by it. "live": inserted
\* by a dispatch. "both": by a migration, with the figures of a dispatch since.
SessionStates == {"absent", "started", "old", "live", "both"}

Init ==
  /\ oldDB \in BOOLEAN /\ oldCosts \in BOOLEAN
  /\ inPlace \in BOOLEAN /\ (inPlace => oldDB)
  /\ schema = FALSE /\ marker = FALSE /\ ledger = "none"
  /\ sessions = [s \in Sessions |-> IF inPlace THEN "old" ELSE "absent"]
  /\ copies = [r \in Logs |-> IF inPlace THEN 1 ELSE 0]
  /\ pc = [m \in Migrators |-> "idle"]
  /\ detected = [m \in Migrators |-> FALSE]
  /\ table = [m \in Migrators |-> 1]
  /\ todo = [m \in Migrators |-> NoRows]
  /\ between = [m \in Migrators |-> NoRow]
  /\ errors = [m \in Migrators |-> FALSE]
  /\ passes = 0 /\ exits = {} /\ mishaps = {}

Goto(m, label) == pc' = [pc EXCEPT ![m] = label]

\* An error is appended to result.Errors and the run goes on.
Fail(m) ==
  /\ errors' = [errors EXCEPT ![m] = TRUE]
  /\ mishaps' = mishaps \cup {"failed"}

NoFail == UNCHANGED <<errors, mishaps>>

\* runMigrate exits with status 0 exactly when no error was recorded.
Exit(m, failed) ==
  /\ Goto(m, "idle")
  /\ errors' = [errors EXCEPT ![m] = FALSE]
  /\ exits' = IF failed THEN exits ELSE exits \cup {"clean"}

-----------------------------------------------------------------------------
\* isGoOriginDB: the old file has a schema_meta table.
IsGoOriginDB == inPlace /\ schema

\* DetectTypeScript. Nothing detected: nothing to do, nothing to report.
Detect(m) ==
  /\ pc[m] = "idle"
  /\ detected' = [detected EXCEPT ![m] = oldDB /\ ~IsGoOriginDB]
  /\ IF detected'[m] \/ oldCosts
       THEN Goto(m, "open") /\ UNCHANGED <<errors, exits>>
       ELSE Exit(m, FALSE)
  /\ UNCHANGED <<source, target, table, todo, between, passes, mishaps>>

\* analytics.Open creates the schema in whatever file it is given.
Open(m) ==
  /\ pc[m] = "open"
  /\ schema' = TRUE
  /\ Goto(m, "marker")
  /\ UNCHANGED <<source, marker, sessions, copies, ledger, local, errors, passes,
                 exits, mishaps>>

OpenFails(m) ==
  /\ pc[m] = "open"
  /\ Exit(m, TRUE)
  /\ mishaps' = mishaps \cup {"failed"}
  /\ UNCHANGED <<source, target, local, passes>>

AlreadyMigrated(m) ==
  /\ pc[m] = "marker"
  /\ marker
  /\ Goto(m, "validate")
  /\ UNCHANGED <<source, target, local, errors, passes, exits, mishaps>>

\* No marker, or one that could not be read: the import begins.
BeginPass(m) ==
  /\ pc[m] = "marker"
  /\ passes < MaxPasses
  /\ passes' = passes + 1
  /\ table' = [table EXCEPT ![m] = 1]
  /\ Goto(m, IF detected[m] THEN "query" ELSE "costs")
  /\ mishaps' = mishaps
       \cup (IF marker THEN {"unread"} ELSE {})
       \cup (IF \E n \in Migrators \ {m} : pc[n] \in Importing THEN {"overlap"} ELSE {})
  /\ UNCHANGED <<source, target, detected, todo, between, errors, exits>>

-----------------------------------------------------------------------------
(* MigrateSQLite: one table after the other, one statement per row.        *)

\* The rows a SELECT returns are those of its own read snapshot.
Selected(t) ==
  [r \in Rows |-> IF r \notin Tables[t] THEN 0
                  ELSE IF inPlace /\ r \in Logs THEN copies[r] ELSE 1]

NextTable(m) ==
  IF table[m] < Len(Tables)
    THEN table' = [table EXCEPT ![m] = @ + 1] /\ Goto(m, "query")
    ELSE Goto(m, "costs") /\ UNCHANGED table

Query(m) ==
  /\ pc[m] = "query"
  /\ todo' = [todo EXCEPT ![m] = Selected(table[m])]
  /\ Goto(m, "rows")
  /\ NoFail
  /\ UNCHANGED <<source, target, detected, table, between, passes, exits>>

\* The old table is missing, or cannot be read, or not to its end.
QueryFails(m) ==
  /\ pc[m] \in {"query", "rows"}
  /\ todo' = [todo EXCEPT ![m] = NoRows]
  /\ NextTable(m)
  /\ Fail(m)
  /\ UNCHANGED <<source, target, detected, between, passes, exits>>

TableDone(m) ==
  /\ pc[m] = "rows"
  /\ \A r \in Rows : todo[m][r] = 0
  /\ NextTable(m)
  /\ NoFail
  /\ UNCHANGED <<source, target, detected, todo, between, passes, exits>>

Fetch(m, r) ==
  /\ pc[m] = "rows"
  /\ todo[m][r] > 0
  /\ todo' = [todo EXCEPT ![m][r] = @ - 1]

\* Fault: the INSERT ignores a conflict, and the session is ended all the same.
StartSessionIgnoring(m, s) ==
  /\ Fetch(m, s)
  /\ sessions' = [sessions EXCEPT ![s] = IF @ = "absent" THEN "started" ELSE @]
  /\ IF s \in StillOpen
       THEN UNCHANGED <<pc, between>>
       ELSE Goto(m, "ending") /\ between' = [between EXCEPT ![m] = s]
  /\ NoFail
  /\ UNCHANGED <<source, schema, marker, copies, ledger, detected, table, passes,
                 exits>>

\* INSERT of the session; a session with an ended_at is ended next.
StartSession(m, s) ==
  /\ Fetch(m, s)
  /\ sessions[s] = "absent"
  /\ sessions' = [sessions EXCEPT ![s] = "started"]
  /\ IF s \in StillOpen
       THEN UNCHANGED <<pc, between>>
       ELSE Goto(m, "ending") /\ between' = [between EXCEPT ![m] = s]
  /\ NoFail
  /\ UNCHANGED <<source, schema, marker, copies, ledger, detected, table, passes,
                 exits>>

\* EndSession is an upsert: it overwrites whatever is there by then.
EndSession(m) ==
  /\ pc[m] = "ending"
  /\ sessions' = [sessions EXCEPT ![between[m]] = "old"]
  /\ Goto(m, "rows")
  /\ between' = [between EXCEPT ![m] = NoRow]
  /\ NoFail
  /\ UNCHANGED <<source, schema, marker, copies, ledger, detected, table, todo,
                 passes, exits>>

\* Fault: the failure is not added to the errors.
EndSessionFailsSilently(m) ==
  /\ pc[m] = "ending"
  /\ Goto(m, "rows")
  /\ between' = [between EXCEPT ![m] = NoRow]
  /\ NoFail
  /\ UNCHANGED <<source, target, detected, table, todo, passes, exits>>

\* A bad ended_at or a failing statement: the session stays as it was started.
EndSessionFails(m) ==
  /\ pc[m] = "ending"
  /\ Goto(m, "rows")
  /\ between' = [between EXCEPT ![m] = NoRow]
  /\ Fail(m)
  /\ UNCHANGED <<source, target, detected, table, todo, passes, exits>>

\* RecordEvent, RecordAuthorship: AUTOINCREMENT keys, so never a conflict.
RecordRow(m, r) ==
  /\ Fetch(m, r)
  /\ r \in Logs
  /\ copies' = [copies EXCEPT ![r] = @ + 1]
  /\ NoFail
  /\ UNCHANGED <<source, schema, marker, sessions, ledger, detected, table,
                 between, pc, passes, exits>>

\* A bad timestamp, a session that exists, or a failing statement.
RowFails(m, r) ==
  /\ Fetch(m, r)
  /\ Fail(m)
  /\ UNCHANGED <<source, target, detected, table, between, pc, passes, exits>>

-----------------------------------------------------------------------------
\* MigrateCostState: the ledger is replaced, not merged.
MigrateCostState(m) ==
  /\ pc[m] = "costs"
  /\ ledger' = IF oldCosts THEN "old" ELSE ledger
  /\ Goto(m, "mark")
  /\ NoFail
  /\ UNCHANGED <<source, schema, marker, sessions, copies, local, passes, exits>>

\* The file cannot be read or parsed, or the row cannot be written.
CostStateFails(m) ==
  /\ pc[m] = "costs"
  /\ oldCosts
  /\ Goto(m, "mark")
  /\ Fail(m)
  /\ UNCHANGED <<source, target, local, passes, exits>>

\* Fault: the marker is left out when a row has failed, so that it is retried.
MarkIfClean(m) ==
  /\ pc[m] = "mark"
  /\ marker' = (marker \/ ~errors[m])
  /\ Goto(m, "validate")
  /\ NoFail
  /\ UNCHANGED <<source, schema, sessions, copies, ledger, local, passes, exits>>

\* MarkTSMigrationDone, "regardless of per-row errors".
Mark(m) ==
  /\ pc[m] = "mark"
  /\ marker' = TRUE
  /\ Goto(m, "validate")
  /\ NoFail
  /\ UNCHANGED <<source, schema, sessions, copies, ledger, local, passes, exits>>

MarkFails(m) ==
  /\ pc[m] = "mark"
  /\ Goto(m, "validate")
  /\ errors' = [errors EXCEPT ![m] = TRUE]
  /\ mishaps' = mishaps \cup {"failed", "unmarked"}
  /\ UNCHANGED <<source, target, local, passes, exits>>

\* ValidateConfig only adds to the errors; then the summary and the exit.
Validate(m) ==
  /\ pc[m] = "validate"
  /\ \E invalid \in BOOLEAN :
       /\ Exit(m, invalid \/ errors[m])
       /\ mishaps' = IF invalid THEN mishaps \cup {"failed"} ELSE mishaps
  /\ UNCHANGED <<source, target, local, passes>>

Kill(m) ==
  /\ pc[m] # "idle"
  /\ Goto(m, "idle")
  /\ errors' = [errors EXCEPT ![m] = FALSE]
  /\ between' = [between EXCEPT ![m] = NoRow]
  /\ todo' = [todo EXCEPT ![m] = NoRows]
  /\ mishaps' = mishaps \cup {"killed"}
  /\ UNCHANGED <<source, target, detected, table, passes, exits>>

\* Dispatches of a session that was under way during the upgrade: on its start
\* the row is inserted unless there is one, on a stop the ledger is updated and
\* then the row is upserted. Each creates the schema if it comes first.
DispatchStart(s) ==
  /\ schema' = TRUE
  /\ sessions' = [sessions EXCEPT ![s] = IF @ = "absent" THEN "live" ELSE @]
  /\ UNCHANGED <<source, marker, copies, ledger, local, pc, errors, passes, exits,
                 mishaps>>

DispatchCosts ==
  /\ schema' = TRUE
  /\ ledger' = "live"
  /\ UNCHANGED <<source, marker, sessions, copies, local, pc, errors, passes, exits,
                 mishaps>>

DispatchStop(s) ==
  /\ schema' = TRUE
  /\ sessions' = [sessions EXCEPT ![s] = IF @ \in {"absent", "live"} THEN "live"
                                                                   ELSE "both"]
  /\ UNCHANGED <<source, marker, copies, ledger, local, pc, errors, passes, exits,
                 mishaps>>

-----------------------------------------------------------------------------
MigrateRow(m) ==
  \/ \E s \in Sessions : StartSession(m, s)
  \/ \E r \in Rows : RecordRow(m, r) \/ RowFails(m, r)

Step(m) ==
  \/ Detect(m) \/ Open(m) \/ OpenFails(m) \/ AlreadyMigrated(m) \/ BeginPass(m)
  \/ Query(m) \/ QueryFails(m) \/ MigrateRow(m) \/ TableDone(m)
  \/ EndSession(m) \/ EndSessionFails(m)
  \/ MigrateCostState(m) \/ CostStateFails(m) \/ Mark(m) \/ MarkFails(m)
  \/ Validate(m)

Next ==
  \/ \E m \in Migrators : Step(m) \/ Kill(m)
  \/ \E s \in Sessions : DispatchStart(s) \/ DispatchStop(s)
  \/ DispatchCosts

Spec == Init /\ [][Next]_vars

-----------------------------------------------------------------------------
TypeOK ==
  /\ oldDB \in BOOLEAN /\ oldCosts \in BOOLEAN /\ inPlace \in BOOLEAN
  /\ schema \in BOOLEAN /\ marker \in BOOLEAN
  /\ sessions \in [Sessions -> SessionStates]
  /\ copies \in [Logs -> Nat]
  /\ ledger \in {"none", "old", "live"}
  /\ pc \in [Migrators -> Labels]
  /\ detected \in [Migrators -> BOOLEAN]
  /\ table \in [Migrators -> 1..3]
  /\ todo \in [Migrators -> [Rows -> Nat]]
  /\ between \in [Migrators -> Sessions \cup {NoRow}]
  /\ \A m \in Migrators : pc[m] = "ending" => between[m] # NoRow
  /\ errors \in [Migrators -> BOOLEAN]
  /\ passes \in 0..MaxPasses
  /\ exits \subseteq {"clean"}
  /\ mishaps \subseteq Mishap

\* "so a re-run is a no-op": into a database of its own, no event and no
\* authorship row is imported twice, however often `migrate` is run and
\* whatever rows fail, unless a pass was killed, could not set or read the
\* marker, or overlapped with another.
ImportedOnce ==
  ~inPlace /\ mishaps \subseteq {"failed"} => \A r \in Logs : copies[r] <= 1

\* What the old installation had is in the database.
Complete ==
  /\ oldDB => /\ \A s \in Sessions \ StillOpen : sessions[s] \in {"old", "live", "both"}
              /\ \A s \in StillOpen : sessions[s] # "absent"
              /\ \A r \in Logs : copies[r] >= 1
  /\ oldCosts => ledger # "none"

\* Whether or not dispatches came first: as long as no migration has reported
\* an error or been killed, one that exits with status 0 has left nothing of
\* the old installation behind, also when it found nothing to do.
CleanExitMeansComplete ==
  "clean" \in exits /\ mishaps \cap {"failed", "killed"} = {} => Complete

\* No migration, nor several at once, ever replaces a session a dispatch was
\* the first to record. In a row a migration inserted, the figures of a dispatch
\* are replaced only between the two statements that import that very session.
LiveSessionsKept ==
  [][\A s \in Sessions :
       /\ sessions[s] = "live" => sessions'[s] = "live"
       /\ sessions[s] = "both" /\ sessions'[s] # "both"
            => \E m \in Migrators : pc[m] = "ending" /\ between[m] = s]_vars

\* "Original files are never modified (non-destructive)": the events and the
\* authorship rows of the old database stay as they were.
OriginalsUntouched == inPlace => \A r \in Logs : copies[r] = 1
=============================================================================
