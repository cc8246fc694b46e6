-------------------------- MODULE MigrationProofs --------------------------
(***************************************************************************)
(* Theorems about Migration: the types, the sessions of live dispatches,   *)
(* the import of every logged row at most once, and what a clean exit of   *)
(* the command has done.                                                   *)
(***************************************************************************)
EXTENDS Migration, TLAPS

USE DEF Labels, Importing, Mishap

-----------------------------------------------------------------------------
(* Type correctness, and the rows between their two statements.            *)

\* A session waiting for its second statement was inserted by a migration.
Inserted ==
  \A m \in Migrators : pc[m] = "ending" => sessions[between[m]] \notin {"absent", "live"}

Types == TypeOK /\ Inserted

LEMMA NoRowsType == NoRows \in [Rows -> Nat]
BY DEF NoRows

LEMMA FetchType ==
  ASSUME todo \in [Migrators -> [Rows -> Nat]],
         NEW m \in Migrators, NEW r \in Rows, Fetch(m, r)
  PROVE  todo' \in [Migrators -> [Rows -> Nat]] /\ pc[m] = "rows"
BY DEF Fetch

LEMMA NextTableStep ==
  ASSUME table \in [Migrators -> 1..3], pc \in [Migrators -> Labels],
         NEW m \in Migrators, NextTable(m)
  PROVE  /\ table' \in [Migrators -> 1..3] /\ pc' \in [Migrators -> Labels]
         /\ pc'[m] \in {"query", "costs"}
         /\ pc'[m] = "query" => table'[m] = table[m] + 1
         /\ \A n \in Migrators \ {m} : pc'[n] = pc[n] /\ table'[n] = table[n]
BY DEF NextTable, Tables, Goto

LEMMA TypeInitially == Init => Types
<1> SUFFICES ASSUME Init PROVE Types
  OBVIOUS
<1>1. todo \in [Migrators -> [Rows -> Nat]]
  BY NoRowsType DEF Init
<1>2. copies \in [Logs -> Nat]
  BY DEF Init
<1>3. sessions \in [Sessions -> SessionStates]
  BY DEF Init, SessionStates
<1>4. table \in [Migrators -> 1..3] /\ pc \in [Migrators -> Labels]
  BY DEF Init
<1>5. passes \in 0..MaxPasses
  BY ConstantsAssumption DEF Init
<1>6. TypeOK
  BY <1>1, <1>2, <1>3, <1>4, <1>5 DEF Init, TypeOK
<1>7. Inserted
  BY DEF Init, Inserted
<1> QED
  BY <1>6, <1>7 DEF Types

LEMMA TypeInductive == Types /\ [Next]_vars => Types'
<1> SUFFICES ASSUME Types, [Next]_vars PROVE Types'
  OBVIOUS
<1> USE DEF Types, TypeOK, Inserted, SessionStates, Goto, source, target, local
<1>1. ASSUME NEW m \in Migrators, Detect(m) PROVE Types'
  BY <1>1 DEF Detect, Exit
<1>2. ASSUME NEW m \in Migrators, Open(m) PROVE Types'
  BY <1>2 DEF Open
<1>3. ASSUME NEW m \in Migrators, OpenFails(m) PROVE Types'
  BY <1>3 DEF OpenFails, Exit
<1>4. ASSUME NEW m \in Migrators, AlreadyMigrated(m) PROVE Types'
  BY <1>4 DEF AlreadyMigrated
<1>5. ASSUME NEW m \in Migrators, BeginPass(m) PROVE Types'
  BY <1>5, ConstantsAssumption DEF BeginPass
<1>6. ASSUME NEW m \in Migrators, Query(m) PROVE Types'
  <2>1. todo' \in [Migrators -> [Rows -> Nat]]
    BY <1>6 DEF Query, Selected, Tables
  <2> QED
    BY <1>6, <2>1 DEF Query, NoFail
<1>7. ASSUME NEW m \in Migrators, QueryFails(m) PROVE Types'
  <2>1. todo' \in [Migrators -> [Rows -> Nat]]
    BY <1>7, NoRowsType DEF QueryFails
  <2> QED
    BY <1>7, <2>1, NextTableStep DEF QueryFails, Fail
<1>8. ASSUME NEW m \in Migrators, NEW s \in Sessions, StartSession(m, s) PROVE Types'
  <2>1. todo' \in [Migrators -> [Rows -> Nat]]
    BY <1>8, FetchType DEF StartSession, Rows
  <2>2. pc[m] = "rows"
    BY <1>8 DEF StartSession, Fetch
  <2>3. sessions' \in [Sessions -> SessionStates] /\ pc' \in [Migrators -> Labels]
    BY <1>8 DEF StartSession
  <2>4. between' \in [Migrators -> Sessions \cup {NoRow}]
    BY <1>8 DEF StartSession
  <2>5. \A n \in Migrators : pc'[n] = "ending" => between'[n] # NoRow
    BY <1>8, <2>2, ConstantsAssumption DEF StartSession
  <2>6. TypeOK'
    BY <1>8, <2>1, <2>3, <2>4, <2>5 DEF StartSession, NoFail
  <2>7. Inserted'
    BY <1>8, <2>2 DEF StartSession
  <2> QED
    BY <2>6, <2>7
<1>9. ASSUME NEW m \in Migrators, NEW r \in Rows, RecordRow(m, r) PROVE Types'
  <2>1. todo' \in [Migrators -> [Rows -> Nat]]
    BY <1>9, FetchType DEF RecordRow
  <2> QED
    BY <1>9, <2>1, FetchType DEF RecordRow, NoFail
<1>10. ASSUME NEW m \in Migrators, NEW r \in Rows, RowFails(m, r) PROVE Types'
  <2>1. todo' \in [Migrators -> [Rows -> Nat]]
    BY <1>10, FetchType DEF RowFails
  <2> QED
    BY <1>10, <2>1, FetchType DEF RowFails, Fail
<1>11. ASSUME NEW m \in Migrators, TableDone(m) PROVE Types'
  BY <1>11, NextTableStep DEF TableDone, NoFail
<1>12. ASSUME NEW m \in Migrators, EndSession(m) PROVE Types'
  BY <1>12 DEF EndSession, NoFail
<1>13. ASSUME NEW m \in Migrators, EndSessionFails(m) PROVE Types'
  BY <1>13 DEF EndSessionFails, Fail
<1>14. ASSUME NEW m \in Migrators, MigrateCostState(m) PROVE Types'
  BY <1>14 DEF MigrateCostState, NoFail
<1>15. ASSUME NEW m \in Migrators, CostStateFails(m) PROVE Types'
  BY <1>15 DEF CostStateFails, Fail
<1>16. ASSUME NEW m \in Migrators, Mark(m) PROVE Types'
  BY <1>16 DEF Mark, NoFail
<1>17. ASSUME NEW m \in Migrators, MarkFails(m) PROVE Types'
  BY <1>17 DEF MarkFails
<1>18. ASSUME NEW m \in Migrators, Validate(m) PROVE Types'
  BY <1>18 DEF Validate, Exit
<1>19. ASSUME NEW m \in Migrators, Kill(m) PROVE Types'
  <2>1. todo' \in [Migrators -> [Rows -> Nat]]
    BY <1>19, NoRowsType DEF Kill
  <2> QED
    BY <1>19, <2>1 DEF Kill
<1>20. ASSUME NEW s \in Sessions, DispatchStart(s) PROVE Types'
  BY <1>20 DEF DispatchStart
<1>21. ASSUME NEW s \in Sessions, DispatchStop(s) PROVE Types'
  BY <1>21 DEF DispatchStop
<1>22. CASE DispatchCosts
  BY <1>22 DEF DispatchCosts
<1>23. CASE UNCHANGED vars
  BY <1>23 DEF vars
<1> QED
  BY <1>1, <1>2, <1>3, <1>4, <1>5, <1>6, <1>7, <1>8, <1>9, <1>10,
     <1>11, <1>12, <1>13, <1>14, <1>15, <1>16, <1>17, <1>18, <1>19,
     <1>20, <1>21, <1>22, <1>23
     DEF Next, Step, MigrateRow

\* Every reachable state is well typed.
THEOREM TypeCorrect == Spec => []TypeOK
<1>1. Types => TypeOK
  BY DEF Types
<1> QED
  BY TypeInitially, TypeInductive, <1>1, PTL DEF Spec

-----------------------------------------------------------------------------
(* The sessions of live dispatches.                                        *)

\* For any number of migrations and sessions: no migration ever replaces a
\* session a dispatch was the first to record.
THEOREM LiveSessionsSurvive == Spec => LiveSessionsKept
<1> DEFINE Kept ==
  \A s \in Sessions :
    /\ sessions[s] = "live" => sessions'[s] = "live"
    /\ sessions[s] = "both" /\ sessions'[s] # "both"
         => \E m \in Migrators : pc[m] = "ending" /\ between[m] = s
<1>1. Types /\ [Next]_vars => [Kept]_vars
  <2> SUFFICES ASSUME Types, [Next]_vars PROVE Kept
    OBVIOUS
  <2> USE DEF Types, TypeOK, Inserted, SessionStates, target
  <2>1. ASSUME NEW m \in Migrators, Detect(m) PROVE Kept
    BY <2>1 DEF Detect, Exit
  <2>2. ASSUME NEW m \in Migrators, Open(m) PROVE Kept
    BY <2>2 DEF Open
  <2>3. ASSUME NEW m \in Migrators, OpenFails(m) PROVE Kept
    BY <2>3 DEF OpenFails, Exit
  <2>4. ASSUME NEW m \in Migrators, AlreadyMigrated(m) PROVE Kept
    BY <2>4 DEF AlreadyMigrated
  <2>5. ASSUME NEW m \in Migrators, BeginPass(m) PROVE Kept
    BY <2>5, ConstantsAssumption DEF BeginPass
  <2>6. ASSUME NEW m \in Migrators, Query(m) PROVE Kept
    BY <2>6 DEF Query, NoFail, Selected
  <2>7. ASSUME NEW m \in Migrators, QueryFails(m) PROVE Kept
    BY <2>7 DEF QueryFails
  <2>8. ASSUME NEW m \in Migrators, NEW s \in Sessions, StartSession(m, s) PROVE Kept
    BY <2>8, ConstantsAssumption DEF StartSession, Fetch, NoFail, Rows
  <2>9. ASSUME NEW m \in Migrators, NEW r \in Rows, RecordRow(m, r) PROVE Kept
    BY <2>9 DEF RecordRow, Fetch, NoFail
  <2>10. ASSUME NEW m \in Migrators, NEW r \in Rows, RowFails(m, r) PROVE Kept
    BY <2>10 DEF RowFails, Fetch, Fail
  <2>11. ASSUME NEW m \in Migrators, TableDone(m) PROVE Kept
    BY <2>11 DEF TableDone
  <2>12. ASSUME NEW m \in Migrators, EndSession(m) PROVE Kept
    BY <2>12 DEF EndSession, NoFail
  <2>13. ASSUME NEW m \in Migrators, EndSessionFails(m) PROVE Kept
    BY <2>13 DEF EndSessionFails, Fail
  <2>14. ASSUME NEW m \in Migrators, MigrateCostState(m) PROVE Kept
    BY <2>14 DEF MigrateCostState, NoFail
  <2>15. ASSUME NEW m \in Migrators, CostStateFails(m) PROVE Kept
    BY <2>15 DEF CostStateFails, Fail
  <2>16. ASSUME NEW m \in Migrators, Mark(m) PROVE Kept
    BY <2>16 DEF Mark, NoFail
  <2>17. ASSUME NEW m \in Migrators, MarkFails(m) PROVE Kept
    BY <2>17 DEF MarkFails
  <2>18. ASSUME NEW m \in Migrators, Validate(m) PROVE Kept
    BY <2>18 DEF Validate, Exit
  <2>19. ASSUME NEW m \in Migrators, Kill(m) PROVE Kept
    BY <2>19 DEF Kill, NoRows
  <2>20. ASSUME NEW s \in Sessions, DispatchStart(s) PROVE Kept
    BY <2>20 DEF DispatchStart
  <2>21. ASSUME NEW s \in Sessions, DispatchStop(s) PROVE Kept
    BY <2>21 DEF DispatchStop
  <2>22. CASE DispatchCosts
    BY <2>22 DEF DispatchCosts
  <2>23. CASE UNCHANGED vars
    BY <2>23 DEF vars
  <2> QED
    BY <2>1, <2>2, <2>3, <2>4, <2>5, <2>6, <2>7, <2>8, <2>9, <2>10,
       <2>11, <2>12, <2>13, <2>14, <2>15, <2>16, <2>17, <2>18, <2>19,
       <2>20, <2>21, <2>22, <2>23
       DEF Next, Step, MigrateRow
<1> QED
  BY <1>1, TypeInitially, TypeInductive, PTL DEF Spec, LiveSessionsKept

-----------------------------------------------------------------------------
(* The logs.                                                               *)

\* Nothing but failing statements has happened to migrations that read from
\* a file of their own.
Calm == ~inPlace /\ mishaps \subseteq {"failed"}

TableOf(r) == IF r \in Events THEN 2 ELSE 3

\* Rows are fetched for the table they are in, and only while it is read.
FetchedWhileRead ==
  \A m \in Migrators, r \in Logs :
    /\ todo[m][r] > 0 => pc[m] \in {"rows", "ending"} /\ table[m] = TableOf(r)
    /\ ~inPlace => todo[m][r] <= 1

\* Is a migration still going to record the row?
Pending(m, r) ==
  IF \/ pc[m] = "query" /\ table[m] <= TableOf(r)
     \/ pc[m] \in {"rows", "ending"} /\ table[m] < TableOf(r)
    THEN 1 ELSE todo[m][r]

OneImporter ==
  \A m, n \in Migrators : pc[m] \in Importing /\ pc[n] \in Importing => m = n
ImporterFoundNothing ==
  \A m \in Migrators : pc[m] \in Importing
    => ~marker /\ \A r \in Logs : copies[r] + Pending(m, r) <= 1
NothingYet ==
  ~marker /\ (\A m \in Migrators : pc[m] \notin Importing) => \A r \in Logs : copies[r] = 0
NeverTwice == \A r \in Logs : copies[r] <= 1

ImportInv == OneImporter /\ ImporterFoundNothing /\ NothingYet /\ NeverTwice
CalmImport == Calm => ImportInv

LEMMA LogRows ==
  ASSUME NEW r \in Logs
  PROVE  r \in Rows /\ NoRows[r] = 0 /\ r \notin Sessions /\ TableOf(r) \in {2, 3}
BY ConstantsAssumption DEF Rows, Logs, NoRows, TableOf

LEMMA SelectedRows ==
  ASSUME copies \in [Logs -> Nat], NEW t \in 1..3, NEW r \in Logs
  PROVE  /\ Selected(t) \in [Rows -> Nat]
         /\ Selected(t)[r] > 0 => t = TableOf(r)
         /\ ~inPlace => Selected(t)[r] <= 1
BY LogRows, ConstantsAssumption DEF Selected, Tables, TableOf, Logs

LEMMA FetchedInitially == Init => FetchedWhileRead /\ CalmImport
<1> SUFFICES ASSUME Init PROVE FetchedWhileRead /\ CalmImport
  OBVIOUS
<1>1. \A m \in Migrators, r \in Logs : todo[m][r] = 0 /\ pc[m] = "idle"
  BY LogRows DEF Init
<1>2. ~inPlace => \A r \in Logs : copies[r] = 0
  BY DEF Init
<1>3. FetchedWhileRead
  BY <1>1 DEF FetchedWhileRead
<1>4. CalmImport
  BY <1>1, <1>2 DEF Init, CalmImport, ImportInv, Calm, OneImporter, ImporterFoundNothing,
                    NothingYet, NeverTwice
<1> QED
  BY <1>3, <1>4

LEMMA FetchedInductive ==
  Types /\ FetchedWhileRead /\ [Next]_vars => FetchedWhileRead'
<1> SUFFICES ASSUME Types, FetchedWhileRead, [Next]_vars PROVE FetchedWhileRead'
  OBVIOUS
<1> USE DEF Types, TypeOK, FetchedWhileRead, TableOf, Goto, source, local
<1>1. ASSUME NEW m \in Migrators, Detect(m) PROVE FetchedWhileRead'
  BY <1>1 DEF Detect, Exit
<1>2. ASSUME NEW m \in Migrators, Open(m) PROVE FetchedWhileRead'
  BY <1>2 DEF Open
<1>3. ASSUME NEW m \in Migrators, OpenFails(m) PROVE FetchedWhileRead'
  BY <1>3 DEF OpenFails, Exit
<1>4. ASSUME NEW m \in Migrators, AlreadyMigrated(m) PROVE FetchedWhileRead'
  BY <1>4 DEF AlreadyMigrated
<1>5. ASSUME NEW m \in Migrators, BeginPass(m) PROVE FetchedWhileRead'
  BY <1>5, ConstantsAssumption DEF BeginPass
<1>6. ASSUME NEW m \in Migrators, Query(m) PROVE FetchedWhileRead'
  BY <1>6, SelectedRows, LogRows DEF Query, NoFail
<1>7. ASSUME NEW m \in Migrators, QueryFails(m) PROVE FetchedWhileRead'
  BY <1>7, NextTableStep, LogRows, NoRowsType DEF QueryFails, Fail
<1>8. ASSUME NEW m \in Migrators, NEW s \in Sessions, StartSession(m, s) PROVE FetchedWhileRead'
  BY <1>8, ConstantsAssumption DEF StartSession, Fetch, NoFail, Rows
<1>9. ASSUME NEW m \in Migrators, NEW r \in Rows, RecordRow(m, r) PROVE FetchedWhileRead'
  BY <1>9 DEF RecordRow, Fetch, NoFail
<1>10. ASSUME NEW m \in Migrators, NEW r \in Rows, RowFails(m, r) PROVE FetchedWhileRead'
  BY <1>10 DEF RowFails, Fetch, Fail
<1>11. ASSUME NEW m \in Migrators, TableDone(m) PROVE FetchedWhileRead'
  BY <1>11, NextTableStep, LogRows DEF TableDone, NoFail
<1>12. ASSUME NEW m \in Migrators, EndSession(m) PROVE FetchedWhileRead'
  BY <1>12 DEF EndSession, NoFail
<1>13. ASSUME NEW m \in Migrators, EndSessionFails(m) PROVE FetchedWhileRead'
  BY <1>13 DEF EndSessionFails, Fail
<1>14. ASSUME NEW m \in Migrators, MigrateCostState(m) PROVE FetchedWhileRead'
  BY <1>14 DEF MigrateCostState, NoFail
<1>15. ASSUME NEW m \in Migrators, CostStateFails(m) PROVE FetchedWhileRead'
  BY <1>15 DEF CostStateFails, Fail
<1>16. ASSUME NEW m \in Migrators, Mark(m) PROVE FetchedWhileRead'
  BY <1>16 DEF Mark, NoFail
<1>17. ASSUME NEW m \in Migrators, MarkFails(m) PROVE FetchedWhileRead'
  BY <1>17 DEF MarkFails
<1>18. ASSUME NEW m \in Migrators, Validate(m) PROVE FetchedWhileRead'
  BY <1>18 DEF Validate, Exit
<1>19. ASSUME NEW m \in Migrators, Kill(m) PROVE FetchedWhileRead'
  BY <1>19, LogRows, NoRowsType DEF Kill
<1>20. ASSUME NEW s \in Sessions, DispatchStart(s) PROVE FetchedWhileRead'
  BY <1>20 DEF DispatchStart
<1>21. ASSUME NEW s \in Sessions, DispatchStop(s) PROVE FetchedWhileRead'
  BY <1>21 DEF DispatchStop
<1>22. CASE DispatchCosts
  BY <1>22 DEF DispatchCosts
<1>23. CASE UNCHANGED vars
  BY <1>23 DEF vars
<1> QED
  BY <1>1, <1>2, <1>3, <1>4, <1>5, <1>6, <1>7, <1>8, <1>9, <1>10,
     <1>11, <1>12, <1>13, <1>14, <1>15, <1>16, <1>17, <1>18, <1>19,
     <1>20, <1>21, <1>22, <1>23
     DEF Next, Step, MigrateRow

\* A step of an importing migration that leaves it no more to record.
LEMMA ImportGoesOn ==
  ASSUME ImportInv, NEW m \in Migrators, pc[m] \in Importing,
         copies \in [Logs -> Nat], todo \in [Migrators -> [Rows -> Nat]],
         todo' \in [Migrators -> [Rows -> Nat]],
         pc'[m] \in Importing, \A n \in Migrators \ {m} : pc'[n] = pc[n],
         marker' = marker, copies' = copies,
         \A r \in Logs : Pending(m, r)' <= Pending(m, r)
  PROVE  ImportInv'
<1>1. OneImporter' /\ NothingYet' /\ NeverTwice'
  BY DEF ImportInv, OneImporter, NothingYet, NeverTwice
<1>2. \A n \in Migrators : pc'[n] \in Importing => n = m
  BY DEF ImportInv, OneImporter
<1>3. \A r \in Logs : copies[r] \in Nat /\ Pending(m, r) \in Nat /\ Pending(m, r)' \in Nat
  BY LogRows DEF Pending
<1>4. ~marker /\ \A r \in Logs : copies[r] + Pending(m, r) <= 1
  BY DEF ImportInv, ImporterFoundNothing
<1>5. \A r \in Logs : copies[r] + Pending(m, r)' <= 1
  BY <1>3, <1>4
<1>6. ImporterFoundNothing'
  BY <1>2, <1>4, <1>5 DEF ImporterFoundNothing
<1> QED
  BY <1>1, <1>6 DEF ImportInv

LEMMA CalmInductive ==
  Types /\ FetchedWhileRead /\ CalmImport /\ [Next]_vars => CalmImport'
<1> SUFFICES ASSUME Types, FetchedWhileRead, CalmImport, [Next]_vars, Calm'
             PROVE  ImportInv'
  BY DEF CalmImport
<1> USE DEF Types, TypeOK, FetchedWhileRead, CalmImport, ImportInv, Calm, OneImporter,
            ImporterFoundNothing, NothingYet, NeverTwice, Pending, TableOf, Goto,
            source, target, local
<1>1. ASSUME NEW m \in Migrators, Detect(m) PROVE ImportInv'
  <2>1. pc[m] = "idle" /\ pc'[m] \in {"idle", "open"}
    BY <1>1 DEF Detect, Exit
  <2>2. \A n \in Migrators \ {m} : pc'[n] = pc[n]
    BY <1>1 DEF Detect, Exit
  <2>3. UNCHANGED <<table, todo, marker, copies, inPlace, mishaps>>
    BY <1>1 DEF Detect
  <2>4. ImportInv
    BY <2>3
  <2>5. \A n \in Migrators : pc'[n] \in Importing <=> pc[n] \in Importing
    BY <2>1, <2>2
  <2>6. OneImporter' /\ NothingYet' /\ NeverTwice'
    BY <2>1, <2>2, <2>3, <2>4, <2>5
  <2>7. ImporterFoundNothing'
    BY <2>1, <2>2, <2>3, <2>4
  <2> QED
    BY <2>6, <2>7
<1>2. ASSUME NEW m \in Migrators, Open(m) PROVE ImportInv'
  BY <1>2 DEF Open
<1>3. ASSUME NEW m \in Migrators, OpenFails(m) PROVE ImportInv'
  BY <1>3 DEF OpenFails, Exit
<1>4. ASSUME NEW m \in Migrators, AlreadyMigrated(m) PROVE ImportInv'
  BY <1>4 DEF AlreadyMigrated
<1>5. ASSUME NEW m \in Migrators, BeginPass(m) PROVE ImportInv'
  <2>1. pc[m] = "marker" /\ ~marker /\ \A n \in Migrators \ {m} : pc[n] \notin Importing
    BY <1>5 DEF BeginPass
  <2>2. \A r \in Logs : copies[r] = 0
    BY <1>5, <2>1 DEF BeginPass
  <2>3. /\ \A n \in Migrators \ {m} : pc'[n] \notin Importing
        /\ pc'[m] \in Importing
    BY <1>5, <2>1 DEF BeginPass
  <2>4. \A r \in Logs : Pending(m, r)' <= 1
    BY <1>5, <2>1, LogRows DEF BeginPass
  <2>5. marker' = marker /\ copies' = copies
    BY <1>5 DEF BeginPass, target
  <2>6. OneImporter' /\ NeverTwice'
    BY <2>2, <2>3, <2>5
  <2>7. ImporterFoundNothing'
    <3> SUFFICES ASSUME NEW n \in Migrators, pc'[n] \in Importing
                 PROVE  (~marker /\ \A r \in Logs : copies[r] + Pending(m, r) <= 1)' /\ n = m
      OBVIOUS
    <3> HIDE DEF Pending
    <3>1. \A r \in Logs : copies'[r] = 0 /\ Pending(m, r)' \in Nat
      BY <1>5, <2>2, <2>5, LogRows DEF BeginPass, Pending
    <3> QED
      BY <2>1, <2>3, <2>4, <2>5, <3>1
  <2> QED
    BY <2>3, <2>6, <2>7
<1>6. ASSUME NEW m \in Migrators, Query(m) PROVE ImportInv'
  <2>1. \A r \in Logs : Pending(m, r)' <= Pending(m, r)
    BY <1>6, SelectedRows, LogRows DEF Query
  <2>2. Selected(table[m]) \in [Rows -> Nat]
    BY DEF Selected, Rows
  <2>3. todo' \in [Migrators -> [Rows -> Nat]]
    BY <1>6, <2>2 DEF Query
  <2> QED
    BY <1>6, <2>1, <2>3, ImportGoesOn DEF Query, NoFail
<1>7. ASSUME NEW m \in Migrators, QueryFails(m) PROVE ImportInv'
  <2>1. \A r \in Logs : Pending(m, r)' <= Pending(m, r)
    BY <1>7, NextTableStep, LogRows DEF QueryFails
  <2>2. todo' \in [Migrators -> [Rows -> Nat]]
    BY <1>7, NoRowsType DEF QueryFails
  <2>3. ImportInv
    BY <1>7 DEF QueryFails, Fail
  <2>4. marker' = marker /\ copies' = copies /\ pc[m] \in Importing
    BY <1>7 DEF QueryFails
  <2>5. pc'[m] \in Importing /\ \A n \in Migrators \ {m} : pc'[n] = pc[n]
    BY <1>7, NextTableStep DEF QueryFails
  <2> HIDE DEF ImportInv, OneImporter, ImporterFoundNothing, NothingYet, NeverTwice,
               Pending, CalmImport, Calm, FetchedWhileRead
  <2> QED
    BY <2>1, <2>2, <2>3, <2>4, <2>5, ImportGoesOn
<1>8. ASSUME NEW m \in Migrators, NEW s \in Sessions, StartSession(m, s) PROVE ImportInv'
  BY <1>8, ConstantsAssumption DEF StartSession, Fetch, NoFail, Rows
<1>9. ASSUME NEW m \in Migrators, NEW r \in Rows, RecordRow(m, r) PROVE ImportInv'
  BY <1>9 DEF RecordRow, Fetch, NoFail
<1>10. ASSUME NEW m \in Migrators, NEW r \in Rows, RowFails(m, r) PROVE ImportInv'
  BY <1>10 DEF RowFails, Fetch, Fail
<1>11. ASSUME NEW m \in Migrators, TableDone(m) PROVE ImportInv'
  <2>1. \A r \in Logs : Pending(m, r)' <= Pending(m, r)
    BY <1>11, NextTableStep, LogRows DEF TableDone
  <2>2. ImportInv
    BY <1>11 DEF TableDone, NoFail
  <2>3. marker' = marker /\ copies' = copies /\ todo' = todo /\ pc[m] = "rows"
    BY <1>11 DEF TableDone
  <2>4. pc'[m] \in Importing /\ \A n \in Migrators \ {m} : pc'[n] = pc[n]
    BY <1>11, NextTableStep DEF TableDone
  <2> HIDE DEF ImportInv, OneImporter, ImporterFoundNothing, NothingYet, NeverTwice,
               Pending, CalmImport, Calm, FetchedWhileRead
  <2> QED
    BY <2>1, <2>2, <2>3, <2>4, ImportGoesOn
<1>12. ASSUME NEW m \in Migrators, EndSession(m) PROVE ImportInv'
  BY <1>12 DEF EndSession, NoFail
<1>13. ASSUME NEW m \in Migrators, EndSessionFails(m) PROVE ImportInv'
  BY <1>13 DEF EndSessionFails, Fail
<1>14. ASSUME NEW m \in Migrators, MigrateCostState(m) PROVE ImportInv'
  BY <1>14 DEF MigrateCostState, NoFail
<1>15. ASSUME NEW m \in Migrators, CostStateFails(m) PROVE ImportInv'
  BY <1>15 DEF CostStateFails, Fail
<1>16. ASSUME NEW m \in Migrators, Mark(m) PROVE ImportInv'
  BY <1>16 DEF Mark, NoFail
<1>17. ASSUME NEW m \in Migrators, MarkFails(m) PROVE ImportInv'
  BY <1>17 DEF MarkFails
<1>18. ASSUME NEW m \in Migrators, Validate(m) PROVE ImportInv'
  BY <1>18 DEF Validate, Exit
<1>19. ASSUME NEW m \in Migrators, Kill(m) PROVE ImportInv'
  BY <1>19 DEF Kill, NoRows
<1>20. ASSUME NEW s \in Sessions, DispatchStart(s) PROVE ImportInv'
  BY <1>20 DEF DispatchStart
<1>21. ASSUME NEW s \in Sessions, DispatchStop(s) PROVE ImportInv'
  BY <1>21 DEF DispatchStop
<1>22. CASE DispatchCosts
  BY <1>22 DEF DispatchCosts
<1>23. CASE UNCHANGED vars
  BY <1>23 DEF vars
<1> QED
  BY <1>1, <1>2, <1>3, <1>4, <1>5, <1>6, <1>7, <1>8, <1>9, <1>10,
     <1>11, <1>12, <1>13, <1>14, <1>15, <1>16, <1>17, <1>18, <1>19,
     <1>20, <1>21, <1>22, <1>23
     DEF Next, Step, MigrateRow

\* For any tables and any number of migrations, however often they are run and
\* whatever rows fail: into a database of its own no logged row is imported
\* twice, unless a pass was killed, overlapped with another or missed the marker.
THEOREM NeverImportedTwice == Spec => []ImportedOnce
<1> DEFINE IInv == Types /\ FetchedWhileRead /\ CalmImport
<1>1. Init => IInv
  BY TypeInitially, FetchedInitially
<1>2. IInv /\ [Next]_vars => IInv'
  BY TypeInductive, FetchedInductive, CalmInductive
<1>3. IInv => ImportedOnce
  BY DEF CalmImport, ImportInv, Calm, NeverTwice, ImportedOnce
<1> QED
  BY <1>1, <1>2, <1>3, PTL DEF Spec

-----------------------------------------------------------------------------
(* A clean exit.                                                           *)

Clean == mishaps \cap {"failed", "killed"} = {}

DoneRow(r) ==
  IF r \in Logs THEN copies[r] >= 1
  ELSE IF r \in StillOpen THEN sessions[r] # "absent"
  ELSE sessions[r] \in {"old", "live", "both"}

RowTable(r) == IF r \in Sessions THEN 1 ELSE TableOf(r)

\* Has the migration dealt with the row?
Handled(m, r) ==
  \/ pc[m] \in {"costs", "mark", "validate"}
  \/ pc[m] \in {"query", "rows", "ending"} /\ table[m] > RowTable(r)
  \/ /\ pc[m] \in {"rows", "ending"} /\ table[m] = RowTable(r)
     /\ todo[m][r] = 0 /\ between[m] # r

\* Nothing is detected in a file that is not there, or is the target itself.
Passing ==
  \A m \in Migrators :
    /\ pc[m] # "ending" => between[m] = NoRow
    /\ pc[m] \in {"open", "marker"} /\ ~detected[m] /\ oldDB => inPlace

InPlaceDone == inPlace => \A r \in Rows : DoneRow(r)

HandledDone ==
  \A m \in Migrators :
    /\ ~errors[m]
    /\ \A r \in Rows : oldDB /\ Handled(m, r) => DoneRow(r)
    /\ pc[m] \in {"mark", "validate"} /\ oldCosts => ledger # "none"

Whole == (oldDB => \A r \in Rows : DoneRow(r)) /\ (oldCosts => ledger # "none")
MarkedWhole == marker \/ "clean" \in exits => Whole
CleanImport == Clean => HandledDone /\ MarkedWhole

LEMMA WholeIsComplete == Whole => Complete
BY ConstantsAssumption DEF Whole, Complete, DoneRow, Rows, Logs

LEMMA DoneInitially == Init => Passing /\ InPlaceDone /\ CleanImport
BY ConstantsAssumption DEF Init, Passing, InPlaceDone, CleanImport, HandledDone,
   MarkedWhole, Handled, DoneRow, Rows

\* What is in the database stays there, what went wrong is remembered, and
\* what the old release left does not change.
LEMMA Monotone ==
  Types /\ [Next]_vars => /\ mishaps \subseteq mishaps'
                          /\ ledger # "none" => ledger' # "none"
                          /\ oldDB' = oldDB /\ oldCosts' = oldCosts /\ inPlace' = inPlace
<1> SUFFICES ASSUME Types, [Next]_vars
             PROVE  /\ mishaps \subseteq mishaps'
                    /\ ledger # "none" => ledger' # "none"
                    /\ oldDB' = oldDB /\ oldCosts' = oldCosts /\ inPlace' = inPlace
  OBVIOUS
<1> QED
  BY DEF Next, Step, MigrateRow, vars, source, target, Fail, NoFail, Detect, Open,
         OpenFails, AlreadyMigrated, BeginPass, Query, QueryFails, StartSession,
         RecordRow, RowFails, TableDone, EndSession, EndSessionFails,
         MigrateCostState, CostStateFails, Mark, MarkFails, Validate, Kill,
         DispatchStart, DispatchCosts, DispatchStop

LEMMA DoneStays ==
  Types /\ [Next]_vars => \A r \in Rows : DoneRow(r) => DoneRow(r)'
<1> SUFFICES ASSUME Types, [Next]_vars, NEW x \in Rows
             PROVE  DoneRow(x) => DoneRow(x)'
  OBVIOUS
<1> USE DEF Types, TypeOK, DoneRow, SessionStates, Rows, target
<1>1. ASSUME NEW m \in Migrators, Detect(m) PROVE DoneRow(x) => DoneRow(x)'
  BY <1>1 DEF Detect, Exit
<1>2. ASSUME NEW m \in Migrators, Open(m) PROVE DoneRow(x) => DoneRow(x)'
  BY <1>2 DEF Open
<1>3. ASSUME NEW m \in Migrators, OpenFails(m) PROVE DoneRow(x) => DoneRow(x)'
  BY <1>3 DEF OpenFails, Exit
<1>4. ASSUME NEW m \in Migrators, AlreadyMigrated(m) PROVE DoneRow(x) => DoneRow(x)'
  BY <1>4 DEF AlreadyMigrated
<1>5. ASSUME NEW m \in Migrators, BeginPass(m) PROVE DoneRow(x) => DoneRow(x)'
  BY <1>5, ConstantsAssumption DEF BeginPass
<1>6. ASSUME NEW m \in Migrators, Query(m) PROVE DoneRow(x) => DoneRow(x)'
  BY <1>6 DEF Query, NoFail, Selected
<1>7. ASSUME NEW m \in Migrators, QueryFails(m) PROVE DoneRow(x) => DoneRow(x)'
  BY <1>7 DEF QueryFails, NextTable, Tables, Fail, NoRows
<1>8. ASSUME NEW m \in Migrators, NEW s \in Sessions, StartSession(m, s) PROVE DoneRow(x) => DoneRow(x)'
  BY <1>8, ConstantsAssumption DEF StartSession, Fetch, NoFail, Rows
<1>9. ASSUME NEW m \in Migrators, NEW r \in Rows, RecordRow(m, r) PROVE DoneRow(x) => DoneRow(x)'
  BY <1>9 DEF RecordRow, Fetch, NoFail
<1>10. ASSUME NEW m \in Migrators, NEW r \in Rows, RowFails(m, r) PROVE DoneRow(x) => DoneRow(x)'
  BY <1>10 DEF RowFails, Fetch, Fail
<1>11. ASSUME NEW m \in Migrators, TableDone(m) PROVE DoneRow(x) => DoneRow(x)'
  BY <1>11 DEF TableDone, NextTable, Tables, NoFail
<1>12. ASSUME NEW m \in Migrators, EndSession(m) PROVE DoneRow(x) => DoneRow(x)'
  BY <1>12 DEF EndSession, NoFail
<1>13. ASSUME NEW m \in Migrators, EndSessionFails(m) PROVE DoneRow(x) => DoneRow(x)'
  BY <1>13 DEF EndSessionFails, Fail
<1>14. ASSUME NEW m \in Migrators, MigrateCostState(m) PROVE DoneRow(x) => DoneRow(x)'
  BY <1>14 DEF MigrateCostState, NoFail
<1>15. ASSUME NEW m \in Migrators, CostStateFails(m) PROVE DoneRow(x) => DoneRow(x)'
  BY <1>15 DEF CostStateFails, Fail
<1>16. ASSUME NEW m \in Migrators, Mark(m) PROVE DoneRow(x) => DoneRow(x)'
  BY <1>16 DEF Mark, NoFail
<1>17. ASSUME NEW m \in Migrators, MarkFails(m) PROVE DoneRow(x) => DoneRow(x)'
  BY <1>17 DEF MarkFails
<1>18. ASSUME NEW m \in Migrators, Validate(m) PROVE DoneRow(x) => DoneRow(x)'
  BY <1>18 DEF Validate, Exit
<1>19. ASSUME NEW m \in Migrators, Kill(m) PROVE DoneRow(x) => DoneRow(x)'
  BY <1>19 DEF Kill, NoRows
<1>20. ASSUME NEW s \in Sessions, DispatchStart(s) PROVE DoneRow(x) => DoneRow(x)'
  BY <1>20 DEF DispatchStart
<1>21. ASSUME NEW s \in Sessions, DispatchStop(s) PROVE DoneRow(x) => DoneRow(x)'
  BY <1>21 DEF DispatchStop
<1>22. CASE DispatchCosts
  BY <1>22 DEF DispatchCosts
<1>23. CASE UNCHANGED vars
  BY <1>23 DEF vars
<1> QED
  BY <1>1, <1>2, <1>3, <1>4, <1>5, <1>6, <1>7, <1>8, <1>9, <1>10,
     <1>11, <1>12, <1>13, <1>14, <1>15, <1>16, <1>17, <1>18, <1>19,
     <1>20, <1>21, <1>22, <1>23
     DEF Next, Step, MigrateRow

LEMMA InPlaceInductive == Types /\ InPlaceDone /\ [Next]_vars => InPlaceDone'
BY Monotone, DoneStays DEF InPlaceDone

LEMMA PassingInductive == Types /\ Passing /\ [Next]_vars => Passing'
<1> SUFFICES ASSUME Types, Passing, [Next]_vars PROVE Passing'
  OBVIOUS
<1> USE DEF Types, TypeOK, Passing, Goto, source, local
<1>1. ASSUME NEW m \in Migrators, Detect(m) PROVE Passing'
  <2>1. pc'[m] \in {"idle", "open"} /\ \A n \in Migrators \ {m} : pc'[n] = pc[n]
    BY <1>1 DEF Detect, Exit
  <2>2. detected'[m] = (oldDB /\ ~IsGoOriginDB) /\ (IsGoOriginDB => inPlace)
    BY <1>1 DEF Detect, IsGoOriginDB
  <2>3. \A n \in Migrators \ {m} : detected'[n] = detected[n]
    BY <1>1 DEF Detect
  <2>4. between' = between /\ oldDB' = oldDB /\ inPlace' = inPlace /\ pc[m] = "idle"
    BY <1>1 DEF Detect
  <2> QED
    BY <2>1, <2>2, <2>3, <2>4
<1>2. ASSUME NEW m \in Migrators, Open(m) PROVE Passing'
  BY <1>2 DEF Open
<1>3. ASSUME NEW m \in Migrators, OpenFails(m) PROVE Passing'
  BY <1>3 DEF OpenFails, Exit
<1>4. ASSUME NEW m \in Migrators, AlreadyMigrated(m) PROVE Passing'
  BY <1>4 DEF AlreadyMigrated
<1>5. ASSUME NEW m \in Migrators, BeginPass(m) PROVE Passing'
  BY <1>5, ConstantsAssumption DEF BeginPass
<1>6. ASSUME NEW m \in Migrators, Query(m) PROVE Passing'
  BY <1>6 DEF Query, NoFail, Selected
<1>7. ASSUME NEW m \in Migrators, QueryFails(m) PROVE Passing'
  BY <1>7 DEF QueryFails, NextTable, Tables, Fail, NoRows
<1>8. ASSUME NEW m \in Migrators, NEW s \in Sessions, StartSession(m, s) PROVE Passing'
  BY <1>8, ConstantsAssumption DEF StartSession, Fetch, NoFail, Rows
<1>9. ASSUME NEW m \in Migrators, NEW r \in Rows, RecordRow(m, r) PROVE Passing'
  BY <1>9 DEF RecordRow, Fetch, NoFail
<1>10. ASSUME NEW m \in Migrators, NEW r \in Rows, RowFails(m, r) PROVE Passing'
  BY <1>10 DEF RowFails, Fetch, Fail
<1>11. ASSUME NEW m \in Migrators, TableDone(m) PROVE Passing'
  BY <1>11 DEF TableDone, NextTable, Tables, NoFail
<1>12. ASSUME NEW m \in Migrators, EndSession(m) PROVE Passing'
  BY <1>12 DEF EndSession, NoFail
<1>13. ASSUME NEW m \in Migrators, EndSessionFails(m) PROVE Passing'
  BY <1>13 DEF EndSessionFails, Fail
<1>14. ASSUME NEW m \in Migrators, MigrateCostState(m) PROVE Passing'
  BY <1>14 DEF MigrateCostState, NoFail
<1>15. ASSUME NEW m \in Migrators, CostStateFails(m) PROVE Passing'
  BY <1>15 DEF CostStateFails, Fail
<1>16. ASSUME NEW m \in Migrators, Mark(m) PROVE Passing'
  BY <1>16 DEF Mark, NoFail
<1>17. ASSUME NEW m \in Migrators, MarkFails(m) PROVE Passing'
  BY <1>17 DEF MarkFails
<1>18. ASSUME NEW m \in Migrators, Validate(m) PROVE Passing'
  BY <1>18 DEF Validate, Exit
<1>19. ASSUME NEW m \in Migrators, Kill(m) PROVE Passing'
  BY <1>19 DEF Kill, NoRows
<1>20. ASSUME NEW s \in Sessions, DispatchStart(s) PROVE Passing'
  BY <1>20 DEF DispatchStart
<1>21. ASSUME NEW s \in Sessions, DispatchStop(s) PROVE Passing'
  BY <1>21 DEF DispatchStop
<1>22. CASE DispatchCosts
  BY <1>22 DEF DispatchCosts
<1>23. CASE UNCHANGED vars
  BY <1>23 DEF vars
<1> QED
  BY <1>1, <1>2, <1>3, <1>4, <1>5, <1>6, <1>7, <1>8, <1>9, <1>10,
     <1>11, <1>12, <1>13, <1>14, <1>15, <1>16, <1>17, <1>18, <1>19,
     <1>20, <1>21, <1>22, <1>23
     DEF Next, Step, MigrateRow

\* A step of one migration that deals with no row it does not leave done.
LEMMA HandledGoesOn ==
  ASSUME HandledDone, NEW m \in Migrators,
         \A n \in Migrators \ {m} : /\ pc'[n] = pc[n] /\ table'[n] = table[n]
                                   /\ todo'[n] = todo[n] /\ between'[n] = between[n],
         \A n \in Migrators : ~errors'[n],
         oldDB' = oldDB, oldCosts' = oldCosts, ledger # "none" => ledger' # "none",
         \A r \in Rows : DoneRow(r) => DoneRow(r)',
         \A r \in Rows : oldDB /\ Handled(m, r)' => Handled(m, r) \/ DoneRow(r)',
         pc'[m] \in {"mark", "validate"} /\ oldCosts => ledger' # "none"
  PROVE  HandledDone'
<1>1. \A n \in Migrators \ {m} : \A r \in Rows : Handled(n, r)' <=> Handled(n, r)
  BY DEF Handled, RowTable, TableOf
<1>2. \A n \in Migrators : \A r \in Rows : oldDB /\ Handled(n, r) => DoneRow(r)
  BY DEF HandledDone
<1>3. \A n \in Migrators : \A r \in Rows : oldDB' /\ Handled(n, r)' => DoneRow(r)'
  BY <1>1, <1>2
<1>4. \A n \in Migrators : pc'[n] \in {"mark", "validate"} /\ oldCosts' => ledger' # "none"
  BY DEF HandledDone
<1> QED
  BY <1>3, <1>4 DEF HandledDone

LEMMA CleanInductive ==
  Types /\ Passing /\ InPlaceDone /\ CleanImport /\ [Next]_vars => CleanImport'
<1> SUFFICES ASSUME Types, Passing, InPlaceDone, CleanImport, [Next]_vars, Clean'
             PROVE  (HandledDone /\ MarkedWhole)'
  BY DEF CleanImport
<1>a. \A r \in Rows : DoneRow(r) => DoneRow(r)'
  BY DoneStays
<1>b. /\ ledger # "none" => ledger' # "none"
      /\ oldDB' = oldDB /\ oldCosts' = oldCosts /\ inPlace' = inPlace
  BY Monotone
<1>c. HandledDone /\ MarkedWhole
  BY Monotone DEF Clean, CleanImport
<1>d. Whole => Whole'
  BY <1>a, <1>b DEF Whole
<1>e. marker' = marker /\ exits' = exits => MarkedWhole'
  BY <1>c, <1>d DEF MarkedWhole
<1>f. \A r \in Rows : r \in Tables[RowTable(r)] /\ RowTable(r) \in 1..3
  BY ConstantsAssumption DEF Rows, Logs, RowTable, TableOf, Tables
<1>g. inPlace => \A r \in Rows : DoneRow(r)
  BY DEF InPlaceDone
<1> HIDE DEF Whole
<1> USE <1>a, <1>b, <1>c, <1>d DEF Types, TypeOK, Passing, InPlaceDone, Clean, HandledDone,
            MarkedWhole, Handled, Goto, target, local
<1>1. ASSUME NEW m \in Migrators, Detect(m) PROVE (HandledDone /\ MarkedWhole)'
  <2>1. \A n \in Migrators \ {m} : /\ pc'[n] = pc[n] /\ table'[n] = table[n]
                                   /\ todo'[n] = todo[n] /\ between'[n] = between[n]
    BY <1>1 DEF Detect, Exit
  <2>2. pc'[m] \in {"idle", "open"} /\ marker' = marker /\ ledger' = ledger
    BY <1>1 DEF Detect, Exit
  <2>3. \A n \in Migrators : ~errors'[n]
    BY <1>1 DEF Detect, Exit
  <2>4. \A r \in Rows : ~Handled(m, r)'
    BY <2>2
  <2>5. HandledDone'
    <3> HIDE DEF HandledDone, Handled, MarkedWhole
    <3> QED
      BY <2>1, <2>2, <2>3, <2>4, HandledGoesOn
  <2>6. exits' = exits \/ Whole
    BY <1>1, <1>g DEF Detect, Exit, IsGoOriginDB, Whole
  <2>7. MarkedWhole'
    BY <2>2, <2>6
  <2> QED
    BY <2>5, <2>7
<1>2. ASSUME NEW m \in Migrators, Open(m) PROVE (HandledDone /\ MarkedWhole)'
  BY <1>2 DEF Open
<1>3. ASSUME NEW m \in Migrators, OpenFails(m) PROVE (HandledDone /\ MarkedWhole)'
  BY <1>3 DEF OpenFails, Exit
<1>4. ASSUME NEW m \in Migrators, AlreadyMigrated(m) PROVE (HandledDone /\ MarkedWhole)'
  <2>1. \A n \in Migrators \ {m} : /\ pc'[n] = pc[n] /\ table'[n] = table[n]
                                   /\ todo'[n] = todo[n] /\ between'[n] = between[n]
    BY <1>4 DEF AlreadyMigrated
  <2>2. \A n \in Migrators : ~errors'[n]
    BY <1>4 DEF AlreadyMigrated
  <2>3. \A r \in Rows : oldDB => DoneRow(r)'
    BY <1>4 DEF AlreadyMigrated, Whole
  <2>4. oldCosts => ledger' # "none"
    BY <1>4 DEF AlreadyMigrated, Whole
  <2>5. HandledDone'
    <3> HIDE DEF HandledDone, Handled, MarkedWhole
    <3> QED
      BY <2>1, <2>2, <2>3, <2>4, HandledGoesOn
  <2>6. MarkedWhole'
    BY <1>4, <1>e DEF AlreadyMigrated
  <2> QED
    BY <2>5, <2>6
<1>5. ASSUME NEW m \in Migrators, BeginPass(m) PROVE (HandledDone /\ MarkedWhole)'
  <2>1. \A n \in Migrators \ {m} : /\ pc'[n] = pc[n] /\ table'[n] = table[n]
                                   /\ todo'[n] = todo[n] /\ between'[n] = between[n]
    BY <1>5 DEF BeginPass
  <2>2. \A n \in Migrators : ~errors'[n]
    BY <1>5 DEF BeginPass
  <2>a. pc[m] = "marker" /\ pc'[m] \in {"query", "costs"} /\ table'[m] = 1
    BY <1>5 DEF BeginPass
  <2>b. pc'[m] = "costs" => ~detected[m]
    BY <1>5 DEF BeginPass
  <2>c. pc'[m] = "costs" /\ oldDB => inPlace
    BY <2>a, <2>b
  <2>d. pc'[m] = "query" => \A r \in Rows : ~Handled(m, r)'
    BY <2>a, <1>f DEF RowTable, TableOf
  <2>3. /\ \A r \in Rows : oldDB /\ Handled(m, r)' => Handled(m, r) \/ DoneRow(r)'
        /\ pc'[m] \notin {"mark", "validate"}
    BY <2>a, <2>c, <2>d, <1>g
  <2>4. HandledDone'
    <3> HIDE DEF HandledDone, Handled, MarkedWhole
    <3> QED
      BY <2>1, <2>2, <2>3, HandledGoesOn
  <2>5. MarkedWhole'
    BY <1>5, <1>e DEF BeginPass
  <2> QED
    BY <2>4, <2>5
<1>6. ASSUME NEW m \in Migrators, Query(m) PROVE (HandledDone /\ MarkedWhole)'
  <2>1. \A n \in Migrators \ {m} : /\ pc'[n] = pc[n] /\ table'[n] = table[n]
                                   /\ todo'[n] = todo[n] /\ between'[n] = between[n]
    BY <1>6 DEF Query, NoFail
  <2>2. \A n \in Migrators : ~errors'[n]
    BY <1>6 DEF Query, NoFail
  <2>a. pc[m] = "query" /\ pc'[m] = "rows" /\ table' = table /\ between[m] = NoRow
    BY <1>6 DEF Query
  <2>b. \A r \in Rows : todo'[m][r] = Selected(table[m])[r]
    BY <1>6 DEF Query
  <2>c. ASSUME NEW r \in Rows, oldDB, Handled(m, r)', ~Handled(m, r) PROVE DoneRow(r)'
    <3>1. table[m] = RowTable(r) /\ Selected(table[m])[r] = 0
      BY <2>a, <2>b, <2>c, <1>f DEF RowTable, TableOf
    <3>2. inPlace
      BY <3>1, <1>f DEF Selected
    <3> QED
      BY <3>2, <1>g
  <2>3. /\ \A r \in Rows : oldDB /\ Handled(m, r)' => Handled(m, r) \/ DoneRow(r)'
        /\ pc'[m] \notin {"mark", "validate"}
    BY <2>a, <2>c
  <2>4. HandledDone'
    <3> HIDE DEF HandledDone, Handled, MarkedWhole
    <3> QED
      BY <2>1, <2>2, <2>3, HandledGoesOn
  <2>5. MarkedWhole'
    BY <1>6, <1>e DEF Query, NoFail
  <2> QED
    BY <2>4, <2>5
<1>7. ASSUME NEW m \in Migrators, QueryFails(m) PROVE (HandledDone /\ MarkedWhole)'
  BY <1>7 DEF QueryFails, NextTable, Tables, Fail, NoRows
<1>8. ASSUME NEW m \in Migrators, NEW s \in Sessions, StartSession(m, s) PROVE (HandledDone /\ MarkedWhole)'
  <2>1. \A n \in Migrators \ {m} : /\ pc'[n] = pc[n] /\ table'[n] = table[n]
                                   /\ todo'[n] = todo[n] /\ between'[n] = between[n]
    BY <1>8 DEF StartSession, Fetch, NoFail
  <2>2. \A n \in Migrators : ~errors'[n]
    BY <1>8 DEF StartSession, Fetch, NoFail
  <2>a. pc[m] = "rows" /\ pc'[m] \in {"rows", "ending"} /\ table' = table
    BY <1>8 DEF StartSession, Fetch
  <2>b. s \in Rows /\ \A r \in Rows \ {s} : todo'[m][r] = todo[m][r]
    BY <1>8 DEF StartSession, Fetch, Rows
  <2>c. between[m] = NoRow /\ NoRow \notin Rows
    BY <2>a, ConstantsAssumption DEF Rows, Logs
  <2>d. IF s \in StillOpen THEN sessions'[s] # "absent"
                           ELSE between'[m] = s /\ pc'[m] = "ending"
    BY <1>8 DEF StartSession
  <2>e. \A r \in Rows \ {s} : Handled(m, r)' => Handled(m, r)
    BY <2>a, <2>b, <2>c DEF RowTable, TableOf
  <2>f. s \notin Logs /\ (s \in StillOpen => DoneRow(s)')
    BY <2>d, ConstantsAssumption DEF DoneRow, Logs
  <2>g. s \notin StillOpen => ~Handled(m, s)' \/ Handled(m, s)
    BY <2>a, <2>d DEF RowTable, TableOf
  <2>3. /\ \A r \in Rows : oldDB /\ Handled(m, r)' => Handled(m, r) \/ DoneRow(r)'
        /\ pc'[m] \notin {"mark", "validate"}
    <3> HIDE DEF Handled
    <3> QED
      BY <2>a, <2>e, <2>f, <2>g
  <2>4. HandledDone'
    <3> HIDE DEF HandledDone, Handled, MarkedWhole
    <3> QED
      BY <2>1, <2>2, <2>3, HandledGoesOn
  <2>5. MarkedWhole'
    BY <1>8, <1>e DEF StartSession, Fetch, NoFail
  <2> QED
    BY <2>4, <2>5
<1>9. ASSUME NEW m \in Migrators, NEW r \in Rows, RecordRow(m, r) PROVE (HandledDone /\ MarkedWhole)'
  <2>1. \A n \in Migrators \ {m} : /\ pc'[n] = pc[n] /\ table'[n] = table[n]
                                   /\ todo'[n] = todo[n] /\ between'[n] = between[n]
    BY <1>9 DEF RecordRow, Fetch, NoFail
  <2>2. \A n \in Migrators : ~errors'[n]
    BY <1>9 DEF RecordRow, Fetch, NoFail
  <2>a. pc[m] = "rows" /\ pc' = pc /\ table' = table /\ between' = between
    BY <1>9 DEF RecordRow, Fetch
  <2>b. \A x \in Rows \ {r} : todo'[m][x] = todo[m][x]
    BY <1>9 DEF RecordRow, Fetch
  <2>c. r \in Logs /\ copies[r] \in Nat /\ copies'[r] = copies[r] + 1
    BY <1>9 DEF RecordRow
  <2>d. DoneRow(r)'
    BY <2>c DEF DoneRow
  <2>e. \A x \in Rows \ {r} : Handled(m, x)' => Handled(m, x)
    BY <2>a, <2>b DEF RowTable, TableOf
  <2>3. /\ \A x \in Rows : oldDB /\ Handled(m, x)' => Handled(m, x) \/ DoneRow(x)'
        /\ pc'[m] \notin {"mark", "validate"}
    <3> HIDE DEF Handled
    <3> QED
      BY <2>a, <2>d, <2>e
  <2>4. HandledDone'
    <3> HIDE DEF HandledDone, Handled, MarkedWhole
    <3> QED
      BY <2>1, <2>2, <2>3, HandledGoesOn
  <2>5. MarkedWhole'
    BY <1>9, <1>e DEF RecordRow, Fetch, NoFail
  <2> QED
    BY <2>4, <2>5
<1>10. ASSUME NEW m \in Migrators, NEW r \in Rows, RowFails(m, r) PROVE (HandledDone /\ MarkedWhole)'
  BY <1>10 DEF RowFails, Fetch, Fail
<1>11. ASSUME NEW m \in Migrators, TableDone(m) PROVE (HandledDone /\ MarkedWhole)'
  <2>1. \A n \in Migrators \ {m} : /\ pc'[n] = pc[n] /\ table'[n] = table[n]
                                   /\ todo'[n] = todo[n] /\ between'[n] = between[n]
    BY <1>11 DEF TableDone, NoFail, NextTable, Tables
  <2>2. \A n \in Migrators : ~errors'[n]
    BY <1>11 DEF TableDone, NoFail, NextTable, Tables
  <2>a. pc[m] = "rows" /\ between[m] = NoRow /\ \A r \in Rows : todo[m][r] = 0
    BY <1>11 DEF TableDone
  <2>b. \/ pc'[m] = "query" /\ table'[m] = table[m] + 1
        \/ pc'[m] = "costs" /\ table[m] = 3
    BY <1>11 DEF TableDone, NextTable, Tables
  <2>c. ASSUME NEW r \in Rows, Handled(m, r)' PROVE Handled(m, r)
    <3>1. RowTable(r) \in 1..3 /\ table[m] \in 1..3 /\ RowTable(r)' = RowTable(r)
      BY <1>f DEF RowTable, TableOf
    <3>2. RowTable(r) <= table[m]
      BY <3>1, <2>b, <2>c
    <3>3. between[m] # r
      BY <2>a, ConstantsAssumption DEF Rows, Logs
    <3> QED
      BY <3>1, <3>2, <3>3, <2>a
  <2>3. /\ \A r \in Rows : oldDB /\ Handled(m, r)' => Handled(m, r) \/ DoneRow(r)'
        /\ pc'[m] \notin {"mark", "validate"}
    BY <2>b, <2>c
  <2>4. HandledDone'
    <3> HIDE DEF HandledDone, Handled, MarkedWhole
    <3> QED
      BY <2>1, <2>2, <2>3, HandledGoesOn
  <2>5. MarkedWhole'
    BY <1>11, <1>e DEF TableDone, NoFail, NextTable, Tables
  <2> QED
    BY <2>4, <2>5
<1>12. ASSUME NEW m \in Migrators, EndSession(m) PROVE (HandledDone /\ MarkedWhole)'
  <2>1. \A n \in Migrators \ {m} : /\ pc'[n] = pc[n] /\ table'[n] = table[n]
                                   /\ todo'[n] = todo[n] /\ between'[n] = between[n]
    BY <1>12 DEF EndSession, NoFail
  <2>2. \A n \in Migrators : ~errors'[n]
    BY <1>12 DEF EndSession, NoFail
  <2>a. pc[m] = "ending" /\ pc'[m] = "rows" /\ table' = table /\ todo' = todo
    BY <1>12 DEF EndSession
  <2>b. PICK s \in Sessions : between[m] = s /\ sessions'[s] = "old"
    BY <1>12 DEF EndSession
  <2>c. DoneRow(s)'
    BY <2>b, ConstantsAssumption DEF DoneRow, Logs
  <2>d. \A r \in Rows : Handled(m, r)' => Handled(m, r) \/ r = s
    BY <2>a, <2>b DEF RowTable, TableOf
  <2>3. /\ \A r \in Rows : oldDB /\ Handled(m, r)' => Handled(m, r) \/ DoneRow(r)'
        /\ pc'[m] \notin {"mark", "validate"}
    <3> HIDE DEF Handled
    <3> QED
      BY <2>a, <2>c, <2>d
  <2>4. HandledDone'
    <3> HIDE DEF HandledDone, Handled, MarkedWhole
    <3> QED
      BY <2>1, <2>2, <2>3, HandledGoesOn
  <2>5. MarkedWhole'
    BY <1>12, <1>e DEF EndSession, NoFail
  <2> QED
    BY <2>4, <2>5
<1>13. ASSUME NEW m \in Migrators, EndSessionFails(m) PROVE (HandledDone /\ MarkedWhole)'
  BY <1>13 DEF EndSessionFails, Fail
<1>14. ASSUME NEW m \in Migrators, MigrateCostState(m) PROVE (HandledDone /\ MarkedWhole)'
  BY <1>14 DEF MigrateCostState, NoFail
<1>15. ASSUME NEW m \in Migrators, CostStateFails(m) PROVE (HandledDone /\ MarkedWhole)'
  BY <1>15 DEF CostStateFails, Fail
<1>16. ASSUME NEW m \in Migrators, Mark(m) PROVE (HandledDone /\ MarkedWhole)'
  BY <1>16 DEF Mark, NoFail, Whole
<1>17. ASSUME NEW m \in Migrators, MarkFails(m) PROVE (HandledDone /\ MarkedWhole)'
  BY <1>17 DEF MarkFails
<1>18. ASSUME NEW m \in Migrators, Validate(m) PROVE (HandledDone /\ MarkedWhole)'
  BY <1>18 DEF Validate, Exit, Whole
<1>19. ASSUME NEW m \in Migrators, Kill(m) PROVE (HandledDone /\ MarkedWhole)'
  BY <1>19 DEF Kill, NoRows
<1>20. ASSUME NEW s \in Sessions, DispatchStart(s) PROVE (HandledDone /\ MarkedWhole)'
  BY <1>20 DEF DispatchStart
<1>21. ASSUME NEW s \in Sessions, DispatchStop(s) PROVE (HandledDone /\ MarkedWhole)'
  BY <1>21 DEF DispatchStop
<1>22. CASE DispatchCosts
  BY <1>22 DEF DispatchCosts
<1>23. CASE UNCHANGED vars
  BY <1>23 DEF vars
<1> QED
  BY <1>1, <1>2, <1>3, <1>4, <1>5, <1>6, <1>7, <1>8, <1>9, <1>10,
     <1>11, <1>12, <1>13, <1>14, <1>15, <1>16, <1>17, <1>18, <1>19,
     <1>20, <1>21, <1>22, <1>23
     DEF Next, Step, MigrateRow

\* For any tables and any number of migrations next to any dispatches: as long as
\* none has reported an error or been killed, one that exits with status 0 has
\* left nothing of the old installation behind.
THEOREM CleanExitIsComplete == Spec => []CleanExitMeansComplete
<1> DEFINE IInv == Types /\ Passing /\ InPlaceDone /\ CleanImport
<1>1. Init => IInv
  BY TypeInitially, DoneInitially
<1>2. IInv /\ [Next]_vars => IInv'
  BY TypeInductive, PassingInductive, InPlaceInductive, CleanInductive
<1>3. IInv => CleanExitMeansComplete
  BY WholeIsComplete DEF CleanImport, Clean, MarkedWhole, CleanExitMeansComplete
<1> QED
  BY <1>1, <1>2, <1>3, PTL DEF Spec
=============================================================================
