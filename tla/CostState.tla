------------------------------ MODULE CostState ------------------------------
(***************************************************************************)
(* The cost ledger. Every Stop or SessionEnd hook is a `hookwise dispatch` *)
(* process of its own that sums the session's transcript, folds it into    *)
(* the singleton cost_state row in one BEGIN IMMEDIATE transaction and     *)
(* upserts the session's row (recordAnalytics, UpdateCostState,            *)
(* EndSession). The daily budget is enforced from the same row.            *)
(*                                                                         *)
(* A process keeps the instant it captured before it waited for the write  *)
(* lock; the date-boundary reset uses the clock at the time of the scan.   *)
(* Costs are integers; dates are days of the local calendar.               *)
(***************************************************************************)
EXTENDS Integers, FiniteSets, Functions

CONSTANTS
  Sessions,       \* Claude Code sessions
  Procs,          \* slots for concurrent dispatch processes
  MaxCost,        \* bound on the cost a transcript adds up to
  MaxDay,         \* bound on the calendar
  None,           \* nobody
  CrossMidnight   \* may a dispatch be under way at midnight?

ASSUME ConstantsAssumption ==
  /\ IsFiniteSet(Sessions)
  /\ MaxCost \in Nat /\ MaxDay \in Nat \ {0}
  /\ CrossMidnight \in BOOLEAN
  /\ None \notin Procs \cup Sessions

VARIABLES
  day,         \* the wall clock
  transcript,  \* what each session's transcript adds up to
  shrunk,      \* history: some session's sum has gone down
  row,         \* the cost_state row
  estimated,   \* sessions.estimated_cost_usd, Absent while there is no row
  writer,      \* the process holding SQLite's write lock
  pc, session, now, cost, scanned  \* each process and its local variables

vars == <<day, transcript, shrunk, row, estimated, writer, pc, session, now, cost, scanned>>

Days == 1..MaxDay
Costs == 0..MaxCost
Absent == -1
Rows == [daily : [Days -> Nat], session : [Sessions -> Costs],
         today : 0..MaxDay, total : Nat]

\* No row yet reads like an empty row of an earlier day (defaultCostState).
EmptyRow == [daily |-> [d \in Days |-> 0], session |-> [s \in Sessions |-> 0],
             today |-> 0, total |-> 0]

\* scanCostStateRow: the total belongs to its date.
Scan(r) == IF r.today = day THEN r ELSE [r EXCEPT !.today = day, !.total = 0]

\* Fault: no floor.
NoFloor(n) == n

AtLeastZero(n) == IF n < 0 THEN 0 ELSE n

\* Fault: the total is charged the session's whole cost at every Stop.
MutateByCost(r, s, c, today) ==
  [daily   |-> [r.daily EXCEPT ![today] = AtLeastZero(@ + c - r.session[s])],
   session |-> [r.session EXCEPT ![s] = c],
   today   |-> today,
   total   |-> r.total + c]

\* Fault: every Stop charges the session's whole cost again.
MutateChargesAgain(r, s, c, today) ==
  [daily   |-> [r.daily EXCEPT ![today] = @ + c],
   session |-> [r.session EXCEPT ![s] = c],
   today   |-> today,
   total   |-> r.total + c]

\* The mutate callback of recordAnalytics; today is the captured instant's.
Mutate(r, s, c, today) ==
  LET delta == c - r.session[s] IN
    [daily   |-> [r.daily EXCEPT ![today] = AtLeastZero(@ + delta)],
     session |-> [r.session EXCEPT ![s] = c],
     today   |-> today,
     total   |-> AtLeastZero(r.total + delta)]

Init ==
  /\ day = 1
  /\ transcript = [s \in Sessions |-> 0]
  /\ shrunk = FALSE
  /\ row = EmptyRow
  /\ estimated = [s \in Sessions |-> Absent]
  /\ writer = None
  /\ pc = [p \in Procs |-> "idle"]
  /\ session = [p \in Procs |-> None]
  /\ now = [p \in Procs |-> 1]
  /\ cost = [p \in Procs |-> 0]
  /\ scanned = [p \in Procs |-> EmptyRow]

Goto(p, label) == pc' = [pc EXCEPT ![p] = label]
InFlight(p) == pc[p] # "idle"

\* The process ends and its memory with it.
ProcessEnds(p) ==
  /\ Goto(p, "idle")
  /\ session' = [session EXCEPT ![p] = None]
  /\ now' = [now EXCEPT ![p] = 1]
  /\ cost' = [cost EXCEPT ![p] = 0]
  /\ scanned' = [scanned EXCEPT ![p] = EmptyRow]

-----------------------------------------------------------------------------
(* The environment: the clock and the transcripts.                         *)

Midnight ==
  /\ day < MaxDay
  /\ CrossMidnight \/ \A p \in Procs : ~InFlight(p)
  /\ day' = day + 1
  /\ UNCHANGED <<transcript, shrunk, row, estimated, writer, pc, session, now, cost, scanned>>

\* The session works (its cost grows), or its transcript is truncated or
\* priced at lower rates.
Work(s) ==
  /\ \E c \in Costs \ {transcript[s]} :
       /\ transcript' = [transcript EXCEPT ![s] = c]
       /\ shrunk' = (shrunk \/ c < transcript[s])
  /\ UNCHANGED <<day, row, estimated, writer, pc, session, now, cost, scanned>>

-----------------------------------------------------------------------------
(* recordAnalytics.                                                        *)

\* SessionStart: a plain INSERT, which fails for a session that has a row.
StartSession(s) ==
  /\ writer = None
  /\ estimated[s] = Absent
  /\ estimated' = [estimated EXCEPT ![s] = 0]
  /\ UNCHANGED <<day, transcript, shrunk, row, writer, pc, session, now, cost, scanned>>

\* Stop or SessionEnd: the database is open and the instant captured.
Stop(p, s) ==
  /\ pc[p] = "idle"
  /\ session' = [session EXCEPT ![p] = s]
  /\ now' = [now EXCEPT ![p] = day]
  /\ cost' = [cost EXCEPT ![p] = 0]
  /\ Goto(p, "sum")
  /\ UNCHANGED <<day, transcript, shrunk, row, estimated, writer, scanned>>

\* transcript.SumUsage priced by pricing.ComputeWithRates.
SumTranscript(p) ==
  /\ pc[p] = "sum"
  /\ cost' = [cost EXCEPT ![p] = transcript[session[p]]]
  /\ Goto(p, "begin")
  /\ UNCHANGED <<day, transcript, shrunk, row, estimated, writer, session, now, scanned>>

\* Cost tracking is off or the transcript cannot be read (the session is ended
\* with cost 0), or the transaction cannot begin: no cost update.
SkipCost(p) ==
  /\ pc[p] \in {"sum", "begin"}
  /\ Goto(p, "end")
  /\ UNCHANGED <<day, transcript, shrunk, row, estimated, writer, session, now, cost, scanned>>

\* Fault: BEGIN DEFERRED, which reads without the write lock.
TxBeginDeferred(p) ==
  /\ pc[p] = "begin"
  /\ writer' = p
  /\ scanned' = [scanned EXCEPT ![p] = Scan(row)]
  /\ Goto(p, "commit")
  /\ UNCHANGED <<day, transcript, shrunk, row, estimated, session, now, cost>>

\* BEGIN IMMEDIATE waits for the write lock, then the row is scanned.
TxBegin(p) ==
  /\ pc[p] = "begin"
  /\ writer = None
  /\ writer' = p
  /\ scanned' = [scanned EXCEPT ![p] = Scan(row)]
  /\ Goto(p, "commit")
  /\ UNCHANGED <<day, transcript, shrunk, row, estimated, session, now, cost>>

TxCommit(p) ==
  /\ pc[p] = "commit"
  /\ row' = Mutate(scanned[p], session[p], cost[p], now[p])
  /\ writer' = None
  /\ Goto(p, "end")
  /\ UNCHANGED <<day, transcript, shrunk, estimated, session, now, cost, scanned>>

\* The write or the COMMIT fails: ROLLBACK. The session is still ended.
TxRollback(p) ==
  /\ pc[p] = "commit"
  /\ writer' = None
  /\ Goto(p, "end")
  /\ UNCHANGED <<day, transcript, shrunk, row, estimated, session, now, cost, scanned>>

\* EndSession upserts, so a session without a SessionStart gets its row here.
EndSession(p) ==
  /\ pc[p] = "end"
  /\ writer = None
  /\ estimated' = [estimated EXCEPT ![session[p]] = cost[p]]
  /\ ProcessEnds(p)
  /\ UNCHANGED <<day, transcript, shrunk, row, writer>>

\* The recording stops short: the dispatch deadline passes, after which every
\* statement fails, the write lock does not come free, os.Exit runs two seconds
\* after the start, or the process is killed. SQLite drops the write lock.
Exit(p) ==
  /\ InFlight(p)
  /\ writer' = IF writer = p THEN None ELSE writer
  /\ ProcessEnds(p)
  /\ UNCHANGED <<day, transcript, shrunk, row, estimated>>

Step(p) ==
  \/ SumTranscript(p) \/ SkipCost(p) \/ TxBegin(p)
  \/ TxCommit(p) \/ TxRollback(p) \/ EndSession(p)

Next ==
  \/ Midnight
  \/ \E s \in Sessions : Work(s) \/ StartSession(s)
  \/ \E p \in Procs : Step(p) \/ Exit(p) \/ \E s \in Sessions : Stop(p, s)

Spec == Init /\ [][Next]_vars

-----------------------------------------------------------------------------
(* Correctness.                                                            *)

\* Every variable has its type; no total or daily cost is ever negative.
TypeOK ==
  /\ day \in Days
  /\ transcript \in [Sessions -> Costs]
  /\ shrunk \in BOOLEAN
  /\ row \in Rows
  /\ estimated \in [Sessions -> Costs \cup {Absent}]
  /\ writer \in Procs \cup {None}
  /\ pc \in [Procs -> {"idle", "sum", "begin", "commit", "end"}]
  /\ session \in [Procs -> Sessions \cup {None}]
  /\ now \in [Procs -> Days]
  /\ cost \in [Procs -> Costs]
  /\ scanned \in [Procs -> Rows]

\* What budget enforcement reads as today's spend is what the ledger says was
\* spent today: "TotalToday and DailyCosts[today] are redundant views of the
\* same daily total" (cmd_dispatch.go:303-306).
DailyViewsAgree == Scan(row).total = row.daily[day]

\* Stop after Stop charges a session only what it cost since the last one: what
\* the days were charged adds up to what the sessions cost, on whatever days the
\* stops of a session fell. A sum that went down may leave a day charged too
\* much (the floor at zero drops the rest of a credit), never too little.
EveryCostChargedOnce ==
  LET charged == FoldFunction(+, 0, row.daily)
      costs   == FoldFunction(+, 0, row.session)
  IN  charged >= costs /\ (~shrunk => charged = costs)

\* A dispatch changes the ledger's entries of its own session and its own day
\* only: the row it writes back undoes nothing that another dispatch has written
\* since it read ("a cross-process lost-update race ... then reads the
\* already-committed state instead of a stale snapshot", state.go:144-148).
NoUpdateLost ==
  [][row' # row =>
       \E p \in Procs :
         /\ pc[p] = "commit"
         /\ \A s \in Sessions \ {session[p]} : row'.session[s] = row.session[s]
         /\ \A d \in Days \ {now[p]} : row'.daily[d] = row.daily[d]]_vars
=============================================================================
