------------------------ MODULE BudgetNotifications ------------------------
(***************************************************************************)
(* The budget notification: created by PostToolUse dispatches when today's *)
(* cost has reached the daily budget (internal/notifications), shown and   *)
(* marked surfaced by status-line renderings and by `hookwise              *)
(* notifications` (cmd/hookwise). Each is a process of its own on one      *)
(* SQLite database, without a transaction around its queries.              *)
(*                                                                         *)
(* Time is counted in half-days and passes while no process runs. The cost *)
(* total belongs to the local calendar (scanCostStateRow), the             *)
(* notification's "today" to UTC (CheckBudget, Create).                    *)
(*                                                                         *)
(* LedgerProofs extends this module together with CostState: the names     *)
(* both would define are Notices... here.                                  *)
(***************************************************************************)
EXTENDS Naturals, Sequences, FiniteSets

CONSTANTS
  Dispatches,   \* slots for concurrent PostToolUse dispatches
  Viewers,      \* slots for concurrent status-line renderings
  MaxHalfDay,   \* bound on time
  MaxRows,      \* bound on the notifications table
  UTCOffset,    \* half-days between the local midnight and the one of UTC: 0 or 1
  Interrupts,   \* may a rendering be killed before it has printed?
  ListLimit     \* `hookwise notifications --limit`; 0: nobody runs it

ASSUME NoticesAssumption ==
  /\ IsFiniteSet(Dispatches)
  /\ MaxHalfDay \in Nat /\ MaxRows \in Nat /\ ListLimit \in Nat
  /\ UTCOffset \in {0, 1}
  /\ Interrupts \in BOOLEAN

VARIABLES
  clock,     \* half-days since the start, local time
  over,      \* does the local day's cost total reach the budget?
  handled,   \* history: has an overrun gone through CheckBudget at this clock?
  created,   \* the notifications table: when each row was inserted
  surfaced,  \* IDs (row numbers) whose surfaced_at is set
  seen,      \* history: IDs the user was shown or counted
  check,     \* where each dispatch's CheckBudget is
  today,     \* what CheckBudget took for today, per dispatch
  view,      \* where each status-line rendering is
  shown,     \* the IDs its segment counts
  listing,   \* has `hookwise notifications` printed and not yet marked?
  overlooked \* history: IDs marked surfaced and not shown, because the rendering
             \* was killed, or the listing had cut them off or not met them

spending   == <<clock, over>>
dispatches == <<check, today, handled>>
viewers    == <<view, shown>>
noticeVars ==
  <<spending, created, surfaced, seen, dispatches, viewers,
                 listing, overlooked>>

IDs == 1..Len(created)
LocalDay(t) == t \div 2
UTCDay(t) == (t + UTCOffset) \div 2
\* TTLSeconds defaults to 24 hours.
Expired(n) == clock > created[n] + 2

NoticesInit ==
  /\ clock = 0
  /\ over = FALSE
  /\ handled = FALSE
  /\ created = <<>>
  /\ surfaced = {}
  /\ seen = {}
  /\ check = [p \in Dispatches |-> "idle"]
  /\ today = [p \in Dispatches |-> 0]
  /\ view = [v \in Viewers |-> "idle"]
  /\ shown = [v \in Viewers |-> {}]
  /\ listing = FALSE
  /\ overlooked = {}

-----------------------------------------------------------------------------
\* At local midnight the total starts again at zero.
Tick ==
  /\ clock < MaxHalfDay
  /\ \A p \in Dispatches : check[p] = "idle"
  /\ \A v \in Viewers : view[v] = "idle"
  /\ ~listing
  /\ clock' = clock + 1
  /\ over' = (over /\ LocalDay(clock + 1) = LocalDay(clock))
  /\ handled' = FALSE
  /\ UNCHANGED <<created, surfaced, seen, check, today, viewers,
                 listing, overlooked>>

\* A Stop dispatch charges the day over the budget (module CostState).
Spend ==
  /\ ~over
  /\ over' = TRUE
  /\ UNCHANGED <<clock, created, surfaced, seen, dispatches, viewers,
                 listing, overlooked>>

-----------------------------------------------------------------------------
(* recordAnalytics on PostToolUse: ReadCostState, then CheckBudget.        *)

\* The total has reached the threshold: today is read off the UTC clock.
CheckBudget(p) ==
  /\ check[p] = "idle"
  /\ over
  /\ today' = [today EXCEPT ![p] = UTCDay(clock)]
  /\ check' = [check EXCEPT ![p] = "count"]
  /\ UNCHANGED <<spending, handled, created, surfaced, seen, viewers,
                 listing, overlooked>>

\* The dispatch ends and its memory with it.
DispatchEnds(p) ==
  /\ check' = [check EXCEPT ![p] = "idle"]
  /\ today' = [today EXCEPT ![p] = 0]

CreatedOn(d) == {n \in IDs : UTCDay(created[n]) = d}

\* Fault: the dedup query has no date condition.
AlreadyNotifiedEver(p) ==
  /\ check[p] = "count"
  /\ created # <<>>
  /\ DispatchEnds(p)
  /\ handled' = TRUE
  /\ UNCHANGED <<spending, created, surfaced, seen, viewers,
                 listing, overlooked>>

\* hasNotificationToday.
AlreadyNotified(p) ==
  /\ check[p] = "count"
  /\ CreatedOn(today[p]) # {}
  /\ DispatchEnds(p)
  /\ handled' = TRUE
  /\ UNCHANGED <<spending, created, surfaced, seen, viewers,
                 listing, overlooked>>

\* Fault: the dedup query counts unsurfaced rows only.
NotYetNotifiedUnsurfaced(p) ==
  /\ check[p] = "count"
  /\ CreatedOn(today[p]) \subseteq surfaced
  /\ check' = [check EXCEPT ![p] = "insert"]
  /\ UNCHANGED <<spending, handled, created, surfaced, seen, today, viewers,
                 listing, overlooked>>

\* (Bound: the rows about to be inserted fit into the table.)
Inserting == {p \in Dispatches : check[p] = "insert"}
NotYetNotified(p) ==
  /\ check[p] = "count"
  /\ CreatedOn(today[p]) = {}
  /\ Len(created) + Cardinality(Inserting) < MaxRows
  /\ check' = [check EXCEPT ![p] = "insert"]
  /\ UNCHANGED <<spending, handled, created, surfaced, seen, today, viewers,
                 listing, overlooked>>

Create(p) ==
  /\ check[p] = "insert"
  /\ Len(created) < MaxRows
  /\ created' = Append(created, clock)
  /\ DispatchEnds(p)
  /\ handled' = TRUE
  /\ UNCHANGED <<spending, surfaced, seen, viewers,
                 listing, overlooked>>

\* A query fails, or the dispatch ends first (deadline, kill): fail-open.
GiveUp(p) ==
  /\ check[p] # "idle"
  /\ DispatchEnds(p)
  /\ UNCHANGED <<spending, handled, created, surfaced, seen, viewers,
                 listing, overlooked>>

-----------------------------------------------------------------------------
(* renderNotificationSegment, one rendering of the status line.            *)

\* Fault: the TTL is not added to created_at.
UnsurfacedNoTTL == {n \in IDs : n \notin surfaced /\ clock <= created[n]}

Unsurfaced == {n \in IDs : n \notin surfaced /\ ~Expired(n)}

\* The segment counts what one query returned; an empty result shows nothing.
Render(v) ==
  /\ view[v] = "idle"
  /\ Unsurfaced # {}
  /\ shown' = [shown EXCEPT ![v] = Unsurfaced]
  /\ view' = [view EXCEPT ![v] = "mark"]
  /\ UNCHANGED <<spending, created, surfaced, seen, dispatches, listing, overlooked>>

\* Fault: every row is marked, not only the ones the query returned.
MarkSurfacedAny(v) ==
  /\ view[v] = "mark"
  /\ \E n \in IDs \ surfaced : surfaced' = surfaced \cup {n}
  /\ UNCHANGED <<spending, created, seen, dispatches, viewers,
                 listing, overlooked>>

\* One UPDATE per notification; a failed one is logged and passed over.
MarkSurfaced(v) ==
  /\ view[v] = "mark"
  /\ \E n \in shown[v] \ surfaced : surfaced' = surfaced \cup {n}
  /\ UNCHANGED <<spending, created, seen, dispatches, viewers,
                 listing, overlooked>>

Marked(v) ==
  /\ view[v] = "mark"
  /\ view' = [view EXCEPT ![v] = "print"]
  /\ UNCHANGED <<spending, created, surfaced, seen, dispatches, shown,
                 listing, overlooked>>

\* The rendering ends and its segment with it.
ViewEnds(v) ==
  /\ view' = [view EXCEPT ![v] = "idle"]
  /\ shown' = [shown EXCEPT ![v] = {}]

\* runStatusLine prints after the warning and fleet segments are computed.
PrintLine(v) ==
  /\ view[v] = "print"
  /\ seen' = seen \cup shown[v]
  /\ ViewEnds(v)
  /\ UNCHANGED <<spending, created, surfaced, dispatches, listing, overlooked>>

\* The process is killed, as when a newer status line makes it obsolete.
Interrupt(v) ==
  /\ Interrupts
  /\ view[v] # "idle"
  /\ overlooked' = overlooked \cup (shown[v] \cap surfaced)
  /\ ViewEnds(v)
  /\ UNCHANGED <<spending, created, surfaced, seen, dispatches, listing>>

-----------------------------------------------------------------------------
(* runNotifications: print the newest rows, then mark every unsurfaced one. *)

ListNewest ==
  /\ ListLimit > 0 /\ ~listing
  /\ listing' = TRUE
  /\ seen' = seen \cup {n \in IDs : n + ListLimit > Len(created)}
  /\ UNCHANGED <<spending, created, surfaced, dispatches, viewers, overlooked>>

MarkAll ==
  /\ listing
  /\ listing' = FALSE
  /\ surfaced' = surfaced \cup Unsurfaced
  /\ overlooked' = overlooked \cup (Unsurfaced \ seen)
  /\ UNCHANGED <<spending, created, seen, dispatches, viewers>>

-----------------------------------------------------------------------------
DispatchStep(p) ==
  \/ CheckBudget(p) \/ AlreadyNotified(p) \/ NotYetNotified(p) \/ Create(p)
  \/ GiveUp(p)
ViewerStep(v) == Render(v) \/ MarkSurfaced(v) \/ Marked(v) \/ PrintLine(v)

NoticesNext ==
  \/ Tick \/ Spend \/ ListNewest \/ MarkAll
  \/ \E p \in Dispatches : DispatchStep(p)
  \/ \E v \in Viewers : ViewerStep(v) \/ Interrupt(v)

NoticesSpec == NoticesInit /\ [][NoticesNext]_noticeVars

\* Claude Code keeps rendering the status line, and from some time on lets a
\* started rendering finish.
ViewSpec ==
  /\ NoticesSpec
  /\ <>[][~\E v \in Viewers : Interrupt(v)]_noticeVars
  /\ \A v \in Viewers : WF_noticeVars(ViewerStep(v))

-----------------------------------------------------------------------------
NoticesTypeOK ==
  /\ clock \in 0..MaxHalfDay
  /\ over \in BOOLEAN
  /\ handled \in BOOLEAN
  /\ created \in Seq(0..MaxHalfDay) /\ Len(created) <= MaxRows
  /\ surfaced \subseteq IDs
  /\ seen \subseteq IDs
  /\ check \in [Dispatches -> {"idle", "count", "insert"}]
  /\ today \in [Dispatches -> Nat]
  /\ view \in [Viewers -> {"idle", "mark", "print"}]
  /\ shown \in [Viewers -> SUBSET IDs]
  /\ listing \in BOOLEAN
  /\ overlooked \subseteq IDs

\* "Producers dedup per day, so repeated calls don't spam" (cmd_dispatch.go:
\* 265-266), as far as a check without a lock can: a day has no more
\* notifications than dispatches ever run at once, however many tool calls.
DuplicatesBounded ==
  \A n \in IDs :
    Cardinality(CreatedOn(UTCDay(created[n]))) <= Cardinality(Dispatches)

\* An overrun that went through CheckBudget has a notification of its own local
\* day, the day the cost total counts; or else of the local day before, made on
\* the UTC day of the check: the dedup takes yesterday's notification for today's
\* until UTC midnight has passed, and not a check longer.
OverrunNotified ==
  handled => \E n \in IDs :
               \/ LocalDay(created[n]) = LocalDay(clock)
               \/ /\ LocalDay(created[n]) + 1 = LocalDay(clock)
                  /\ UTCDay(created[n]) = UTCDay(clock)

\* "this is the only moment we know the user saw the notification", "now that
\* they've been displayed": a notification marked surfaced has been printed, or
\* is about to be by a rendering that still runs. The two ways out are the kill
\* of a rendering between marking and printing, and the listing command, which
\* marks by a query of its own what its limit cut off or what came later.
SurfacedWasSeen ==
  surfaced \subseteq seen \cup overlooked \cup UNION {shown[v] : v \in Viewers}

\* Every notification is put before the user, unless it expires first or is
\* overlooked in one of these two ways.
EventuallySeen ==
  \A n \in 1..MaxRows :
    (n \in IDs) ~> (n \in seen \cup overlooked \/ (n \in IDs /\ Expired(n)))
=============================================================================
