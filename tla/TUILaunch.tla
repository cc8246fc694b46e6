----------------------------- MODULE TUILaunch -----------------------------
(***************************************************************************)
(* The singleton TUI: hook dispatches (and `hookwise tui`) that launch it  *)
(* behind tui.launch.marker (cmd/hookwise/cmd_daemon.go), the TUI          *)
(* processes themselves, and the daemon's watchdog that reaps duplicate    *)
(* and runaway TUIs (cmd/hookwise/cmd_daemon_tui_watchdog.go).             *)
(*                                                                         *)
(* Time is a few classes. The marker is fresh or stale (30s cooldown); a   *)
(* process is starting, young or old (15s boot grace). Two assumptions     *)
(* bound the clock: a launch that claimed the marker, and the hand-over    *)
(* from `open` to the exec of python, take less than the cooldown; a sweep *)
(* takes less than 13s, the boot grace less the 2s by which reVerifyTUI    *)
(* lets the age of a listed process be off: a process that appeared after  *)
(* the list was taken does not pass the grace, nor for the listed one.     *)
(***************************************************************************)
EXTENDS Naturals

CONSTANTS
  Launchers,     \* processes that run launchTUIIfNeeded
  PIDs,          \* process IDs a TUI can have
  None,          \* no PID file, no victim
  MaxHandoffs,   \* bound: spawned TUIs that have not yet exec'd
  ManualLaunch,  \* may the user start hookwise-tui without the guard?
  PIDReuse       \* may an unrelated python process get a dead TUI's PID?

ASSUME ConstantsAssumption ==
  /\ None \notin PIDs
  /\ MaxHandoffs \in Nat \ {0}
  /\ ManualLaunch \in BOOLEAN
  /\ PIDReuse \in BOOLEAN

VARIABLES
  pc,        \* where each launcher is
  attempts,  \* failed O_EXCL attempts of claimMarker, per launcher
  marker,    \* tui.launch.marker: "absent", "fresh" or "stale"
  handoffs,  \* TUIs spawned but not yet visible to pgrep
  kind,      \* what runs under each PID: "none", "tui" or "python"
  age,       \* "starting", "young" or "old", per PID
  busy,      \* is the process above tuiRunawayCPU?
  older,     \* the visible TUIs that were up when this one appeared, per PID
  pidFile,   \* the PID in tui.pid, None when absent
  targets,   \* PIDs the current sweep still has to kill
  victim,    \* PID that got SIGTERM and is in its 500ms grace, or None
  newcomers, \* PIDs given to a new process since the current sweep listed
  mishaps    \* history: "stolen" when a fresh marker was removed as stale,
             \* "strayed" when a sweep signalled no TUI or one in boot grace

launch == <<pc, attempts, marker>>
procs  == <<kind, age, busy, older, pidFile>>
watch  == <<targets, victim, newcomers>>
vars   == <<launch, handoffs, procs, watch, mishaps>>

ClaimedLabels == {"recheck", "spawn", "release"}
Labels == {"idle", "killed", "check", "claim", "stat", "remove"} \cup ClaimedLabels

TUIs == {p \in PIDs : kind[p] = "tui"}
OldTUIs == {p \in TUIs : age[p] = "old"}
Sweeping == targets # {} \/ victim # None
Goto(l, label) == pc' = [pc EXCEPT ![l] = label]

Init ==
  /\ pc = [l \in Launchers |-> "idle"]
  /\ attempts = [l \in Launchers |-> 0]
  /\ marker \in {"absent", "stale"}
  /\ handoffs = 0
  /\ kind = [p \in PIDs |-> "none"]
  /\ age = [p \in PIDs |-> "starting"]
  /\ busy = [p \in PIDs |-> FALSE]
  /\ older = [p \in PIDs |-> {}]
  /\ pidFile = None
  /\ targets = {}
  /\ victim = None
  /\ newcomers = {}
  /\ mishaps = {}

-----------------------------------------------------------------------------
(* launchIfNeeded and claimMarker.                                         *)

\* isTUIComm: comm holds "hookwise-tui" or "python", whoever's python it is.
IsTUIComm(p) == kind[p] \in {"tui", "python"}

\* isTUIRunning: the PID file's process, else any process pgrep finds.
IsTUIRunning ==
  \/ pidFile # None /\ IsTUIComm(pidFile)
  \/ TUIs # {}

\* A SessionStart dispatch or `hookwise tui` begins.
Dispatch(l) ==
  /\ pc[l] \in {"idle", "killed"}
  /\ Goto(l, "check")
  /\ UNCHANGED <<attempts, marker, handoffs, procs, watch, mishaps>>

Check(l) ==
  /\ pc[l] = "check"
  /\ Goto(l, IF IsTUIRunning THEN "idle" ELSE "claim")
  /\ attempts' = [attempts EXCEPT ![l] = 0]
  /\ UNCHANGED <<marker, handoffs, procs, watch, mishaps>>

\* open(O_CREATE|O_EXCL): wins exactly when no marker exists.
Claim(l) ==
  /\ pc[l] = "claim"
  /\ \/ /\ marker = "absent"
        /\ marker' = "fresh"
        /\ Goto(l, "recheck")
     \/ /\ marker # "absent"
        /\ Goto(l, "stat")
        /\ UNCHANGED marker
  /\ UNCHANGED <<attempts, handoffs, procs, watch, mishaps>>

\* Any other error of the open (ENOSPC, EPERM, ...) suppresses the launch.
ClaimFails(l) ==
  /\ pc[l] = "claim"
  /\ Goto(l, "idle")
  /\ UNCHANGED <<attempts, marker, handoffs, procs, watch, mishaps>>

\* Fault: the loop is not bounded.
RetryForever(l) ==
  /\ attempts' = [attempts EXCEPT ![l] = @ + 1]
  /\ Goto(l, "claim")

\* The next attempt of claimMarker's loop, of which there are three.
Retry(l) ==
  /\ attempts' = [attempts EXCEPT ![l] = @ + 1]
  /\ Goto(l, IF attempts[l] + 1 < 3 THEN "claim" ELSE "idle")

\* Fault: a stale marker suppresses the launch like a fresh one.
StatKeepsStale(l) ==
  /\ pc[l] = "stat"
  /\ \/ marker = "absent" /\ Retry(l)
     \/ marker # "absent" /\ Goto(l, "idle") /\ UNCHANGED attempts
  /\ UNCHANGED <<marker, handoffs, procs, watch, mishaps>>

Stat(l) ==
  /\ pc[l] = "stat"
  /\ \/ marker = "absent" /\ Retry(l)
     \/ marker = "fresh"  /\ Goto(l, "idle")   /\ UNCHANGED attempts
     \/ marker = "stale"  /\ Goto(l, "remove") /\ UNCHANGED attempts
  /\ UNCHANGED <<marker, handoffs, procs, watch, mishaps>>

\* os.Remove by path: the marker of another winner when it was replaced.
RemoveStale(l) ==
  /\ pc[l] = "remove"
  /\ marker' = "absent"
  /\ mishaps' = IF marker = "fresh" THEN mishaps \cup {"stolen"} ELSE mishaps
  /\ Retry(l)
  /\ UNCHANGED <<handoffs, procs, watch>>

Recheck(l) ==
  /\ pc[l] = "recheck"
  /\ Goto(l, IF IsTUIRunning THEN "release" ELSE "spawn")
  /\ UNCHANGED <<attempts, marker, handoffs, procs, watch, mishaps>>

\* Fault: the marker is removed as soon as the spawn has succeeded.
SpawnAndRelease(l) ==
  /\ pc[l] = "spawn"
  /\ handoffs < MaxHandoffs
  /\ handoffs' = handoffs + 1
  /\ Goto(l, "release")
  /\ UNCHANGED <<attempts, marker, procs, watch, mishaps>>

\* The spawned `open -a Terminal` (or hookwise-tui itself) is running; the
\* marker stays and suppresses launches until it is stale.
Spawn(l) ==
  /\ pc[l] = "spawn"
  /\ handoffs < MaxHandoffs
  /\ handoffs' = handoffs + 1
  /\ Goto(l, "idle")
  /\ UNCHANGED <<attempts, marker, procs, watch, mishaps>>

SpawnFails(l) ==
  /\ pc[l] = "spawn"
  /\ Goto(l, "release")
  /\ UNCHANGED <<attempts, marker, handoffs, procs, watch, mishaps>>

\* removeMarker, after a failed spawn or when a TUI appeared meanwhile.
Release(l) ==
  /\ pc[l] = "release"
  /\ marker' = "absent"
  /\ Goto(l, "idle")
  /\ UNCHANGED <<attempts, handoffs, procs, watch, mishaps>>

\* The launching process is killed; its marker stays.
Crash(l) ==
  /\ pc[l] \notin {"idle", "killed"}
  /\ Goto(l, "killed")
  /\ UNCHANGED <<attempts, marker, handoffs, procs, watch, mishaps>>

\* The cooldown ends, later than any launch and hand-over it covers.
MarkerExpires ==
  /\ marker = "fresh"
  /\ \A l \in Launchers : pc[l] \notin ClaimedLabels
  /\ handoffs = 0
  /\ marker' = "stale"
  /\ UNCHANGED <<pc, attempts, handoffs, procs, watch, mishaps>>

-----------------------------------------------------------------------------
(* The TUI processes and the PIDs they leave behind.                       *)

\* A new process gets the PID p, perhaps while a sweep is under way.
NewProcess(p) ==
  /\ kind[p] = "none"
  /\ newcomers' = IF Sweeping THEN newcomers \cup {p} ELSE newcomers
  /\ UNCHANGED <<targets, victim>>

Appears(p) ==
  /\ NewProcess(p)
  /\ kind' = [kind EXCEPT ![p] = "tui"]
  /\ age' = [age EXCEPT ![p] = "starting"]
  /\ busy' = [busy EXCEPT ![p] = FALSE]
  /\ older' = [older EXCEPT ![p] = TUIs]
  /\ UNCHANGED <<launch, pidFile, mishaps>>

Exec(p) == handoffs > 0 /\ handoffs' = handoffs - 1 /\ Appears(p)

\* Terminal opened, but the TUI never came up.
HandoffDies ==
  /\ handoffs > 0
  /\ handoffs' = handoffs - 1
  /\ UNCHANGED <<launch, procs, watch, mishaps>>

ManualStart(p) == ManualLaunch /\ UNCHANGED handoffs /\ Appears(p)

\* on_mount writes tui.pid.
Mount(p) ==
  /\ kind[p] = "tui" /\ age[p] = "starting"
  /\ pidFile' = p
  /\ age' = [age EXCEPT ![p] = "young"]
  /\ UNCHANGED <<launch, handoffs, kind, busy, older, watch, mishaps>>

\* The boot grace ends, perhaps in the middle of a sweep that has listed the
\* TUI as young; of those that appeared since it listed, none is that old.
Grow(p) ==
  /\ p \notin newcomers
  /\ kind[p] = "tui" /\ age[p] = "young"
  /\ age' = [age EXCEPT ![p] = "old"]
  /\ UNCHANGED <<launch, handoffs, kind, busy, older, pidFile, watch, mishaps>>

\* A render loop wedges, or recovers.
Wedge(p) ==
  /\ kind[p] = "tui"
  /\ busy' = [busy EXCEPT ![p] = ~@]
  /\ UNCHANGED <<launch, handoffs, kind, age, older, pidFile, watch, mishaps>>

\* p is gone. Only an orderly exit takes its own PID out of tui.pid.
Gone(p, orderly) ==
  /\ kind' = [kind EXCEPT ![p] = "none"]
  /\ age' = [age EXCEPT ![p] = "starting"]
  /\ busy' = [busy EXCEPT ![p] = FALSE]
  /\ older' = [q \in PIDs |-> IF q = p THEN {} ELSE older[q] \ {p}]
  /\ pidFile' = IF orderly /\ pidFile = p THEN None ELSE pidFile

\* The user quits the TUI, or it dies; also what SIGTERM brings about.
Exit(p) ==
  /\ kind[p] = "tui"
  /\ \E orderly \in BOOLEAN : Gone(p, orderly)
  /\ UNCHANGED <<launch, handoffs, watch, mishaps>>

\* An unrelated python process is given the PID; later it ends.
Reuse(p) ==
  /\ PIDReuse
  /\ NewProcess(p)
  /\ kind' = [kind EXCEPT ![p] = "python"]
  /\ age' = [age EXCEPT ![p] = "young"]
  /\ UNCHANGED <<launch, handoffs, busy, older, pidFile, mishaps>>

StrangerEnds(p) ==
  /\ kind[p] = "python"
  /\ Gone(p, FALSE)
  /\ UNCHANGED <<launch, handoffs, watch, mishaps>>

-----------------------------------------------------------------------------
(* The watchdog's sweep.                                                   *)

\* Fault: healthy duplicates are left alone.
ReapRunaways == {p \in OldTUIs : busy[p]}

\* reapTUIs: every runaway past its boot grace, and of the healthy ones past
\* it all but the newest.
Reap ==
  LET runaway == {p \in OldTUIs : busy[p]}
      healthy == OldTUIs \ runaway
  IN  runaway \cup {p \in healthy : \E q \in healthy : p \in older[q]}

Sweep ==
  /\ ~Sweeping
  /\ targets' = Reap
  /\ UNCHANGED <<launch, handoffs, procs, victim, newcomers, mishaps>>

\* Fault: the process's age is not compared with the one listed.
ReVerifyComm(p) == IsTUIComm(p)

\* reVerifyTUI: comm still looks like a TUI and the process is, within 2s, as
\* old as the one that was listed, which one that appeared since cannot be: the
\* listed age is the grace of 15s at least, and a sweep is over before 13s.
ReVerify(p) == IsTUIComm(p) /\ p \notin newcomers

Strike(p) ==
  mishaps' = IF p \in OldTUIs THEN mishaps ELSE mishaps \cup {"strayed"}

EndIfLast == newcomers' = IF Sweeping' THEN newcomers ELSE {}

\* realKillTUI's first half: verify, SIGTERM, and the 500ms sleep begins. The
\* process may exit (Exit) or ignore the signal.
Terminate(p) ==
  /\ victim = None
  /\ p \in targets
  /\ targets' = targets \ {p}
  /\ IF ReVerify(p)
       THEN victim' = p /\ Strike(p)
       ELSE UNCHANGED <<victim, mishaps>>
  /\ EndIfLast
  /\ UNCHANGED <<launch, handoffs, procs>>

\* The sleep ends: SIGKILL if the same process is still there.
KillSurvivor(p) ==
  /\ victim = p
  /\ victim' = None
  /\ IF ReVerify(p)
       THEN Gone(p, FALSE) /\ Strike(p)
       ELSE UNCHANGED <<procs, mishaps>>
  /\ UNCHANGED <<launch, handoffs, targets>>
  /\ EndIfLast

-----------------------------------------------------------------------------
LauncherStep(l) ==
  \/ Check(l) \/ Claim(l) \/ ClaimFails(l) \/ Stat(l) \/ RemoveStale(l)
  \/ Recheck(l) \/ Spawn(l) \/ SpawnFails(l) \/ Release(l)

ProcessStep(p) ==
  \/ Exec(p) \/ ManualStart(p) \/ Mount(p) \/ Grow(p) \/ Wedge(p) \/ Exit(p)
  \/ Reuse(p) \/ StrangerEnds(p)

WatchdogStep == Sweep \/ \E p \in PIDs : Terminate(p) \/ KillSurvivor(p)

Next ==
  \/ \E l \in Launchers : Dispatch(l) \/ LauncherStep(l) \/ Crash(l)
  \/ MarkerExpires
  \/ HandoffDies
  \/ \E p \in PIDs : ProcessStep(p)
  \/ WatchdogStep

Spec == Init /\ [][Next]_vars

\* The daemon keeps sweeping.
WatchdogSpec == Spec /\ WF_vars(WatchdogStep)

\* Sessions keep starting and from some time on their dispatches are not
\* killed; the clock passes the cooldown; the state directory is writable and
\* hookwise-tui is on PATH often enough, so that a launcher that again and
\* again gets to claim or to spawn does.
LaunchSpec ==
  /\ Spec
  /\ <>[](\A l \in Launchers : pc[l] # "killed")
  /\ WF_vars(MarkerExpires)
  /\ \A l \in Launchers :
       /\ WF_vars(Dispatch(l) \/ LauncherStep(l))
       /\ SF_vars(Claim(l))
       /\ SF_vars(Spawn(l))
  /\ WF_vars(\E p \in PIDs : Exec(p))

-----------------------------------------------------------------------------
TypeOK ==
  /\ pc \in [Launchers -> Labels]
  /\ attempts \in [Launchers -> 0..3]
  /\ marker \in {"absent", "fresh", "stale"}
  /\ handoffs \in 0..MaxHandoffs
  /\ kind \in [PIDs -> {"none", "tui", "python"}]
  /\ age \in [PIDs -> {"starting", "young", "old"}]
  /\ busy \in [PIDs -> BOOLEAN]
  /\ older \in [PIDs -> SUBSET PIDs]
  /\ pidFile \in PIDs \cup {None}
  /\ targets \subseteq PIDs
  /\ victim \in PIDs \cup {None}
  /\ newcomers \subseteq PIDs
  /\ mishaps \subseteq {"stolen", "strayed"}

\* At most one TUI is up or on its way, and none when a launch is about to
\* spawn.
AtMostOneTUI ==
  /\ handoffs <= 1
  /\ \A p, q \in TUIs : p = q
  /\ handoffs = 1 => TUIs = {}

\* "stale marker -> remove + re-claim via O_EXCL (exactly one winner)": no
\* two launchers own the launch window.
ExactlyOneWinner ==
  \A l, m \in Launchers :
    pc[l] \in ClaimedLabels /\ pc[m] \in ClaimedLabels => l = m

\* A guarded launch duplicates a TUI only after one launcher has removed the
\* fresh marker of another as stale: every other interleaving of the checks,
\* the claim, crashes, expiry and the hand-over keeps the TUI a singleton.
DuplicateNeedsStolenMarker ==
  "stolen" \notin mishaps => AtMostOneTUI /\ ExactlyOneWinner

\* The watchdog signals TUIs past their boot grace only: never the unrelated
\* python process that got a listed PID, and never a fresh launch.
OnlyGrownTUIsStruck == "strayed" \notin mishaps

\* "converge the system to <=1 healthy TUI": however many duplicates came to
\* be, and although some pass their boot grace while a sweep that listed them
\* as young kills the others, once no more of them are started at most one
\* TUI past its boot grace is left for good.
Converges ==
  <>[][\A p \in PIDs : ~Appears(p)]_vars => <>[](\A p, q \in OldTUIs : p = q)

\* While sessions keep starting, the TUI comes (back) up.
TUIComesUp == []<>(TUIs # {} \/ handoffs > 0)
=============================================================================
